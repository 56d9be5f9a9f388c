----------------------------- MODULE FrostProofs -----------------------------
(***************************************************************************)
(* Proofs about the cryptographic core, for every prime order and          *)
(* generator, every number of participants and threshold, and every choice *)
(* of polynomials, nonces, hash outputs and errors:                        *)
(*                                                                         *)
(*   1. the arithmetic: sums and products of families, Horner's method,    *)
(*      commitments, Lagrange interpolation at any point;                  *)
(*   2. ThresholdSigning;                                                  *)
(*   3. Dkg;                                                               *)
(*   4. KeyMaintenance.                                                    *)
(*                                                                         *)
(* Each of the last three has an inductive invariant that says which       *)
(* polynomial every share lies on, and rests on part 1 for what follows.   *)
(***************************************************************************)
EXTENDS ThresholdSigning, Dkg, KeyMaintenance, FiniteSetTheorems,
        WellFoundedInduction, TLAPS

-----------------------------------------------------------------------------
(* 1. The arithmetic.                                                      *)

(* Induction.                                                              *)

\* A nonempty set of naturals has a least element.
LEMMA LeastNat ==
  ASSUME NEW T, T \subseteq Nat, T # {}
  PROVE  \E x \in T : \A y \in T : x <= y
<1>1. IsWellFoundedOn(OpToRel(<, Nat), Nat)
  BY NatLessThanWellFounded
<1>2. \E x \in T : \A y \in T : <<y, x>> \notin OpToRel(<, Nat)
  BY <1>1, WFMin
<1>3. \A x, y \in Nat : <<y, x>> \in OpToRel(<, Nat) <=> y < x
  BY DEF OpToRel
<1>4. PICK x \in T : \A y \in T : <<y, x>> \notin OpToRel(<, Nat)
  BY <1>2
<1>5. \A y \in T : ~(y < x)
  BY <1>3, <1>4, Zenon
<1> QED BY <1>5

\* A set that has 0 in it, and with every number the next, has all.
LEMMA Induct ==
  ASSUME NEW P, 0 \in P, \A n \in Nat : n \in P => n + 1 \in P
  PROVE  \A n \in Nat : n \in P
<1> DEFINE Bad == {n \in Nat : n \notin P}
<1> SUFFICES ASSUME Bad # {} PROVE FALSE
  OBVIOUS
<1>1. PICK x \in Bad : \A y \in Bad : x <= y
  BY LeastNat
<1>2. x # 0 /\ x - 1 \in Nat /\ x - 1 \notin Bad
  BY <1>1
<1>3. x - 1 \in P
  BY <1>2
<1>4. (x - 1) + 1 \in P
  BY <1>2, <1>3
<1> QED BY <1>1, <1>4

\* A set that has every subset of S that it has without any one of its
\* elements has all subsets of S.
LEMMA InductSet ==
  ASSUME NEW S, IsFiniteSet(S), NEW P,
         \A T \in SUBSET S : (\A a \in T : T \ {a} \in P) => T \in P
  PROVE  \A T \in SUBSET S : T \in P
<1> DEFINE Sizes == {n \in Nat : \A T \in SUBSET S : Cardinality(T) = n => T \in P}
<1>0. \A T \in SUBSET S : IsFiniteSet(T) /\ Cardinality(T) \in Nat
  BY FS_Subset, FS_CardinalityType
<1>1. 0 \in Sizes
  <2> SUFFICES ASSUME NEW T \in SUBSET S, Cardinality(T) = 0 PROVE T \in P
    OBVIOUS
  <2>1. T = {}
    BY <1>0, FS_EmptySet
  <2> QED BY <2>1
<1>2. ASSUME NEW n \in Nat, n \in Sizes PROVE n + 1 \in Sizes
  <2> SUFFICES ASSUME NEW T \in SUBSET S, Cardinality(T) = n + 1 PROVE T \in P
    OBVIOUS
  <2>1. ASSUME NEW a \in T PROVE T \ {a} \in P
    <3>1. Cardinality(T \ {a}) = n
      BY <1>0, FS_RemoveElement
    <3> QED BY <1>2, <3>1
  <2> QED BY <2>1
<1> HIDE DEF Sizes
<1>3. \A n \in Nat : n \in Sizes
  BY <1>1, <1>2, Induct
<1> QED BY <1>0, <1>3 DEF Sizes

-----------------------------------------------------------------------------
(* Folds.  t is the function iter of MapThenFoldSet, with the step as a    *)
(* function.                                                               *)

Tallies(S, base, step, pick, t) ==
  t = [s \in SUBSET S |->
         IF s = {} THEN base ELSE step[<<pick[s], t[s \ {pick[s]}]>>]]

Picks(S, pick) == \A s \in SUBSET S : s # {} => pick[s] \in s

Commutes(S, V, step) ==
  \A a, b \in S, v \in V :
    step[<<a, step[<<b, v>>]>>] = step[<<b, step[<<a, v>>]>>]

AnyLast(S, step, t) ==
  \A s \in SUBSET S : \A a \in s : t[s] = step[<<a, t[s \ {a}]>>]

\* There is such a function for every finite set.
LEMMA TallyExists ==
  ASSUME NEW S, IsFiniteSet(S), NEW V, NEW base \in V,
         NEW step \in [S \X V -> V],
         NEW pick, Picks(S, pick)
  PROVE  \E t \in [SUBSET S -> V] : Tallies(S, base, step, pick, t)
<1> DEFINE Below(n) == {s \in SUBSET S : Cardinality(s) <= n}
           Fits(n, t) ==
             \A s \in Below(n) :
               t[s] = IF s = {} THEN base ELSE step[<<pick[s], t[s \ {pick[s]}]>>]
           Sizes == {n \in Nat : \E t \in [SUBSET S -> V] : Fits(n, t)}
<1>0. \A s \in SUBSET S : IsFiniteSet(s) /\ Cardinality(s) \in Nat
  BY FS_Subset, FS_CardinalityType
<1>1. \A s \in SUBSET S : s # {} =>
        /\ pick[s] \in S
        /\ s \ {pick[s]} \in SUBSET S
        /\ Cardinality(s \ {pick[s]}) = Cardinality(s) - 1
  BY <1>0, FS_RemoveElement DEF Picks
<1>2. 0 \in Sizes
  <2>1. [s \in SUBSET S |-> base] \in [SUBSET S -> V]
    OBVIOUS
  <2>2. \A s \in Below(0) : s = {}
    BY <1>0, FS_EmptySet
  <2>3. Fits(0, [s \in SUBSET S |-> base])
    BY <2>2
  <2> QED BY <2>1, <2>3
<1>3. ASSUME NEW n \in Nat, n \in Sizes PROVE n + 1 \in Sizes
  <2>1. PICK t \in [SUBSET S -> V] : Fits(n, t)
    BY <1>3
  <2> DEFINE u == [s \in SUBSET S |->
                     IF s = {} THEN base ELSE step[<<pick[s], t[s \ {pick[s]}]>>]]
  <2>2. u \in [SUBSET S -> V]
    BY <1>1
  <2>3. \A s \in Below(n) : u[s] = t[s]
    BY <2>1
  <2>4. ASSUME NEW s \in Below(n + 1)
        PROVE  u[s] = IF s = {} THEN base ELSE step[<<pick[s], u[s \ {pick[s]}]>>]
    <3>1. s # {} => s \ {pick[s]} \in Below(n)
      BY <1>0, <1>1
    <3> QED BY <2>3, <3>1
  <2>5. Fits(n + 1, u)
    <3> HIDE DEF u
    <3> QED BY <2>4
  <2> HIDE DEF u, Fits
  <2> QED BY <2>2, <2>5
<1> HIDE DEF Sizes
<1>4. \A n \in Nat : n \in Sizes
  BY <1>2, <1>3, Induct
<1>5. PICK t \in [SUBSET S -> V] : Fits(Cardinality(S), t)
  BY <1>0, <1>4 DEF Sizes
<1>6. \A s \in SUBSET S : s \in Below(Cardinality(S))
  BY FS_Subset
<1>7. Tallies(S, base, step, pick, t)
  BY <1>5, <1>6 DEF Tallies
<1> QED BY <1>7

\* When the order of two steps does not matter, any element may come last.
LEMMA TallyAny ==
  ASSUME NEW S, IsFiniteSet(S), NEW V, NEW base \in V,
         NEW step \in [S \X V -> V],
         Commutes(S, V, step), NEW pick, Picks(S, pick),
         NEW t \in [SUBSET S -> V], Tallies(S, base, step, pick, t)
  PROVE  AnyLast(S, step, t)
<1> DEFINE P == {s \in SUBSET S : \A a \in s : t[s] = step[<<a, t[s \ {a}]>>]}
<1>2. ASSUME NEW s \in SUBSET S, \A c \in s : s \ {c} \in P
      PROVE  s \in P
  <2> SUFFICES ASSUME NEW a \in s PROVE t[s] = step[<<a, t[s \ {a}]>>]
    OBVIOUS
  <2> DEFINE b == pick[s]
  <2>1. b \in s /\ t[s] = step[<<b, t[s \ {b}]>>]
    BY DEF Tallies, Picks
  <2>2. CASE a = b
    BY <2>1, <2>2
  <2>3. CASE a # b
    <3> DEFINE r == (s \ {a}) \ {b}
    <3> HIDE DEF b
    <3>1. r = (s \ {b}) \ {a} /\ a \in s \ {b} /\ b \in s \ {a}
      BY <2>1, <2>3
    <3>2. t[s \ {b}] = step[<<a, t[r]>>]
      <4>1. s \ {b} \in P
        BY <1>2, <2>1
      <4>2. t[s \ {b}] = step[<<a, t[(s \ {b}) \ {a}]>>]
        BY <3>1, <4>1
      <4> QED BY <3>1, <4>2
    <3>3. t[s \ {a}] = step[<<b, t[r]>>]
      BY <1>2, <3>1
    <3>4. t[r] \in V /\ a \in S /\ b \in S
      BY <2>1
    <3> HIDE DEF r
    <3> QED BY <2>1, <3>2, <3>3, <3>4 DEF Commutes
  <2> QED BY <2>2, <2>3
<1> HIDE DEF P
<1>3. \A s \in SUBSET S : s \in P
  BY <1>2, InductSet
<1> QED BY <1>3 DEF P, AnyLast

-----------------------------------------------------------------------------
(* Arithmetic modulo Q.                                                    *)

\* Division with remainder.
LEMMA DivMod ==
  ASSUME NEW a \in Int
  PROVE  a % Q \in Scalar /\ a \div Q \in Int /\ a = (Q * (a \div Q)) + (a % Q)
BY FieldAssumptions DEF Scalar

\* The remainder is unique.
LEMMA ModUnique ==
  ASSUME NEW k \in Int, NEW r \in Scalar
  PROVE  ((k * Q) + r) % Q = r
BY FieldAssumptions DEF Scalar

\* Adding a multiple of Q changes nothing.
LEMMA ModShift ==
  ASSUME NEW a \in Int, NEW k \in Int
  PROVE  (a + (k * Q)) % Q = a % Q
<1>1. a % Q \in Scalar /\ a \div Q \in Int /\ a = (Q * (a \div Q)) + (a % Q)
  BY DivMod
<1>2. Q \in Int /\ a % Q \in Int
  BY <1>1, FieldAssumptions DEF Scalar
<1> DEFINE d == a \div Q
           m == a % Q
<1>3. d \in Int /\ m \in Scalar /\ m \in Int /\ a = (Q * d) + m
  BY <1>1, <1>2
<1> HIDE DEF d, m
<1>4. a + (k * Q) = ((d + k) * Q) + m
  BY <1>2, <1>3
<1>5. (((d + k) * Q) + m) % Q = m
  BY <1>3, ModUnique
<1> QED BY <1>4, <1>5 DEF m

\* A remainder may be taken before adding.
LEMMA ModAdd ==
  ASSUME NEW a \in Int, NEW b \in Int
  PROVE  ((a % Q) + b) % Q = (a + b) % Q
<1> DEFINE d == a \div Q
           m == a % Q
<1>1. d \in Int /\ m \in Int /\ a = (Q * d) + m /\ Q \in Int
  BY DivMod, FieldAssumptions DEF Scalar
<1> HIDE DEF d, m
<1>2. a + b = (m + b) + (d * Q) /\ m + b \in Int
  BY <1>1
<1>3. ((m + b) + (d * Q)) % Q = (m + b) % Q
  BY <1>1, <1>2, ModShift
<1> QED BY <1>2, <1>3 DEF m

\* A remainder may be taken before multiplying.
LEMMA ModMul ==
  ASSUME NEW a \in Int, NEW b \in Int
  PROVE  ((a % Q) * b) % Q = (a * b) % Q
<1> DEFINE d == a \div Q
           m == a % Q
<1>1. d \in Int /\ m \in Int /\ a = (Q * d) + m /\ Q \in Int
  BY DivMod, FieldAssumptions DEF Scalar
<1> HIDE DEF d, m
<1>2. a * b = (m * b) + ((d * b) * Q)
  BY <1>1
<1>3. m * b \in Int /\ d * b \in Int
  BY <1>1
<1>4. ((m * b) + ((d * b) * Q)) % Q = (m * b) % Q
  BY <1>3, ModShift
<1> QED BY <1>2, <1>4 DEF m

\* What Scalar is, and that elements are scalars here.
LEMMA ScalarInt == Scalar \subseteq Int /\ Element = Scalar /\ Identity = 0
                   /\ 0 \in Scalar /\ 1 \in Scalar /\ 0 # 1 /\ G \in Scalar /\ G # 0
BY FieldAssumptions DEF Scalar, Element, Identity

\* The operations yield scalars.
LEMMA OpType ==
  ASSUME NEW a \in Int, NEW b \in Int
  PROVE  SAdd(a, b) \in Scalar /\ SSub(a, b) \in Scalar /\ SMul(a, b) \in Scalar
BY DivMod DEF SAdd, SSub, SMul

\* The group is the scalars with G for 1.
LEMMA ElementOps ==
  ASSUME NEW a \in Int, NEW b \in Int
  PROVE  /\ EAdd(a, b) = SAdd(a, b)
         /\ ScalarMult(a, b) = SMul(a, b)
         /\ ScalarBaseMult(a) = SMul(G, a)
<1>1. a * b = b * a /\ a * G = G * a
  BY ScalarInt
<1> QED BY <1>1 DEF EAdd, SAdd, SMul, ScalarMult, ScalarBaseMult

\* A scalar is its own remainder.
LEMMA ScalarMod ==
  ASSUME NEW a \in Scalar
  PROVE  a % Q = a
<1>1. ((0 * Q) + a) % Q = a
  BY ModUnique
<1>2. (0 * Q) + a = a
  BY FieldAssumptions DEF Scalar
<1> QED BY <1>1, <1>2

\* Addition and multiplication commute.
LEMMA Commute ==
  ASSUME NEW a \in Int, NEW b \in Int
  PROVE  SAdd(a, b) = SAdd(b, a) /\ SMul(a, b) = SMul(b, a)
<1>1. a + b = b + a /\ a * b = b * a
  OBVIOUS
<1> QED BY <1>1 DEF SAdd, SMul

\* Addition is associative.
LEMMA AddAssoc ==
  ASSUME NEW a \in Int, NEW b \in Int, NEW c \in Int
  PROVE  SAdd(a, SAdd(b, c)) = SAdd(SAdd(a, b), c)
<1>1. SAdd(SAdd(a, b), c) = ((a + b) + c) % Q
  BY ModAdd DEF SAdd
<1>2. SAdd(SAdd(b, c), a) = ((b + c) + a) % Q
  BY ModAdd DEF SAdd
<1>3. SAdd(a, SAdd(b, c)) = SAdd(SAdd(b, c), a)
  BY Commute, OpType, ScalarInt
<1>4. (a + b) + c = (b + c) + a
  OBVIOUS
<1> QED BY <1>1, <1>2, <1>3, <1>4

\* Multiplication is associative.
LEMMA MulAssoc ==
  ASSUME NEW a \in Int, NEW b \in Int, NEW c \in Int
  PROVE  SMul(a, SMul(b, c)) = SMul(SMul(a, b), c)
<1>1. SMul(SMul(a, b), c) = ((a * b) * c) % Q
  BY ModMul DEF SMul
<1>2. SMul(SMul(b, c), a) = ((b * c) * a) % Q
  BY ModMul DEF SMul
<1>3. SMul(a, SMul(b, c)) = SMul(SMul(b, c), a)
  BY Commute, OpType, ScalarInt
<1>4. (a * b) * c = (b * c) * a
  OBVIOUS
<1> QED BY <1>1, <1>2, <1>3, <1>4

\* Multiplication distributes over addition.
LEMMA Distribute ==
  ASSUME NEW a \in Int, NEW b \in Int, NEW c \in Int
  PROVE  /\ SMul(SAdd(a, b), c) = SAdd(SMul(a, c), SMul(b, c))
         /\ SMul(c, SAdd(a, b)) = SAdd(SMul(c, a), SMul(c, b))
<1>1. SMul(SAdd(a, b), c) = ((a + b) * c) % Q
  BY ModMul DEF SMul, SAdd
<1>2. (a + b) * c = (a * c) + (b * c) /\ a * c \in Int /\ b * c \in Int
  OBVIOUS
<1>3. SAdd(SMul(a, c), b * c) = ((a * c) + (b * c)) % Q
  BY <1>2, ModAdd DEF SMul, SAdd
<1>4. SAdd(SMul(b, c), SMul(a, c)) = ((b * c) + SMul(a, c)) % Q
  BY <1>2, ModAdd, OpType, ScalarInt DEF SMul, SAdd
<1>5. SMul(a, c) \in Int /\ SMul(b, c) \in Int
  BY OpType, ScalarInt
<1>6. (b * c) + SMul(a, c) = SMul(a, c) + (b * c)
  BY <1>2, <1>5
<1>7. SMul(SAdd(a, b), c) = SAdd(SMul(a, c), SMul(b, c))
  BY <1>1, <1>2, <1>3, <1>4, <1>5, <1>6, Commute DEF SAdd
<1>8. SMul(c, SAdd(a, b)) = SMul(SAdd(a, b), c) /\ SMul(c, a) = SMul(a, c) /\ SMul(c, b) = SMul(b, c)
  BY Commute, OpType, ScalarInt
<1> QED BY <1>7, <1>8

\* The zero and the one of the field.
LEMMA Units ==
  ASSUME NEW a \in Scalar
  PROVE  /\ SAdd(a, 0) = a /\ SAdd(0, a) = a
         /\ SMul(a, 1) = a /\ SMul(1, a) = a
         /\ SMul(a, 0) = 0 /\ SMul(0, a) = 0
         /\ SSub(a, 0) = a /\ SSub(a, a) = 0
<1>1. a % Q = a /\ 0 % Q = 0
  BY ScalarMod, ScalarInt
<1>2. a + 0 = a /\ 0 + a = a /\ a * 1 = a /\ 1 * a = a /\ a * 0 = 0 /\ 0 * a = 0
      /\ a - 0 = a /\ a - a = 0
  BY ScalarInt
<1> QED BY <1>1, <1>2 DEF SAdd, SMul, SSub

\* Subtraction undoes addition.
LEMMA SubAdd ==
  ASSUME NEW a \in Scalar, NEW b \in Scalar
  PROVE  SAdd(SSub(a, b), b) = a /\ SSub(SAdd(a, b), b) = a
<1>1. SAdd(SSub(a, b), b) = ((a - b) + b) % Q
  BY ModAdd, ScalarInt DEF SAdd, SSub
<1>2. a + b \in Int /\ (a + b) % Q \in Int /\ 0 - b \in Int
  <2>1. a + b \in Int /\ 0 - b \in Int
    BY ScalarInt
  <2>2. (a + b) % Q \in Scalar
    BY <2>1, DivMod
  <2> QED BY <2>1, <2>2, ScalarInt
<1>3. SSub(SAdd(a, b), b) = ((a + b) + (0 - b)) % Q
  <2>1. ((a + b) % Q) - b = ((a + b) % Q) + (0 - b)
    BY <1>2, ScalarInt
  <2> QED BY <1>2, <2>1, ModAdd DEF SAdd, SSub
<1>4. (a - b) + b = a /\ (a + b) + (0 - b) = a
  BY ScalarInt
<1> QED BY <1>1, <1>3, <1>4, ScalarMod

\* What was added can be taken away.
LEMMA AddCancel ==
  ASSUME NEW a \in Scalar, NEW b \in Scalar, NEW c \in Scalar,
         SAdd(a, c) = SAdd(b, c)
  PROVE  a = b
BY SubAdd

\* Only equal scalars have the difference zero.
LEMMA SubZero ==
  ASSUME NEW a \in Scalar, NEW b \in Scalar, SSub(a, b) = 0
  PROVE  a = b
<1>1. SAdd(SSub(a, b), b) = a
  BY SubAdd
<1> QED BY <1>1, Units

\* Multiplication distributes over subtraction.
LEMMA MulSub ==
  ASSUME NEW a \in Scalar, NEW b \in Scalar, NEW c \in Scalar
  PROVE  SMul(SSub(a, b), c) = SSub(SMul(a, c), SMul(b, c))
<1>0. SSub(a, b) \in Int /\ a \in Int /\ b \in Int /\ c \in Int
  BY OpType, ScalarInt
<1>1. SMul(SAdd(SSub(a, b), b), c) = SAdd(SMul(SSub(a, b), c), SMul(b, c))
  BY <1>0, Distribute
<1>2. SAdd(SSub(a, b), b) = a
  BY SubAdd
<1>3. SMul(SSub(a, b), c) \in Scalar /\ SMul(b, c) \in Scalar
  BY OpType, ScalarInt
<1>4. SSub(SAdd(SMul(SSub(a, b), c), SMul(b, c)), SMul(b, c)) = SMul(SSub(a, b), c)
  BY <1>3, SubAdd
<1> QED BY <1>1, <1>2, <1>4

\* No product of nonzero scalars is zero.
LEMMA NoZeroDivisor ==
  ASSUME NEW a \in Scalar, NEW b \in Scalar, SMul(a, b) = 0, a # 0
  PROVE  b = 0
BY FieldAssumptions DEF Scalar, SMul

\* A factor other than zero may be cancelled.
LEMMA MulCancel ==
  ASSUME NEW a \in Scalar, NEW b \in Scalar, NEW c \in Scalar, c # 0,
         SMul(a, c) = SMul(b, c)
  PROVE  a = b
<1>1. SMul(SSub(a, b), c) = SSub(SMul(a, c), SMul(b, c))
  BY MulSub
<1>2. SSub(SMul(a, c), SMul(b, c)) = 0
  BY Units, OpType, ScalarInt
<1>3. SMul(c, SSub(a, b)) = 0
  BY <1>1, <1>2, Commute, OpType, ScalarInt
<1>4. SSub(a, b) = 0
  BY <1>3, NoZeroDivisor, OpType, ScalarInt
<1> QED BY <1>4, SubZero

\* Multiplication with c is one to one on a finite set, so it reaches 1.
LEMMA Inverse1 ==
  ASSUME NEW c \in Scalar, c # 0
  PROVE  SInv(c) \in Scalar /\ SMul(c, SInv(c)) = 1
<1> DEFINE f == [b \in Scalar |-> SMul(c, b)]
           T == {f[b] : b \in Scalar}
<1>1. IsFiniteSet(Scalar)
  BY FS_Interval, FieldAssumptions DEF Scalar
<1>2. f \in [Scalar -> T]
  OBVIOUS
<1>3. \A a, b \in Scalar : f[a] = f[b] => a = b
  BY MulCancel, Commute, ScalarInt
<1>4. T \subseteq Scalar
  BY OpType, ScalarInt
<1>5. IsFiniteSet(T)
  BY <1>1, <1>4, FS_Subset
<1>6. Cardinality(T) = Cardinality(Scalar)
  <2>1. f \in Bijection(Scalar, T)
    BY <1>2, <1>3 DEF Bijection, Injection, Surjection, IsInjective
  <2>2. ExistsBijection(Scalar, T)
    BY <2>1 DEF ExistsBijection
  <2> QED BY <1>1, <2>2, FS_Bijection
<1>7. T = Scalar
  BY <1>1, <1>4, <1>6, FS_Subset, FS_CardinalityType
<1>8. \E b \in Scalar : SMul(c, b) = 1
  BY <1>7, ScalarInt
<1> QED BY <1>8 DEF SInv

-----------------------------------------------------------------------------
(* Sums and products.                                                      *)

\* What FoldFunction computes, for every subset of the domain.
LEMMA SSumTally ==
  ASSUME NEW S, IsFiniteSet(S), NEW F \in [S -> Scalar]
  PROVE  \E t \in [SUBSET S -> Scalar] :
           /\ t[{}] = 0
           /\ \A s \in SUBSET S : \A a \in s : t[s] = SAdd(F[a], t[s \ {a}])
           /\ SSum(F) = t[S]
<1> DEFINE Some(s) == CHOOSE x \in s : TRUE
           Iter(it) == it = [s \in SUBSET S |->
             IF s = {} THEN 0 ELSE SAdd(F[Some(s)], it[s \ {Some(s)}])]
           iter == CHOOSE it : Iter(it)
           step == [p \in S \X Scalar |-> SAdd(F[p[1]], p[2])]
           pick == [s \in SUBSET S |-> Some(s)]
<1>1. SSum(F) = iter[S]
  <2>1. DOMAIN F = S
    OBVIOUS
  <2> QED BY <2>1 DEF SSum, FoldFunction, FoldFunctionOnSet, MapThenFoldSet
<1>2. step \in [S \X Scalar -> Scalar]
  BY OpType, ScalarInt
<1>3. \A s \in SUBSET S : s # {} => pick[s] = Some(s) /\ Some(s) \in s
  OBVIOUS
<1>4. Picks(S, pick)
  BY <1>3 DEF Picks
<1>5. \A a \in S, v \in Scalar : step[<<a, v>>] = SAdd(F[a], v)
  OBVIOUS
<1>6. 0 \in Scalar
  BY ScalarInt
<1> HIDE DEF step, pick
<1>7. PICK t \in [SUBSET S -> Scalar] : Tallies(S, 0, step, pick, t)
  BY <1>2, <1>4, <1>6, TallyExists
<1>8. Iter(t)
  <2>1. ASSUME NEW s \in SUBSET S, s # {}
        PROVE  step[<<pick[s], t[s \ {pick[s]}]>>] = SAdd(F[Some(s)], t[s \ {Some(s)}])
    <3>1. pick[s] = Some(s) /\ Some(s) \in S /\ t[s \ {Some(s)}] \in Scalar
      BY <1>3, <2>1
    <3> HIDE DEF Some
    <3> QED BY <1>5, <3>1
  <2> HIDE DEF Some
  <2> QED BY <1>7, <2>1 DEF Tallies
<1>9. Iter(iter)
  <2> HIDE DEF Iter
  <2> QED BY <1>8, Zenon
<1>10. iter \in [SUBSET S -> Scalar] /\ Tallies(S, 0, step, pick, iter)
  <2> HIDE DEF iter, Some
  <2> DEFINE P == {s \in SUBSET S : iter[s] = t[s]}
  <2>1. ASSUME NEW s \in SUBSET S, \A a \in s : s \ {a} \in P PROVE s \in P
    <3>1. CASE s = {}
      BY <1>8, <1>9, <3>1
    <3>2. CASE s # {}
      <4>1. Some(s) \in s
        BY <1>3, <3>2
      <4>2. iter[s \ {Some(s)}] = t[s \ {Some(s)}]
        BY <2>1, <4>1
      <4> QED BY <1>8, <1>9, <3>2, <4>2
    <3> QED BY <3>1, <3>2
  <2> HIDE DEF P
  <2>2. \A s \in SUBSET S : s \in P
    BY <2>1, InductSet
  <2>3. \A s \in SUBSET S : iter[s] = t[s]
    BY <2>2 DEF P
  <2>4. DOMAIN iter = SUBSET S /\ iter = [s \in SUBSET S |-> iter[s]]
    BY <1>9
  <2>5. t = [s \in SUBSET S |-> t[s]]
    OBVIOUS
  <2>6. iter = t
    BY <2>3, <2>4, <2>5
  <2> QED BY <1>7, <2>6
<1>11. Commutes(S, Scalar, step)
  <2> SUFFICES ASSUME NEW a \in S, NEW b \in S, NEW v \in Scalar
               PROVE  step[<<a, step[<<b, v>>]>>] = step[<<b, step[<<a, v>>]>>]
    BY DEF Commutes
  <2>1. F[a] \in Int /\ F[b] \in Int /\ v \in Int
    BY ScalarInt
  <2>2. SAdd(F[a], v) \in Scalar /\ SAdd(F[b], v) \in Scalar
    BY <2>1, OpType
  <2>3. SAdd(F[a], SAdd(F[b], v)) = SAdd(F[b], SAdd(F[a], v))
    BY <2>1, AddAssoc, Commute
  <2> QED BY <1>5, <2>2, <2>3
<1> HIDE DEF iter, Some
<1>12. AnyLast(S, step, iter)
  BY <1>2, <1>4, <1>6, <1>10, <1>11, TallyAny
<1>13. \A s \in SUBSET S : \A a \in s : iter[s] = SAdd(F[a], iter[s \ {a}])
  BY <1>5, <1>10, <1>12 DEF AnyLast
<1>14. iter[{}] = 0
  BY <1>10 DEF Tallies
<1> QED BY <1>1, <1>10, <1>13, <1>14

\* A sum is a scalar.
LEMMA SSumType ==
  ASSUME NEW S, IsFiniteSet(S), NEW F \in [S -> Scalar]
  PROVE  SSum(F) \in Scalar
<1>1. \E t \in [SUBSET S -> Scalar] :
        /\ t[{}] = 0
        /\ \A s \in SUBSET S : \A a \in s : t[s] = SAdd(F[a], t[s \ {a}])
        /\ SSum(F) = t[S]
  BY SSumTally, Zenon
<1>2. PICK t \in [SUBSET S -> Scalar] : SSum(F) = t[S]
  BY <1>1, Zenon
<1> QED BY <1>2

\* The sum of nothing.
LEMMA SSumEmpty ==
  ASSUME NEW F \in [{} -> Scalar]
  PROVE  SSum(F) = 0
<1>1. PICK t \in [SUBSET {} -> Scalar] : t[{}] = 0 /\ SSum(F) = t[{}]
  BY SSumTally, FS_EmptySet
<1> QED BY <1>1

\* One term may be taken out, whichever it is.
LEMMA SSumStep ==
  ASSUME NEW S, IsFiniteSet(S), NEW F \in [S -> Scalar], NEW a \in S
  PROVE  SSum(F) = SAdd(F[a], SSum([i \in S \ {a} |-> F[i]]))
<1> DEFINE R == S \ {a}
           H == [i \in R |-> F[i]]
<1>1. IsFiniteSet(R) /\ H \in [R -> Scalar]
  BY FS_Subset
<1> HIDE DEF H
<1>2. PICK t \in [SUBSET S -> Scalar] :
        /\ t[{}] = 0
        /\ \A s \in SUBSET S : \A b \in s : t[s] = SAdd(F[b], t[s \ {b}])
        /\ SSum(F) = t[S]
  BY SSumTally
<1>3. PICK u \in [SUBSET R -> Scalar] :
        /\ u[{}] = 0
        /\ \A s \in SUBSET R : \A b \in s : u[s] = SAdd(H[b], u[s \ {b}])
        /\ SSum(H) = u[R]
  BY <1>1, SSumTally
<1> DEFINE P == {s \in SUBSET R : u[s] = t[s]}
<1>4. ASSUME NEW s \in SUBSET R, \A b \in s : s \ {b} \in P PROVE s \in P
  <2>1. CASE s = {}
    BY <1>2, <1>3, <2>1
  <2>2. CASE s # {}
    <3>1. PICK b \in s : TRUE
      BY <2>2
    <3>2. u[s \ {b}] = t[s \ {b}] /\ H[b] = F[b] /\ s \in SUBSET S
      BY <1>4 DEF H
    <3> QED BY <1>2, <1>3, <3>2
  <2> QED BY <2>1, <2>2
<1> HIDE DEF P
<1>5. R \in P
  <2> HIDE DEF R
  <2>1. \A s \in SUBSET R : s \in P
    BY <1>1, <1>4, InductSet
  <2> QED BY <2>1
<1>6. SSum(H) = t[R]
  BY <1>3, <1>5 DEF P
<1> QED BY <1>2, <1>6 DEF H

\* What FoldFunction computes, for every subset of the domain.
LEMMA SProdTally ==
  ASSUME NEW S, IsFiniteSet(S), NEW F \in [S -> Scalar]
  PROVE  \E t \in [SUBSET S -> Scalar] :
           /\ t[{}] = 1
           /\ \A s \in SUBSET S : \A a \in s : t[s] = SMul(F[a], t[s \ {a}])
           /\ SProd(F) = t[S]
<1> DEFINE Some(s) == CHOOSE x \in s : TRUE
           Iter(it) == it = [s \in SUBSET S |->
             IF s = {} THEN 1 ELSE SMul(F[Some(s)], it[s \ {Some(s)}])]
           iter == CHOOSE it : Iter(it)
           step == [p \in S \X Scalar |-> SMul(F[p[1]], p[2])]
           pick == [s \in SUBSET S |-> Some(s)]
<1>1. SProd(F) = iter[S]
  <2>1. DOMAIN F = S
    OBVIOUS
  <2> QED BY <2>1 DEF SProd, FoldFunction, FoldFunctionOnSet, MapThenFoldSet
<1>2. step \in [S \X Scalar -> Scalar]
  BY OpType, ScalarInt
<1>3. \A s \in SUBSET S : s # {} => pick[s] = Some(s) /\ Some(s) \in s
  OBVIOUS
<1>4. Picks(S, pick)
  BY <1>3 DEF Picks
<1>5. \A a \in S, v \in Scalar : step[<<a, v>>] = SMul(F[a], v)
  OBVIOUS
<1>6. 1 \in Scalar
  BY ScalarInt
<1> HIDE DEF step, pick
<1>7. PICK t \in [SUBSET S -> Scalar] : Tallies(S, 1, step, pick, t)
  BY <1>2, <1>4, <1>6, TallyExists
<1>8. Iter(t)
  <2>1. ASSUME NEW s \in SUBSET S, s # {}
        PROVE  step[<<pick[s], t[s \ {pick[s]}]>>] = SMul(F[Some(s)], t[s \ {Some(s)}])
    <3>1. pick[s] = Some(s) /\ Some(s) \in S /\ t[s \ {Some(s)}] \in Scalar
      BY <1>3, <2>1
    <3> HIDE DEF Some
    <3> QED BY <1>5, <3>1
  <2> HIDE DEF Some
  <2> QED BY <1>7, <2>1 DEF Tallies
<1>9. Iter(iter)
  <2> HIDE DEF Iter
  <2> QED BY <1>8, Zenon
<1>10. iter \in [SUBSET S -> Scalar] /\ Tallies(S, 1, step, pick, iter)
  <2> HIDE DEF iter, Some
  <2> DEFINE P == {s \in SUBSET S : iter[s] = t[s]}
  <2>1. ASSUME NEW s \in SUBSET S, \A a \in s : s \ {a} \in P PROVE s \in P
    <3>1. CASE s = {}
      BY <1>8, <1>9, <3>1
    <3>2. CASE s # {}
      <4>1. Some(s) \in s
        BY <1>3, <3>2
      <4>2. iter[s \ {Some(s)}] = t[s \ {Some(s)}]
        BY <2>1, <4>1
      <4> QED BY <1>8, <1>9, <3>2, <4>2
    <3> QED BY <3>1, <3>2
  <2> HIDE DEF P
  <2>2. \A s \in SUBSET S : s \in P
    BY <2>1, InductSet
  <2>3. \A s \in SUBSET S : iter[s] = t[s]
    BY <2>2 DEF P
  <2>4. DOMAIN iter = SUBSET S /\ iter = [s \in SUBSET S |-> iter[s]]
    BY <1>9
  <2>5. t = [s \in SUBSET S |-> t[s]]
    OBVIOUS
  <2>6. iter = t
    BY <2>3, <2>4, <2>5
  <2> QED BY <1>7, <2>6
<1>11. Commutes(S, Scalar, step)
  <2> SUFFICES ASSUME NEW a \in S, NEW b \in S, NEW v \in Scalar
               PROVE  step[<<a, step[<<b, v>>]>>] = step[<<b, step[<<a, v>>]>>]
    BY DEF Commutes
  <2>1. F[a] \in Int /\ F[b] \in Int /\ v \in Int
    BY ScalarInt
  <2>2. SMul(F[a], v) \in Scalar /\ SMul(F[b], v) \in Scalar
    BY <2>1, OpType
  <2>3. SMul(F[a], SMul(F[b], v)) = SMul(F[b], SMul(F[a], v))
    BY <2>1, MulAssoc, Commute
  <2> QED BY <1>5, <2>2, <2>3
<1> HIDE DEF iter, Some
<1>12. AnyLast(S, step, iter)
  BY <1>2, <1>4, <1>6, <1>10, <1>11, TallyAny
<1>13. \A s \in SUBSET S : \A a \in s : iter[s] = SMul(F[a], iter[s \ {a}])
  BY <1>5, <1>10, <1>12 DEF AnyLast
<1>14. iter[{}] = 1
  BY <1>10 DEF Tallies
<1> QED BY <1>1, <1>10, <1>13, <1>14

\* A product is a scalar.
LEMMA SProdType ==
  ASSUME NEW S, IsFiniteSet(S), NEW F \in [S -> Scalar]
  PROVE  SProd(F) \in Scalar
<1>1. \E t \in [SUBSET S -> Scalar] :
        /\ t[{}] = 1
        /\ \A s \in SUBSET S : \A a \in s : t[s] = SMul(F[a], t[s \ {a}])
        /\ SProd(F) = t[S]
  BY SProdTally, Zenon
<1>2. PICK t \in [SUBSET S -> Scalar] : SProd(F) = t[S]
  BY <1>1, Zenon
<1> QED BY <1>2

\* The product of nothing.
LEMMA SProdEmpty ==
  ASSUME NEW F \in [{} -> Scalar]
  PROVE  SProd(F) = 1
<1>1. PICK t \in [SUBSET {} -> Scalar] : t[{}] = 1 /\ SProd(F) = t[{}]
  BY SProdTally, FS_EmptySet
<1> QED BY <1>1

\* One term may be taken out, whichever it is.
LEMMA SProdStep ==
  ASSUME NEW S, IsFiniteSet(S), NEW F \in [S -> Scalar], NEW a \in S
  PROVE  SProd(F) = SMul(F[a], SProd([i \in S \ {a} |-> F[i]]))
<1> DEFINE R == S \ {a}
           H == [i \in R |-> F[i]]
<1>1. IsFiniteSet(R) /\ H \in [R -> Scalar]
  BY FS_Subset
<1> HIDE DEF H
<1>2. PICK t \in [SUBSET S -> Scalar] :
        /\ t[{}] = 1
        /\ \A s \in SUBSET S : \A b \in s : t[s] = SMul(F[b], t[s \ {b}])
        /\ SProd(F) = t[S]
  BY SProdTally
<1>3. PICK u \in [SUBSET R -> Scalar] :
        /\ u[{}] = 1
        /\ \A s \in SUBSET R : \A b \in s : u[s] = SMul(H[b], u[s \ {b}])
        /\ SProd(H) = u[R]
  BY <1>1, SProdTally
<1> DEFINE P == {s \in SUBSET R : u[s] = t[s]}
<1>4. ASSUME NEW s \in SUBSET R, \A b \in s : s \ {b} \in P PROVE s \in P
  <2>1. CASE s = {}
    BY <1>2, <1>3, <2>1
  <2>2. CASE s # {}
    <3>1. PICK b \in s : TRUE
      BY <2>2
    <3>2. u[s \ {b}] = t[s \ {b}] /\ H[b] = F[b] /\ s \in SUBSET S
      BY <1>4 DEF H
    <3> QED BY <1>2, <1>3, <3>2
  <2> QED BY <2>1, <2>2
<1> HIDE DEF P
<1>5. R \in P
  <2> HIDE DEF R
  <2>1. \A s \in SUBSET R : s \in P
    BY <1>1, <1>4, InductSet
  <2> QED BY <2>1
<1>6. SProd(H) = t[R]
  BY <1>3, <1>5 DEF P
<1> QED BY <1>2, <1>6 DEF H

\* The same of all families over one set.
LEMMA SSumSteps ==
  ASSUME NEW S, IsFiniteSet(S)
  PROVE  \A F \in [S -> Scalar] : \A a \in S :
           SSum(F) = SAdd(F[a], SSum([i \in S \ {a} |-> F[i]]))
BY SSumStep, Zenon

LEMMA SProdSteps ==
  ASSUME NEW S, IsFiniteSet(S)
  PROVE  \A F \in [S -> Scalar] : \A a \in S :
           SProd(F) = SMul(F[a], SProd([i \in S \ {a} |-> F[i]]))
BY SProdStep, Zenon

\* The sum over a part of the domain.
Part(F, s) == [i \in s |-> F[i]]

\* A part of a family is a family.
LEMMA PartType ==
  ASSUME NEW S, IsFiniteSet(S), NEW F \in [S -> Scalar], NEW s \in SUBSET S
  PROVE  /\ IsFiniteSet(s)
         /\ Part(F, s) \in [s -> Scalar]
         /\ SSum(Part(F, s)) \in Scalar
         /\ s = S => Part(F, s) = F
         /\ s = {} => SSum(Part(F, s)) = 0
<1>1. IsFiniteSet(s) /\ Part(F, s) \in [s -> Scalar]
  BY FS_Subset DEF Part
<1>2. s = S => Part(F, s) = F
  BY DEF Part
<1> QED BY <1>1, <1>2, SSumType, SSumEmpty

\* One term may be taken out of a part.
LEMMA PartStep ==
  ASSUME NEW S, IsFiniteSet(S), NEW F \in [S -> Scalar], NEW s \in SUBSET S, NEW a \in s
  PROVE  SSum(Part(F, s)) = SAdd(F[a], SSum(Part(F, s \ {a})))
<1>1. IsFiniteSet(s) /\ Part(F, s) \in [s -> Scalar]
  BY PartType
<1>2. SSum(Part(F, s)) = SAdd(Part(F, s)[a], SSum([i \in s \ {a} |-> Part(F, s)[i]]))
  <2> DEFINE H == Part(F, s)
  <2>1. IsFiniteSet(s) /\ H \in [s -> Scalar] /\ a \in s
    BY <1>1
  <2> HIDE DEF H
  <2>2. SSum(H) = SAdd(H[a], SSum([i \in s \ {a} |-> H[i]]))
    <3>1. \A b \in s : SSum(H) = SAdd(H[b], SSum([i \in s \ {b} |-> H[i]]))
      BY <2>1, SSumSteps, Zenon
    <3> QED BY <2>1, <3>1, Zenon
  <2> QED BY <2>2 DEF H
<1>3. [i \in s \ {a} |-> Part(F, s)[i]] = Part(F, s \ {a}) /\ Part(F, s)[a] = F[a]
  BY DEF Part
<1> QED BY <1>2, <1>3

\* u[s] grows like the sum over the part s of S.
GrowsLike(u, S, F) ==
  u[{}] = 0 /\ \A s \in SUBSET S : \A a \in s : u[s] = SAdd(F[a], u[s \ {a}])

\* To show that something is a sum it is enough that it grows like one.
LEMMA SumIs ==
  ASSUME NEW S, IsFiniteSet(S), NEW F \in [S -> Scalar], NEW u, GrowsLike(u, S, F)
  PROVE  SSum(F) = u[S]
<1> DEFINE P == {s \in SUBSET S : SSum(Part(F, s)) = u[s]}
<1>0. u[{}] = 0 /\ \A s \in SUBSET S : \A a \in s : u[s] = SAdd(F[a], u[s \ {a}])
  BY DEF GrowsLike
<1>1. ASSUME NEW s \in SUBSET S, \A a \in s : s \ {a} \in P PROVE s \in P
  <2>1. CASE s = {}
    BY <1>0, <2>1, PartType
  <2>2. CASE s # {}
    <3>1. PICK a \in s : TRUE
      BY <2>2
    <3>2. SSum(Part(F, s)) = SAdd(F[a], SSum(Part(F, s \ {a})))
      BY PartStep
    <3>3. SSum(Part(F, s \ {a})) = u[s \ {a}]
      BY <1>1
    <3> QED BY <1>0, <3>2, <3>3
  <2> QED BY <2>1, <2>2
<1> HIDE DEF P
<1>2. \A s \in SUBSET S : s \in P
  BY <1>1, InductSet
<1>3. SSum(Part(F, S)) = u[S]
  BY <1>2 DEF P
<1> QED BY <1>3, PartType

\* Four terms in another order.
LEMMA AddFour ==
  ASSUME NEW a \in Scalar, NEW b \in Scalar, NEW c \in Scalar, NEW d \in Scalar
  PROVE  SAdd(SAdd(a, b), SAdd(c, d)) = SAdd(SAdd(a, c), SAdd(b, d))
<1>1. a \in Int /\ b \in Int /\ c \in Int /\ d \in Int
  BY ScalarInt
<1>2. SAdd(c, d) \in Int /\ SAdd(b, d) \in Int
  BY <1>1, OpType, ScalarInt
<1>3. SAdd(SAdd(a, b), SAdd(c, d)) = SAdd(a, SAdd(b, SAdd(c, d)))
  BY <1>1, <1>2, AddAssoc
<1>4. SAdd(b, SAdd(c, d)) = SAdd(SAdd(b, c), d)
  BY <1>1, AddAssoc
<1>5. SAdd(b, c) = SAdd(c, b)
  BY <1>1, Commute
<1>6. SAdd(SAdd(c, b), d) = SAdd(c, SAdd(b, d))
  BY <1>1, AddAssoc
<1>7. SAdd(a, SAdd(c, SAdd(b, d))) = SAdd(SAdd(a, c), SAdd(b, d))
  BY <1>1, <1>2, AddAssoc
<1> QED BY <1>3, <1>4, <1>5, <1>6, <1>7

\* The sum of two families added term by term.
LEMMA SumAdd ==
  ASSUME NEW S, IsFiniteSet(S), NEW F \in [S -> Scalar], NEW H \in [S -> Scalar]
  PROVE  SSum([i \in S |-> SAdd(F[i], H[i])]) = SAdd(SSum(F), SSum(H))
<1> DEFINE K == [i \in S |-> SAdd(F[i], H[i])]
           u == [s \in SUBSET S |-> SAdd(SSum(Part(F, s)), SSum(Part(H, s)))]
<1>1. K \in [S -> Scalar]
  BY OpType, ScalarInt
<1>2. u[{}] = 0
  BY PartType, Units, ScalarInt
<1>3. ASSUME NEW s \in SUBSET S, NEW a \in s PROVE u[s] = SAdd(K[a], u[s \ {a}])
  <2> DEFINE f == SSum(Part(F, s \ {a}))
             h == SSum(Part(H, s \ {a}))
  <2>1. f \in Scalar /\ h \in Scalar /\ F[a] \in Scalar /\ H[a] \in Scalar
    BY PartType
  <2>2. SSum(Part(F, s)) = SAdd(F[a], f) /\ SSum(Part(H, s)) = SAdd(H[a], h)
    BY PartStep
  <2>3. SAdd(SAdd(F[a], f), SAdd(H[a], h)) = SAdd(SAdd(F[a], H[a]), SAdd(f, h))
    BY <2>1, AddFour
  <2> QED BY <2>2, <2>3
<1>4. u[S] = SAdd(SSum(F), SSum(H))
  BY PartType
<1> HIDE DEF K, u
<1>5. SSum(K) = u[S]
  <2>1. GrowsLike(u, S, K)
    BY <1>2, <1>3 DEF GrowsLike
  <2> QED BY <1>1, <2>1, SumIs
<1> QED BY <1>4, <1>5 DEF K

\* The same of all pairs of families over one set.
LEMMA SumAdds ==
  ASSUME NEW S, IsFiniteSet(S)
  PROVE  \A F, H \in [S -> Scalar] :
           SSum([i \in S |-> SAdd(F[i], H[i])]) = SAdd(SSum(F), SSum(H))
BY SumAdd, Zenon

\* A common factor may be taken out of a sum.
LEMMA SumScale ==
  ASSUME NEW S, IsFiniteSet(S), NEW F \in [S -> Scalar], NEW c \in Scalar
  PROVE  SSum([i \in S |-> SMul(c, F[i])]) = SMul(c, SSum(F))
<1> DEFINE K == [i \in S |-> SMul(c, F[i])]
           u == [s \in SUBSET S |-> SMul(c, SSum(Part(F, s)))]
<1>1. K \in [S -> Scalar]
  BY OpType, ScalarInt
<1>2. u[{}] = 0
  BY PartType, Units, ScalarInt
<1>3. ASSUME NEW s \in SUBSET S, NEW a \in s PROVE u[s] = SAdd(K[a], u[s \ {a}])
  <2> DEFINE f == SSum(Part(F, s \ {a}))
  <2>1. f \in Int /\ F[a] \in Int /\ c \in Int
    BY PartType, ScalarInt
  <2>2. SSum(Part(F, s)) = SAdd(F[a], f)
    BY PartStep
  <2>3. SMul(c, SAdd(F[a], f)) = SAdd(SMul(c, F[a]), SMul(c, f))
    BY <2>1, Distribute
  <2> QED BY <2>2, <2>3
<1>4. u[S] = SMul(c, SSum(F))
  BY PartType
<1> HIDE DEF K, u
<1>5. SSum(K) = u[S]
  <2>1. GrowsLike(u, S, K)
    BY <1>2, <1>3 DEF GrowsLike
  <2> QED BY <1>1, <2>1, SumIs
<1> QED BY <1>4, <1>5 DEF K

\* Zeros add up to zero.
LEMMA SumZero ==
  ASSUME NEW S, IsFiniteSet(S)
  PROVE  SSum([i \in S |-> 0]) = 0
<1> DEFINE F == [i \in S |-> 0]
<1>1. F \in [S -> Scalar] /\ SSum(F) \in Scalar
  BY ScalarInt, SSumType
<1>2. SSum([i \in S |-> SMul(0, F[i])]) = SMul(0, SSum(F))
  BY <1>1, SumScale, ScalarInt
<1>3. [i \in S |-> SMul(0, F[i])] = F
  BY Units, ScalarInt
<1> QED BY <1>1, <1>2, <1>3, Units

\* The order of two sums does not matter.
LEMMA SumSwap ==
  ASSUME NEW S, IsFiniteSet(S), NEW T, IsFiniteSet(T),
         NEW H \in [S -> [T -> Scalar]]
  PROVE  SSum([i \in S |-> SSum(H[i])]) =
           SSum([j \in T |-> SSum([i \in S |-> H[i][j]])])
<1> DEFINE K == [i \in S |-> SSum(H[i])]
           Col(j) == [i \in S |-> H[i][j]]
           Row(s) == [j \in T |-> SSum(Part(Col(j), s))]
           u == [s \in SUBSET S |-> SSum(Row(s))]
<1>1. K \in [S -> Scalar]
  BY SSumType
<1>2. \A j \in T : Col(j) \in [S -> Scalar]
  OBVIOUS
<1>3. \A s \in SUBSET S : Row(s) \in [T -> Scalar]
  BY <1>2, PartType
<1>4. u[{}] = 0
  <2>1. Row({}) = [j \in T |-> 0]
    BY <1>2, PartType
  <2> QED BY <2>1, SumZero
<1>5. ASSUME NEW s \in SUBSET S, NEW a \in s PROVE u[s] = SAdd(K[a], u[s \ {a}])
  <2>1. \A j \in T : Row(s)[j] = SAdd(H[a][j], Row(s \ {a})[j])
    BY <1>2, PartStep
  <2>2. Row(s) = [j \in T |-> SAdd(H[a][j], Row(s \ {a})[j])]
    BY <2>1
  <2>3. H[a] \in [T -> Scalar] /\ Row(s \ {a}) \in [T -> Scalar]
    BY <1>3
  <2> HIDE DEF Row
  <2>4. SSum([j \in T |-> SAdd(H[a][j], Row(s \ {a})[j])]) = SAdd(SSum(H[a]), SSum(Row(s \ {a})))
    BY <2>3, SumAdds, Zenon
  <2> QED BY <2>2, <2>4
<1>6. u[S] = SSum([j \in T |-> SSum(Col(j))])
  <2>1. \A j \in T : Part(Col(j), S) = Col(j)
    BY DEF Part
  <2> QED BY <2>1
<1> HIDE DEF K, u
<1>7. SSum(K) = u[S]
  <2>1. GrowsLike(u, S, K)
    BY <1>4, <1>5 DEF GrowsLike
  <2> QED BY <1>1, <2>1, SumIs
<1> QED BY <1>6, <1>7 DEF K

\* The terms of K are those of F in another order.
Reorders(b, T, S) ==
  /\ b \in [T -> S]
  /\ \A j, k \in T : b[j] = b[k] => j = k
  /\ \A i \in S : \E k \in T : b[k] = i

Reordered(K, b, T, F) == K \in [T -> Scalar] /\ \A k \in T : K[k] = F[b[k]]

\* The order in which a sum is written does not matter.
LEMMA SumReindex ==
  ASSUME NEW S, NEW T, IsFiniteSet(T), NEW F \in [S -> Scalar], NEW b,
         Reorders(b, T, S), NEW K, Reordered(K, b, T, F)
  PROVE  SSum(K) = SSum(F)
<1> DEFINE Image(s) == {b[k] : k \in s}
           u == [s \in SUBSET T |-> SSum(Part(F, Image(s)))]
<1>0. IsFiniteSet(S)
  <2>1. b \in Surjection(T, S)
    BY DEF Reorders, Surjection
  <2> QED BY <2>1, FS_Surjection
<1>1. K \in [T -> Scalar]
  BY DEF Reordered
<1>2. u[{}] = 0
  <2>1. Image({}) = {}
    OBVIOUS
  <2> QED BY <1>0, <2>1, PartType
<1>3. ASSUME NEW s \in SUBSET T, NEW a \in s PROVE u[s] = SAdd(K[a], u[s \ {a}])
  <2>1. Image(s) \in SUBSET S /\ b[a] \in Image(s)
    BY DEF Reorders
  <2>2. Image(s) \ {b[a]} = Image(s \ {a})
    BY DEF Reorders
  <2>3. K[a] = F[b[a]]
    BY DEF Reordered
  <2> HIDE DEF Image
  <2>4. SSum(Part(F, Image(s))) = SAdd(F[b[a]], SSum(Part(F, Image(s) \ {b[a]})))
    BY <1>0, <2>1, PartStep
  <2> QED BY <2>2, <2>3, <2>4
<1>4. u[T] = SSum(F)
  <2>1. Image(T) = S
    BY DEF Reorders
  <2> QED BY <1>0, <2>1, PartType
<1> HIDE DEF u
<1>5. SSum(K) = u[T]
  <2>1. GrowsLike(u, T, K)
    BY <1>2, <1>3 DEF GrowsLike
  <2> QED BY <1>1, <2>1, SumIs
<1> QED BY <1>4, <1>5

\* A sum of two terms.
LEMMA SumTwo ==
  ASSUME NEW F \in [1 .. 2 -> Scalar]
  PROVE  SSum(F) = SAdd(F[1], F[2])
<1>1. IsFiniteSet(1 .. 2) /\ IsFiniteSet({2}) /\ (1 .. 2) \ {1} = {2}
  <2>0. 1 \in Int /\ 2 \in Int
    OBVIOUS
  <2>1. IsFiniteSet(1 .. 2)
    BY <2>0, FS_Interval, Zenon
  <2>2. IsFiniteSet({2})
    BY FS_Singleton
  <2>3. \A i \in 1 .. 2 : i = 1 \/ i = 2
    OBVIOUS
  <2>4. (1 .. 2) \ {1} = {2}
    BY <2>3
  <2> QED BY <2>1, <2>2, <2>4
<1> DEFINE H == [i \in {2} |-> F[i]]
           L == [i \in {} |-> H[i]]
<1>2. SSum(F) = SAdd(F[1], SSum(H))
  BY <1>1, SSumStep
<1>3. H \in [{2} -> Scalar] /\ {2} \ {2} = {}
  OBVIOUS
<1>4. SSum(H) = SAdd(H[2], SSum(L))
  <2> HIDE DEF H
  <2>1. SSum(H) = SAdd(H[2], SSum([i \in {2} \ {2} |-> H[i]]))
    BY <1>1, <1>3, SSumStep
  <2> QED BY <1>3, <2>1
<1>5. SSum(L) = 0
  BY SSumEmpty
<1> QED BY <1>2, <1>4, <1>5, Units

\* A product of nonzero scalars is not zero.
LEMMA ProdNonzero ==
  ASSUME NEW S, IsFiniteSet(S), NEW F \in [S -> Scalar], \A i \in S : F[i] # 0
  PROVE  SProd(F) # 0
<1>1. PICK t \in [SUBSET S -> Scalar] :
        /\ t[{}] = 1
        /\ \A s \in SUBSET S : \A a \in s : t[s] = SMul(F[a], t[s \ {a}])
        /\ SProd(F) = t[S]
  BY SProdTally
<1> DEFINE P == {s \in SUBSET S : t[s] # 0}
<1>2. ASSUME NEW s \in SUBSET S, \A a \in s : s \ {a} \in P PROVE s \in P
  <2>1. CASE s = {}
    BY <1>1, <2>1
  <2>2. CASE s # {}
    <3>1. PICK a \in s : TRUE
      BY <2>2
    <3>2. t[s] = SMul(F[a], t[s \ {a}]) /\ t[s \ {a}] # 0
      BY <1>1, <1>2
    <3>3. t[s \ {a}] \in Scalar /\ F[a] \in Scalar /\ F[a] # 0
      OBVIOUS
    <3> QED BY <3>2, <3>3, NoZeroDivisor
  <2> QED BY <2>1, <2>2
<1> HIDE DEF P
<1>3. \A s \in SUBSET S : s \in P
  BY <1>2, InductSet
<1> QED BY <1>1, <1>3 DEF P

-----------------------------------------------------------------------------
(* Polynomials.                                                            *)

\* The intermediate results of Evaluate, the last coefficient first.
Horner(p, n, x, h) ==
  /\ h \in [1 .. n + 1 -> Scalar]
  /\ h[n + 1] = 0
  /\ \A k \in 1 .. n : h[k] = SAdd(SMul(h[k + 1], x), p[k])

\* Evaluate computes what Horner's method does.
LEMMA EvaluateIsHorner ==
  ASSUME NEW n \in Nat, NEW p \in [1 .. n -> Scalar], NEW x \in Scalar
  PROVE  \E h : Horner(p, n, x, h) /\ Evaluate(p, x) = h[1]
<1> DEFINE S == 1 .. n
           First(s) == CHOOSE a \in s : \A b \in s : a <= b
           Iter(it) == it = [s \in SUBSET S |->
             IF s = {} THEN 0
             ELSE SAdd(SMul(it[s \ {First(s)}], x), p[First(s)])]
           iter == CHOOSE it : Iter(it)
           step == [q \in S \X Scalar |-> SAdd(SMul(q[2], x), p[q[1]])]
           pick == [s \in SUBSET S |-> First(s)]
<1>1. Evaluate(p, x) = iter[S]
  <2>1. DOMAIN p = S
    OBVIOUS
  <2> QED BY <2>1 DEF Evaluate, FoldRight, MapThenFoldSet, Min
<1>2. step \in [S \X Scalar -> Scalar]
  BY OpType, ScalarInt
<1>3. \A s \in SUBSET S : s # {} => pick[s] = First(s) /\ First(s) \in s
  <2> SUFFICES ASSUME NEW s \in SUBSET S, s # {} PROVE First(s) \in s
    OBVIOUS
  <2>1. s \subseteq Nat
    OBVIOUS
  <2>2. \E a \in s : \A b \in s : a <= b
    BY <2>1, LeastNat
  <2> QED BY <2>2
<1>4. Picks(S, pick)
  BY <1>3 DEF Picks
<1>5. \A a \in S, v \in Scalar : step[<<a, v>>] = SAdd(SMul(v, x), p[a])
  OBVIOUS
<1>6. 0 \in Scalar /\ IsFiniteSet(S)
  BY ScalarInt, FS_Interval
<1>a. \A k \in S : First(k .. n) = k
  OBVIOUS
<1> HIDE DEF step, pick
<1>7. PICK t \in [SUBSET S -> Scalar] : Tallies(S, 0, step, pick, t)
  <2> HIDE DEF S
  <2> QED BY <1>2, <1>4, <1>6, TallyExists
<1> HIDE DEF First
<1>8. Iter(t)
  <2>1. ASSUME NEW s \in SUBSET S, s # {}
        PROVE  step[<<pick[s], t[s \ {pick[s]}]>>] =
                 SAdd(SMul(t[s \ {First(s)}], x), p[First(s)])
    <3>1. pick[s] = First(s) /\ First(s) \in S /\ t[s \ {First(s)}] \in Scalar
      BY <1>3, <2>1
    <3> QED BY <1>5, <3>1
  <2> HIDE DEF S
  <2> QED BY <1>7, <2>1 DEF Tallies
<1>9. Iter(iter)
  <2> HIDE DEF Iter
  <2> QED BY <1>8, Zenon
<1> HIDE DEF iter
<1>10. \A s \in SUBSET S : iter[s] = t[s]
  <2> DEFINE P == {s \in SUBSET S : iter[s] = t[s]}
  <2> HIDE DEF S
  <2>1. ASSUME NEW s \in SUBSET S, \A a \in s : s \ {a} \in P PROVE s \in P
    <3>1. CASE s = {}
      BY <1>8, <1>9, <3>1
    <3>2. CASE s # {}
      <4>1. First(s) \in s
        BY <1>3, <3>2
      <4>2. iter[s \ {First(s)}] = t[s \ {First(s)}]
        BY <2>1, <4>1
      <4> QED BY <1>8, <1>9, <3>2, <4>2
    <3> QED BY <3>1, <3>2
  <2> HIDE DEF P
  <2>2. \A s \in SUBSET S : s \in P
    BY <1>6, <2>1, InductSet
  <2> QED BY <2>2 DEF P
<1> DEFINE h == [k \in 1 .. n + 1 |-> t[k .. n]]
<1>11. h \in [1 .. n + 1 -> Scalar]
  OBVIOUS
<1>12. h[n + 1] = 0
  <2>1. (n + 1) .. n = {}
    OBVIOUS
  <2> QED BY <1>8, <2>1
<1>13. ASSUME NEW k \in 1 .. n PROVE h[k] = SAdd(SMul(h[k + 1], x), p[k])
  <2>0. \A i : i \in k .. n <=> i = k \/ i \in (k + 1) .. n
    OBVIOUS
  <2>a. k \notin (k + 1) .. n /\ k \in k .. n
    OBVIOUS
  <2>b. k .. n \in SUBSET S
    OBVIOUS
  <2>1. (k .. n) \ {k} = (k + 1) .. n /\ k .. n # {} /\ k .. n \in SUBSET S
    BY <2>0, <2>a, <2>b, Zenon
  <2>2. t[k .. n] = SAdd(SMul(t[(k .. n) \ {First(k .. n)}], x), p[First(k .. n)])
    <3> HIDE DEF S
    <3> QED BY <1>8, <2>1
  <2>3. First(k .. n) = k
    BY <1>a
  <2>4. t[k .. n] = SAdd(SMul(t[(k + 1) .. n], x), p[k])
    BY <2>1, <2>2, <2>3
  <2>5. h[k] = t[k .. n] /\ h[k + 1] = t[(k + 1) .. n]
    OBVIOUS
  <2> QED BY <2>4, <2>5
<1>14. Evaluate(p, x) = h[1]
  BY <1>1, <1>10
<1> HIDE DEF h
<1> QED BY <1>11, <1>12, <1>13, <1>14 DEF Horner

\* Powers by repeated multiplication.
LEMMA PowerStep ==
  ASSUME NEW x \in Scalar, NEW k \in Nat
  PROVE  /\ Power(x, k) \in Scalar
         /\ Power(x, 0) = 1
         /\ Power(x, k + 1) = SMul(x, Power(x, k))
<1> DEFINE F(m) == [l \in 1 .. m |-> x]
<1>1. IsFiniteSet(1 .. k) /\ IsFiniteSet(1 .. k + 1)
  BY FS_Interval
<1>2. F(k) \in [1 .. k -> Scalar] /\ F(k + 1) \in [1 .. k + 1 -> Scalar]
  OBVIOUS
<1>3. F(0) \in [{} -> Scalar]
  <2>1. 1 .. 0 = {}
    OBVIOUS
  <2> QED BY <2>1
<1>4. [i \in (1 .. k + 1) \ {k + 1} |-> F(k + 1)[i]] = F(k)
  <2>1. (1 .. k + 1) \ {k + 1} = 1 .. k
    OBVIOUS
  <2> QED BY <2>1
<1>5. k + 1 \in 1 .. k + 1 /\ F(k + 1)[k + 1] = x
  OBVIOUS
<1> HIDE DEF F
<1>6. SProd(F(k + 1)) = SMul(F(k + 1)[k + 1], SProd([i \in (1 .. k + 1) \ {k + 1} |-> F(k + 1)[i]]))
  <2>1. \A b \in 1 .. k + 1 : SProd(F(k + 1)) =
          SMul(F(k + 1)[b], SProd([i \in (1 .. k + 1) \ {b} |-> F(k + 1)[i]]))
    BY <1>1, <1>2, SProdSteps, Zenon
  <2> QED BY <1>5, <2>1, Zenon
<1>7. SProd(F(k)) \in Scalar /\ SProd(F(0)) = 1
  BY <1>1, <1>2, <1>3, SProdType, SProdEmpty
<1> QED BY <1>4, <1>5, <1>6, <1>7 DEF Power, F

\* Elements add up as scalars do.
LEMMA SameSum == ASSUME NEW F PROVE ESum(F) = SSum(F)
BY DEF ESum, SSum, EAdd, SAdd, Identity

\* The terms of the sum that EvaluateCommitments computes.
Terms(c, x) == [j \in DOMAIN c |-> SMul(Power(x, j - 1), c[j])]

\* EvaluateCommitments is the sum of its terms.
LEMMA CommitmentTerms ==
  ASSUME NEW n \in Nat, NEW c \in [1 .. n -> Scalar], NEW x \in Scalar
  PROVE  /\ IsFiniteSet(1 .. n)
         /\ Terms(c, x) \in [1 .. n -> Scalar]
         /\ EvaluateCommitments(c, x) = SSum(Terms(c, x))
         /\ EvaluateCommitments(c, x) \in Scalar
<1>1. IsFiniteSet(1 .. n)
  BY FS_Interval
<1>2. \A j \in 1 .. n : Power(x, j - 1) \in Scalar
  BY PowerStep
<1>3. \A j \in 1 .. n : c[j] \in Int /\ Power(x, j - 1) \in Int
  BY <1>2, ScalarInt
<1>4. \A j \in 1 .. n : ScalarMult(c[j], Power(x, j - 1)) = SMul(Power(x, j - 1), c[j])
  BY DEF ScalarMult, SMul
<1>5. Terms(c, x) \in [1 .. n -> Scalar]
  BY <1>3, OpType DEF Terms
<1>6. EvaluateCommitments(c, x) = SSum(Terms(c, x))
  BY <1>4, SameSum DEF EvaluateCommitments, Terms
<1> QED BY <1>1, <1>5, <1>6, SSumType

\* Horner's method and the sum of the powers agree.
LEMMA HornerIsSum ==
  ASSUME NEW n \in Nat, NEW c \in [1 .. n -> Scalar], NEW x \in Scalar
  PROVE  Evaluate(c, x) = EvaluateCommitments(c, x)
<1> DEFINE T == Terms(c, x)
<1>1. T \in [1 .. n -> Scalar] /\ IsFiniteSet(1 .. n) /\ EvaluateCommitments(c, x) = SSum(T)
  BY CommitmentTerms
<1>2. PICK h : Horner(c, n, x, h) /\ Evaluate(c, x) = h[1]
  BY EvaluateIsHorner
<1> DEFINE Good(k) == SMul(Power(x, k - 1), h[k]) = SSum(Part(T, k .. n))
           P == {d \in Nat : d <= n => Good((n + 1) - d)}
<1>3. 0 \in P
  <2>1. h[n + 1] = 0 /\ (n + 1) .. n = {}
    BY <1>2 DEF Horner
  <2>2. SSum(Part(T, {})) = 0
    BY <1>1, PartType
  <2>3. Power(x, n) \in Scalar
    BY PowerStep
  <2>4. SMul(Power(x, n), 0) = 0
    BY <2>3, Units
  <2> QED BY <2>1, <2>2, <2>4
<1>4. ASSUME NEW d \in Nat, d \in P PROVE d + 1 \in P
  <2> SUFFICES ASSUME d + 1 <= n PROVE Good((n + 1) - (d + 1))
    OBVIOUS
  <2> DEFINE k == n - d
  <2>1. k \in 1 .. n /\ (n + 1) - (d + 1) = k /\ (n + 1) - d = k + 1 /\ k - 1 \in Nat
    OBVIOUS
  <2>2. Good(k + 1)
    BY <1>4, <2>1
  <2> HIDE DEF k
  <2>3. h[k] = SAdd(SMul(h[k + 1], x), c[k]) /\ h[k + 1] \in Int /\ c[k] \in Int /\ x \in Int
    <3>1. h[k + 1] \in Scalar /\ h[k] = SAdd(SMul(h[k + 1], x), c[k])
      BY <1>2, <2>1 DEF Horner
    <3> QED BY <2>1, <3>1, ScalarInt
  <2> DEFINE p == Power(x, k - 1)
  <2>4. p \in Int /\ Power(x, k) = SMul(x, p)
    <3>1. Power(x, k - 1) \in Scalar /\ Power(x, (k - 1) + 1) = SMul(x, p)
      BY <2>1, PowerStep
    <3>2. (k - 1) + 1 = k
      BY <2>1
    <3> QED BY <3>1, <3>2, ScalarInt
  <2>5. T[k] = SMul(p, c[k])
    BY <2>1 DEF Terms
  <2> HIDE DEF p
  <2>6. SMul(h[k + 1], x) \in Int
    BY <2>3, OpType, ScalarInt
  <2>7. SMul(p, h[k]) = SAdd(SMul(p, SMul(h[k + 1], x)), SMul(p, c[k]))
    BY <2>3, <2>4, <2>6, Distribute
  <2>8. SMul(p, SMul(h[k + 1], x)) = SMul(Power(x, k), h[k + 1])
    <3>1. SMul(h[k + 1], x) = SMul(x, h[k + 1])
      BY <2>3, Commute
    <3>2. SMul(p, SMul(x, h[k + 1])) = SMul(SMul(p, x), h[k + 1])
      BY <2>3, <2>4, MulAssoc
    <3>3. SMul(p, x) = SMul(x, p)
      BY <2>3, <2>4, Commute
    <3> QED BY <2>4, <3>1, <3>2, <3>3
  <2>9. SMul(Power(x, k), h[k + 1]) = SSum(Part(T, (k + 1) .. n))
    <3>1. (k + 1) - 1 = k
      BY <2>1
    <3> QED BY <2>2, <3>1
  <2>10. SSum(Part(T, k .. n)) = SAdd(T[k], SSum(Part(T, (k + 1) .. n)))
    <3>1. k .. n \in SUBSET (1 .. n) /\ k \in k .. n
      BY <2>1
    <3>2. (k .. n) \ {k} = (k + 1) .. n
      BY <2>1
    <3>3. SSum(Part(T, k .. n)) = SAdd(T[k], SSum(Part(T, (k .. n) \ {k})))
      BY <1>1, <3>1, PartStep
    <3> QED BY <3>2, <3>3
  <2>11. SMul(p, c[k]) \in Int /\ SSum(Part(T, (k + 1) .. n)) \in Int
    <3>1. (k + 1) .. n \in SUBSET (1 .. n)
      BY <2>1
    <3>2. SSum(Part(T, (k + 1) .. n)) \in Scalar
      BY <1>1, <3>1, PartType
    <3> QED BY <2>3, <2>4, <3>2, OpType, ScalarInt
  <2>12. SMul(p, h[k]) = SSum(Part(T, k .. n))
    BY <2>5, <2>7, <2>8, <2>9, <2>10, <2>11, Commute
  <2> QED BY <2>1, <2>12 DEF p
<1> HIDE DEF P
<1>5. \A d \in Nat : d \in P
  BY <1>3, <1>4, Induct
<1>6. Good(1)
  <2>1. (n + 1) - n = 1
    OBVIOUS
  <2> QED BY <1>5, <2>1 DEF P
<1>7. Power(x, 0) = 1 /\ h[1] \in Scalar
  BY <1>2, PowerStep DEF Horner
<1>8. SSum(Part(T, 1 .. n)) = SSum(T)
  BY <1>1, PartType
<1>9. SMul(1, h[1]) = h[1]
  BY <1>7, Units
<1> QED BY <1>1, <1>2, <1>6, <1>7, <1>8, <1>9

\* Evaluate(p, 0) is the constant term; its values are scalars.
LEMMA EvaluateAtZero ==
  ASSUME NEW n \in Nat \ {0}, NEW p \in [1 .. n -> Scalar]
  PROVE  Evaluate(p, 0) = p[1] /\ \A x \in Scalar : Evaluate(p, x) \in Scalar
<1>1. ASSUME NEW x \in Scalar PROVE Evaluate(p, x) \in Scalar
  BY HornerIsSum, CommitmentTerms
<1>2. PICK h : Horner(p, n, 0, h) /\ Evaluate(p, 0) = h[1]
  BY EvaluateIsHorner, ScalarInt
<1>3. h[1] = SAdd(SMul(h[2], 0), p[1]) /\ h[2] \in Scalar /\ p[1] \in Scalar
  BY <1>2 DEF Horner
<1> QED BY <1>1, <1>2, <1>3, Units

\* ScalarBaseMult is a one-to-one homomorphism.
LEMMA BaseMult ==
  ASSUME NEW a \in Scalar, NEW b \in Scalar
  PROVE  /\ ScalarBaseMult(a) = SMul(G, a)
         /\ ScalarBaseMult(a) \in Scalar
         /\ ScalarBaseMult(SAdd(a, b)) = SAdd(ScalarBaseMult(a), ScalarBaseMult(b))
         /\ ScalarBaseMult(a) = ScalarBaseMult(b) => a = b
         /\ ScalarBaseMult(a) = 0 <=> a = 0
<1>1. a \in Int /\ b \in Int /\ G \in Int /\ SAdd(a, b) \in Int
  BY OpType, ScalarInt
<1>2. /\ ScalarBaseMult(a) = SMul(G, a)
      /\ ScalarBaseMult(b) = SMul(G, b)
      /\ ScalarBaseMult(SAdd(a, b)) = SMul(G, SAdd(a, b))
  BY <1>1, ElementOps
<1>3. SMul(G, a) = SMul(a, G) /\ SMul(G, b) = SMul(b, G)
  BY <1>1, Commute
<1>4. SMul(G, a) = SMul(G, b) => a = b
  BY <1>3, MulCancel, ScalarInt
<1>5. SMul(G, SAdd(a, b)) = SAdd(SMul(G, a), SMul(G, b))
  BY <1>1, Distribute
<1>6. SMul(G, a) = 0 <=> a = 0
  BY Units, NoZeroDivisor, ScalarInt
<1> QED BY <1>1, <1>2, <1>4, <1>5, <1>6, OpType

\* Evaluating multiples of the coefficients.
LEMMA CommitmentScale ==
  ASSUME NEW n \in Nat, NEW c \in [1 .. n -> Scalar], NEW x \in Scalar, NEW a \in Scalar
  PROVE  EvaluateCommitments([j \in 1 .. n |-> SMul(a, c[j])], x) =
           SMul(a, EvaluateCommitments(c, x))
<1> DEFINE d == [j \in 1 .. n |-> SMul(a, c[j])]
<1>1. d \in [1 .. n -> Scalar]
  BY OpType, ScalarInt
<1>2. /\ IsFiniteSet(1 .. n)
      /\ Terms(c, x) \in [1 .. n -> Scalar]
      /\ EvaluateCommitments(c, x) = SSum(Terms(c, x))
  BY CommitmentTerms
<1>3. EvaluateCommitments(d, x) = SSum(Terms(d, x))
  BY <1>1, CommitmentTerms
<1>4. ASSUME NEW j \in 1 .. n PROVE Terms(d, x)[j] = SMul(a, Terms(c, x)[j])
  <2> DEFINE p == Power(x, j - 1)
  <2>0. p \in Scalar
    BY PowerStep
  <2>1. p \in Int /\ a \in Int /\ c[j] \in Int
    BY <2>0, ScalarInt
  <2>2. Terms(d, x)[j] = SMul(p, SMul(a, c[j])) /\ Terms(c, x)[j] = SMul(p, c[j])
    BY DEF Terms
  <2> HIDE DEF p
  <2>3. SMul(p, SMul(a, c[j])) = SMul(SMul(p, a), c[j]) /\ SMul(p, a) = SMul(a, p)
        /\ SMul(a, SMul(p, c[j])) = SMul(SMul(a, p), c[j])
    BY <2>1, MulAssoc, Commute
  <2> QED BY <2>2, <2>3
<1>5. Terms(d, x) = [j \in 1 .. n |-> SMul(a, Terms(c, x)[j])]
  <2>1. DOMAIN Terms(d, x) = 1 .. n /\ Terms(d, x) = [j \in 1 .. n |-> Terms(d, x)[j]]
    BY <1>1 DEF Terms
  <2> QED BY <1>4, <2>1
<1> HIDE DEF d
<1>6. SSum([j \in 1 .. n |-> SMul(a, Terms(c, x)[j])]) = SMul(a, SSum(Terms(c, x)))
  BY <1>2, SumScale
<1> QED BY <1>2, <1>3, <1>5, <1>6 DEF d

\* A share and the commitments of its polynomial fit: what VerifyShare checks.
LEMMA CommitmentsFit ==
  ASSUME NEW n \in Nat, NEW p \in [1 .. n -> Scalar], NEW x \in Scalar
  PROVE  /\ CreateCommitments(p) \in [1 .. n -> Scalar]
         /\ EvaluateCommitments(CreateCommitments(p), x) = ScalarBaseMult(Evaluate(p, x))
<1>1. CreateCommitments(p) = [j \in 1 .. n |-> SMul(G, p[j])]
  <2>1. DOMAIN p = 1 .. n
    OBVIOUS
  <2>2. \A j \in 1 .. n : ScalarBaseMult(p[j]) = SMul(G, p[j])
    BY BaseMult
  <2> QED BY <2>1, <2>2 DEF CreateCommitments
<1>2. EvaluateCommitments([j \in 1 .. n |-> SMul(G, p[j])], x) = SMul(G, EvaluateCommitments(p, x))
  BY CommitmentScale, ScalarInt
<1>3. EvaluateCommitments(p, x) = Evaluate(p, x) /\ Evaluate(p, x) \in Scalar
  BY HornerIsSum, CommitmentTerms
<1>4. CreateCommitments(p) \in [1 .. n -> Scalar]
  <2>1. \A j \in 1 .. n : p[j] \in Int /\ G \in Int
    BY ScalarInt
  <2> QED BY <1>1, <2>1, OpType
<1> QED BY <1>1, <1>2, <1>3, <1>4, BaseMult

\* Evaluating a sum of commitments.
LEMMA CommitmentSum ==
  ASSUME NEW n \in Nat, NEW S, IsFiniteSet(S), NEW A \in [S -> [1 .. n -> Scalar]],
         NEW x \in Scalar
  PROVE  EvaluateCommitments([k \in 1 .. n |-> SSum([j \in S |-> A[j][k]])], x) =
           SSum([j \in S |-> EvaluateCommitments(A[j], x)])
<1> DEFINE Col(k) == [j \in S |-> A[j][k]]
           c == [k \in 1 .. n |-> SSum(Col(k))]
           H == [j \in S |-> Terms(A[j], x)]
<1>1. \A k \in 1 .. n : Col(k) \in [S -> Scalar]
  OBVIOUS
<1>2. c \in [1 .. n -> Scalar]
  BY <1>1, SSumType
<1>3. IsFiniteSet(1 .. n) /\ EvaluateCommitments(c, x) = SSum(Terms(c, x))
  BY <1>2, CommitmentTerms
<1>4. H \in [S -> [1 .. n -> Scalar]]
  BY CommitmentTerms
<1>5. \A j \in S : EvaluateCommitments(A[j], x) = SSum(H[j])
  BY CommitmentTerms
<1>6. ASSUME NEW k \in 1 .. n PROVE Terms(c, x)[k] = SSum([j \in S |-> H[j][k]])
  <2>1. Power(x, k - 1) \in Scalar
    BY PowerStep
  <2>2. Terms(c, x)[k] = SMul(Power(x, k - 1), SSum(Col(k)))
    BY DEF Terms
  <2>3. SSum([j \in S |-> SMul(Power(x, k - 1), Col(k)[j])]) = SMul(Power(x, k - 1), SSum(Col(k)))
    BY <1>1, <2>1, SumScale
  <2>4. \A j \in S : H[j][k] = SMul(Power(x, k - 1), Col(k)[j])
    BY DEF Terms
  <2>5. [j \in S |-> H[j][k]] = [j \in S |-> SMul(Power(x, k - 1), Col(k)[j])]
    BY <2>4
  <2> QED BY <2>2, <2>3, <2>5
<1>7. Terms(c, x) = [k \in 1 .. n |-> SSum([j \in S |-> H[j][k]])]
  <2>1. Terms(c, x) = [k \in 1 .. n |-> Terms(c, x)[k]]
    BY DEF Terms
  <2> QED BY <1>6, <2>1
<1>8. SSum([j \in S |-> SSum(H[j])]) = SSum([k \in 1 .. n |-> SSum([j \in S |-> H[j][k]])])
  <2> HIDE DEF H
  <2> QED BY <1>3, <1>4, SumSwap
<1>9. [j \in S |-> EvaluateCommitments(A[j], x)] = [j \in S |-> SSum(H[j])]
  BY <1>5
<1> QED BY <1>3, <1>7, <1>8, <1>9

\* The same of all families of commitments over one set.
LEMMA CommitmentSums ==
  ASSUME NEW n \in Nat, NEW S, IsFiniteSet(S)
  PROVE  \A A \in [S -> [1 .. n -> Scalar]] : \A x \in Scalar :
           EvaluateCommitments([k \in 1 .. n |-> SSum([j \in S |-> A[j][k]])], x) =
             SSum([j \in S |-> EvaluateCommitments(A[j], x)])
BY CommitmentSum, Zenon

-----------------------------------------------------------------------------
(* Interpolation.                                                          *)

\* lam[S][i] is a Lagrange coefficient for the point x: it changes in the
\* right way when a node is left out.
IsLagrange(X, x, lam) ==
  /\ lam \in [SUBSET X -> [X -> Scalar]]
  /\ \A S \in SUBSET X : \A a \in S : \A i \in S \ {a} :
       SMul(SSub(i, a), lam[S][i]) = SMul(SSub(x, a), lam[S \ {a}][i])
  /\ \A a \in X : lam[{a}][a] = 1

Weighted(lam, S, f) == SSum([i \in S |-> SMul(lam[S][i], f[i])])

\* A weighted sum is a scalar.
LEMMA WeightedType ==
  ASSUME NEW X \in SUBSET Scalar, IsFiniteSet(X), NEW x \in Scalar, NEW lam,
         IsLagrange(X, x, lam), NEW S \in SUBSET X, NEW f \in [X -> Scalar]
  PROVE  /\ IsFiniteSet(S)
         /\ [i \in S |-> SMul(lam[S][i], f[i])] \in [S -> Scalar]
         /\ Weighted(lam, S, f) \in Scalar
<1>1. IsFiniteSet(S)
  BY FS_Subset
<1>2. \A i \in S : lam[S][i] \in Int /\ f[i] \in Int
  <2>1. \A i \in S : lam[S][i] \in Scalar /\ f[i] \in Scalar
    BY DEF IsLagrange
  <2> QED BY <2>1, ScalarInt
<1>3. [i \in S |-> SMul(lam[S][i], f[i])] \in [S -> Scalar]
  BY <1>2, OpType
<1> QED BY <1>1, <1>3, SSumType DEF Weighted

\* Weighted sums add up.
LEMMA WeightedAdd ==
  ASSUME NEW X \in SUBSET Scalar, IsFiniteSet(X), NEW x \in Scalar, NEW lam,
         IsLagrange(X, x, lam), NEW S \in SUBSET X,
         NEW f \in [X -> Scalar], NEW g \in [X -> Scalar]
  PROVE  Weighted(lam, S, [i \in X |-> SAdd(f[i], g[i])]) =
           SAdd(Weighted(lam, S, f), Weighted(lam, S, g))
<1> DEFINE F == [i \in S |-> SMul(lam[S][i], f[i])]
           H == [i \in S |-> SMul(lam[S][i], g[i])]
<1>1. IsFiniteSet(S) /\ F \in [S -> Scalar] /\ H \in [S -> Scalar]
  BY WeightedType
<1>2. \A i \in S : lam[S][i] \in Int /\ f[i] \in Int /\ g[i] \in Int
  <2>1. \A i \in S : lam[S][i] \in Scalar /\ f[i] \in Scalar /\ g[i] \in Scalar
    BY DEF IsLagrange
  <2> QED BY <2>1, ScalarInt
<1>3. \A i \in S : SMul(lam[S][i], SAdd(f[i], g[i])) = SAdd(F[i], H[i])
  BY <1>2, Distribute
<1>4. [i \in S |-> SMul(lam[S][i], [j \in X |-> SAdd(f[j], g[j])][i])] = [i \in S |-> SAdd(F[i], H[i])]
  BY <1>3
<1> HIDE DEF F, H
<1>5. SSum([i \in S |-> SAdd(F[i], H[i])]) = SAdd(SSum(F), SSum(H))
  BY <1>1, SumAdd
<1> QED BY <1>4, <1>5 DEF Weighted, F, H

\* A common factor may be taken out of a weighted sum.
LEMMA WeightedScale ==
  ASSUME NEW X \in SUBSET Scalar, IsFiniteSet(X), NEW x \in Scalar, NEW lam,
         IsLagrange(X, x, lam), NEW S \in SUBSET X,
         NEW f \in [X -> Scalar], NEW c \in Scalar
  PROVE  Weighted(lam, S, [i \in X |-> SMul(c, f[i])]) = SMul(c, Weighted(lam, S, f))
<1> DEFINE F == [i \in S |-> SMul(lam[S][i], f[i])]
<1>1. IsFiniteSet(S) /\ F \in [S -> Scalar]
  BY WeightedType
<1>2. \A i \in S : lam[S][i] \in Int /\ f[i] \in Int /\ c \in Int
  <2>1. \A i \in S : lam[S][i] \in Scalar /\ f[i] \in Scalar /\ c \in Scalar
    BY DEF IsLagrange
  <2> QED BY <2>1, ScalarInt
<1>3. \A i \in S : SMul(lam[S][i], SMul(c, f[i])) = SMul(c, F[i])
  BY <1>2, MulAssoc, Commute
<1>4. [i \in S |-> SMul(lam[S][i], [j \in X |-> SMul(c, f[j])][i])] = [i \in S |-> SMul(c, F[i])]
  BY <1>3
<1> HIDE DEF F
<1>5. SSum([i \in S |-> SMul(c, F[i])]) = SMul(c, SSum(F))
  BY <1>1, SumScale
<1> QED BY <1>4, <1>5 DEF Weighted, F

\* A factor that vanishes at a node takes the node out.
LEMMA WeightedShift ==
  ASSUME NEW X \in SUBSET Scalar, IsFiniteSet(X), NEW x \in Scalar, NEW lam,
         IsLagrange(X, x, lam), NEW S \in SUBSET X, NEW a \in S,
         NEW f \in [X -> Scalar]
  PROVE  Weighted(lam, S, [i \in X |-> SMul(SSub(i, a), f[i])]) =
           SMul(SSub(x, a), Weighted(lam, S \ {a}, f))
<1> DEFINE g == [i \in X |-> SMul(SSub(i, a), f[i])]
           K == [i \in S |-> SMul(lam[S][i], g[i])]
           R == S \ {a}
           F == [i \in R |-> SMul(lam[R][i], f[i])]
           w == SSub(x, a)
<1>0. \A i \in X : i \in Int /\ SSub(i, a) \in Scalar /\ SSub(i, a) \in Int /\ f[i] \in Int
  <2>1. \A i \in X : i \in Int /\ a \in Int /\ f[i] \in Int
    BY ScalarInt
  <2> QED BY <2>1, OpType, ScalarInt
<1>1. g \in [X -> Scalar]
  BY <1>0, OpType
<1>2. IsFiniteSet(S) /\ K \in [S -> Scalar]
  BY <1>1, WeightedType
<1>3. IsFiniteSet(R) /\ F \in [R -> Scalar]
  BY WeightedType
<1>4. w \in Scalar /\ w \in Int
  BY OpType, ScalarInt
<1>5. lam[S][a] \in Scalar /\ f[a] \in Scalar
  BY DEF IsLagrange
<1>6. K[a] = 0
  <2>1. SSub(a, a) = 0 /\ SMul(0, f[a]) = 0 /\ SMul(lam[S][a], 0) = 0
    BY <1>5, Units
  <2> QED BY <2>1
<1>7. ASSUME NEW i \in R PROVE K[i] = SMul(w, F[i])
  <2> DEFINE l == lam[S][i]
             m == lam[R][i]
             v == SSub(i, a)
  <2>0. l \in Scalar /\ m \in Scalar
    BY DEF IsLagrange
  <2>1. l \in Int /\ m \in Int /\ v \in Int /\ f[i] \in Int
    BY <1>0, <2>0, ScalarInt
  <2>2. SMul(v, l) = SMul(w, m)
    BY DEF IsLagrange
  <2>3. K[i] = SMul(l, SMul(v, f[i])) /\ F[i] = SMul(m, f[i])
    OBVIOUS
  <2> HIDE DEF K, F, l, m, v, w
  <2>4. SMul(l, SMul(v, f[i])) = SMul(SMul(l, v), f[i])
    BY <2>1, MulAssoc
  <2>5. SMul(l, v) = SMul(v, l)
    BY <2>1, Commute
  <2>6. SMul(w, SMul(m, f[i])) = SMul(SMul(w, m), f[i])
    BY <1>4, <2>1, MulAssoc
  <2> QED BY <2>2, <2>3, <2>4, <2>5, <2>6
<1>8. [i \in S \ {a} |-> K[i]] = [i \in R |-> SMul(w, F[i])]
  BY <1>7
<1>9. Weighted(lam, S, g) = SSum(K) /\ Weighted(lam, R, f) = SSum(F)
  BY DEF Weighted
<1> HIDE DEF K, F, g, R, w
<1>10. SSum(K) = SAdd(K[a], SSum([i \in S \ {a} |-> K[i]]))
  BY <1>2, SSumStep
<1>11. SSum([i \in R |-> SMul(w, F[i])]) = SMul(w, SSum(F))
  BY <1>3, <1>4, SumScale
<1>12. SMul(w, SSum(F)) \in Scalar
  <2>1. SSum(F) \in Scalar
    BY <1>3, SSumType
  <2> QED BY <1>4, <2>1, OpType, ScalarInt
<1> QED BY <1>6, <1>8, <1>9, <1>10, <1>11, <1>12, Units DEF R, g, w

\* The coefficients add up to 1.
LEMMA WeightedOne ==
  ASSUME NEW X \in SUBSET Scalar, IsFiniteSet(X), NEW x \in Scalar, NEW lam,
         IsLagrange(X, x, lam)
  PROVE  \A S \in SUBSET X : S # {} => Weighted(lam, S, [i \in X |-> 1]) = 1
<1> DEFINE one == [i \in X |-> 1]
           P == {S \in SUBSET X : S # {} => Weighted(lam, S, one) = 1}
<1>0. one \in [X -> Scalar]
  BY ScalarInt
<1>1. ASSUME NEW S \in SUBSET X, \A a \in S : S \ {a} \in P PROVE S \in P
  <2> SUFFICES ASSUME S # {} PROVE Weighted(lam, S, one) = 1
    OBVIOUS
  <2>1. PICK a \in S : TRUE
    OBVIOUS
  <2>2. CASE S = {a}
    <3> DEFINE K == [i \in S |-> SMul(lam[S][i], one[i])]
    <3>1. IsFiniteSet(S) /\ K \in [S -> Scalar]
      BY <1>0, WeightedType
    <3>2. K[a] = 1
      <4>1. lam[S][a] = 1 /\ one[a] = 1
        BY <2>2 DEF IsLagrange
      <4> QED BY <2>1, <4>1, Units, ScalarInt
    <3> DEFINE L == [i \in S \ {a} |-> K[i]]
    <3>3. L \in [{} -> Scalar]
      BY <2>2
    <3>4. SSum(L) = 0
      BY <3>3, SSumEmpty
    <3>5. Weighted(lam, S, one) = SSum(K)
      BY DEF Weighted
    <3> HIDE DEF K
    <3>6. SSum(K) = SAdd(K[a], SSum(L))
      BY <3>1, SSumStep
    <3> QED BY <3>2, <3>4, <3>5, <3>6, Units, ScalarInt
  <2>3. CASE S # {a}
    <3>1. PICK b \in S : b # a
      BY <2>1, <2>3
    <3>2. Weighted(lam, S \ {a}, one) = 1 /\ Weighted(lam, S \ {b}, one) = 1
      BY <1>1, <3>1
    <3> DEFINE ga == [i \in X |-> SMul(SSub(i, a), one[i])]
               gb == [i \in X |-> SMul(SSub(i, b), one[i])]
               c == SSub(b, a)
               gc == [i \in X |-> SMul(c, one[i])]
    <3>3. Weighted(lam, S, ga) = SMul(SSub(x, a), Weighted(lam, S \ {a}, one))
      BY <1>0, WeightedShift
    <3>4. Weighted(lam, S, gb) = SMul(SSub(x, b), Weighted(lam, S \ {b}, one))
      BY <1>0, WeightedShift
    <3>a. a \in Scalar /\ b \in Scalar /\ X \subseteq Scalar
      OBVIOUS
    <3>5. \A i \in Scalar : SSub(i, a) \in Scalar /\ SSub(i, b) \in Scalar /\ SSub(b, a) \in Scalar
      <4>1. \A i \in Scalar : i \in Int /\ a \in Int /\ b \in Int
        BY <3>a, ScalarInt
      <4> QED BY <4>1, OpType
    <3>6. SSub(x, a) \in Scalar /\ SSub(x, b) \in Scalar /\ c \in Scalar
      BY <3>5, <3>a
    <3>7. Weighted(lam, S, ga) = SSub(x, a) /\ Weighted(lam, S, gb) = SSub(x, b)
      BY <3>2, <3>3, <3>4, <3>6, Units
    <3>8. \A i \in Scalar : SSub(i, a) = SAdd(SSub(i, b), c)
      <4> SUFFICES ASSUME NEW i \in Scalar PROVE SSub(i, a) = SAdd(SSub(i, b), c)
        OBVIOUS
      <4>1. SAdd(SSub(i, b), b) = i /\ SAdd(SSub(b, a), a) = b /\ SAdd(SSub(i, a), a) = i
        BY <3>a, SubAdd
      <4>2. SSub(i, b) \in Int /\ SSub(b, a) \in Int /\ a \in Int
        BY <3>5, <3>a, ScalarInt
      <4>3. SAdd(SAdd(SSub(i, b), SSub(b, a)), a) = SAdd(SSub(i, b), SAdd(SSub(b, a), a))
        BY <4>2, AddAssoc
      <4>4. SAdd(SSub(i, b), SSub(b, a)) \in Scalar /\ SSub(i, a) \in Scalar
        BY <3>5, <4>2, OpType
      <4> QED BY <3>a, <4>1, <4>3, <4>4, AddCancel
    <3>9. ga \in [X -> Scalar] /\ gb \in [X -> Scalar] /\ gc \in [X -> Scalar]
      <4>1. \A i \in X : SMul(SSub(i, a), 1) \in Scalar /\ SMul(SSub(i, b), 1) \in Scalar
                         /\ SMul(c, 1) \in Scalar
        BY <3>5, <3>6, OpType, ScalarInt
      <4> QED BY <4>1
    <3>10. ga = [i \in X |-> SAdd(gb[i], gc[i])]
      <4>1. ASSUME NEW i \in X PROVE ga[i] = SAdd(gb[i], gc[i])
        <5>1. SSub(i, a) \in Scalar /\ SSub(i, b) \in Scalar
          BY <3>5
        <5>2. ga[i] = SSub(i, a) /\ gb[i] = SSub(i, b) /\ gc[i] = c
          BY <3>6, <5>1, Units
        <5> QED BY <3>8, <5>2
      <4> HIDE DEF gb, gc
      <4> QED BY <4>1
    <3>11. Weighted(lam, S, gc) = SMul(c, Weighted(lam, S, one))
      BY <1>0, <3>6, WeightedScale
    <3> HIDE DEF ga, gb, gc, c, one
    <3>12. Weighted(lam, S, ga) = SAdd(Weighted(lam, S, gb), Weighted(lam, S, gc))
      BY <3>9, <3>10, WeightedAdd
    <3>13. SAdd(SSub(x, b), SMul(c, Weighted(lam, S, one))) = SAdd(SSub(x, b), c)
      BY <3>7, <3>8, <3>11, <3>12
    <3> DEFINE W == Weighted(lam, S, one)
    <3>14. W \in Scalar
      BY <1>0, WeightedType
    <3> HIDE DEF W
    <3>15. SMul(c, W) \in Scalar
      BY <3>6, <3>14, OpType, ScalarInt
    <3>16. SMul(c, W) = c
      <4>1. SAdd(SMul(c, W), SSub(x, b)) = SAdd(c, SSub(x, b))
        BY <3>6, <3>13, <3>15, Commute, ScalarInt DEF W
      <4> QED BY <3>6, <3>15, <4>1, AddCancel
    <3>17. c # 0
      BY <3>1, <3>a, SubZero DEF c
    <3>18. SMul(W, c) = SMul(1, c)
      <4>1. SMul(W, c) = SMul(c, W)
        BY <3>6, <3>14, Commute, ScalarInt
      <4> QED BY <3>6, <3>16, <4>1, Units
    <3>19. W = 1
      BY <3>6, <3>14, <3>17, <3>18, MulCancel, ScalarInt
    <3> QED BY <3>19 DEF W
  <2> QED BY <2>2, <2>3
<1> HIDE DEF P
<1>2. \A S \in SUBSET X : S \in P
  BY <1>1, InductSet
<1> QED BY <1>2 DEF P

\* As many nodes as coefficients determine the value at x.
LEMMA Interpolation ==
  ASSUME NEW X \in SUBSET Scalar, IsFiniteSet(X), NEW x \in Scalar, NEW lam,
         IsLagrange(X, x, lam),
         NEW n \in Nat, NEW p \in [1 .. n -> Scalar],
         NEW S \in SUBSET X, Cardinality(S) >= n
  PROVE  Weighted(lam, S, [i \in X |-> Evaluate(p, i)]) = Evaluate(p, x)
<1> DEFINE H == [y \in Scalar |-> CHOOSE h : Horner(p, n, y, h) /\ Evaluate(p, y) = h[1]]
<1>1. \A y \in Scalar : Horner(p, n, y, H[y]) /\ Evaluate(p, y) = H[y][1]
  <2> SUFFICES ASSUME NEW y \in Scalar
               PROVE  Horner(p, n, y, H[y]) /\ Evaluate(p, y) = H[y][1]
    OBVIOUS
  <2>1. \E h : Horner(p, n, y, h) /\ Evaluate(p, y) = h[1]
    BY EvaluateIsHorner
  <2> QED BY <2>1
<1> HIDE DEF H
<1> DEFINE f(k) == [i \in X |-> H[i][k]]
           one == [i \in X |-> 1]
           Good(k, T) == Weighted(lam, T, f(k)) = H[x][k]
           P == {d \in Nat : d <= n =>
                   \A T \in SUBSET X : Cardinality(T) >= d => Good((n + 1) - d, T)}
<1>2. \A k \in 1 .. n + 1 : f(k) \in [X -> Scalar] /\ H[x][k] \in Scalar
  BY <1>1 DEF Horner
<1>3. one \in [X -> Scalar]
  BY ScalarInt
<1>4. \A T \in SUBSET X : IsFiniteSet(T) /\ Cardinality(T) \in Nat
  BY FS_Subset, FS_CardinalityType
<1>5. 0 \in P
  <2> SUFFICES ASSUME NEW T \in SUBSET X PROVE Good(n + 1, T)
    OBVIOUS
  <2>1. H[x][n + 1] = 0 /\ \A i \in X : H[i][n + 1] = 0
    BY <1>1 DEF Horner
  <2>2. \A i \in T : lam[T][i] \in Scalar
    BY DEF IsLagrange
  <2>3. \A i \in T : SMul(lam[T][i], f(n + 1)[i]) = 0
    BY <2>1, <2>2, Units
  <2>4. [i \in T |-> SMul(lam[T][i], f(n + 1)[i])] = [i \in T |-> 0]
    BY <2>3
  <2> QED BY <1>4, <2>1, <2>4, SumZero DEF Weighted
<1>6. ASSUME NEW d \in Nat, d \in P PROVE d + 1 \in P
  <2> SUFFICES ASSUME d + 1 <= n, NEW T \in SUBSET X, Cardinality(T) >= d + 1
               PROVE  Good((n + 1) - (d + 1), T)
    <3> HIDE DEF Good
    <3> QED OBVIOUS
  <2> DEFINE k == n - d
  <2>1. k \in 1 .. n /\ (n + 1) - (d + 1) = k /\ (n + 1) - d = k + 1 /\ k + 1 \in 1 .. n + 1
        /\ k \in 1 .. n + 1
    OBVIOUS
  <2>2. PICK a \in T : TRUE
    <3>1. T # {}
      BY <1>4, FS_EmptySet
    <3> QED BY <3>1
  <2>3. Cardinality(T \ {a}) = Cardinality(T) - 1
    BY <1>4, FS_RemoveElement
  <2>4. Good(k + 1, T) /\ Good(k + 1, T \ {a})
    <3>1. Cardinality(T) >= d /\ Cardinality(T \ {a}) >= d /\ T \ {a} \in SUBSET X
      BY <1>4, <2>3
    <3> QED BY <1>6, <2>1, <3>1
  <2> HIDE DEF k
  <2> DEFINE v == H[x][k + 1]
             g == f(k + 1)
             ga == [i \in X |-> SMul(SSub(i, a), g[i])]
             gb == [i \in X |-> SMul(a, g[i])]
             gi == [i \in X |-> SAdd(ga[i], gb[i])]
             gc == [i \in X |-> SMul(p[k], one[i])]
             w == SSub(x, a)
  <2>5. g \in [X -> Scalar] /\ v \in Scalar /\ a \in Scalar /\ w \in Scalar /\ p[k] \in Scalar
    BY <1>2, <2>1, OpType, ScalarInt
  <2>6. \A i \in X : i \in Scalar /\ SSub(i, a) \in Scalar /\ g[i] \in Scalar
    <3>1. \A i \in X : i \in Int /\ a \in Int
      BY ScalarInt
    <3> QED BY <2>5, <3>1, OpType
  <2>7. ga \in [X -> Scalar] /\ gb \in [X -> Scalar]
    BY <2>5, <2>6, OpType, ScalarInt
  <2>8. gi \in [X -> Scalar] /\ gc \in [X -> Scalar]
    <3>1. \A i \in X : ga[i] \in Int /\ gb[i] \in Int /\ p[k] \in Int /\ one[i] \in Int
      BY <1>3, <2>5, <2>7, ScalarInt
    <3> HIDE DEF ga, gb, one
    <3> QED BY <3>1, OpType
  <2>9. ASSUME NEW i \in X PROVE f(k)[i] = SAdd(gi[i], gc[i])
    <3>1. H[i][k] = SAdd(SMul(H[i][k + 1], i), p[k])
      BY <1>1, <2>1 DEF Horner
    <3>2. gc[i] = p[k]
      BY <2>5, Units
    <3>3. SMul(SSub(i, a), g[i]) \in Int /\ SSub(i, a) \in Int /\ a \in Int /\ g[i] \in Int /\ i \in Int
      BY <2>5, <2>6, <2>7, ScalarInt
    <3>4. SMul(SAdd(SSub(i, a), a), g[i]) = SAdd(SMul(SSub(i, a), g[i]), SMul(a, g[i]))
      BY <3>3, Distribute
    <3>5. SAdd(SSub(i, a), a) = i
      BY <2>5, <2>6, SubAdd
    <3>6. SMul(i, g[i]) = SMul(g[i], i)
      BY <3>3, Commute
    <3>7. gi[i] = SMul(g[i], i)
      BY <3>4, <3>5, <3>6
    <3> QED BY <3>1, <3>2, <3>7
  <2>10. f(k) = [i \in X |-> SAdd(gi[i], gc[i])]
    <3> HIDE DEF gi, gc
    <3>1. f(k) = [i \in X |-> f(k)[i]]
      OBVIOUS
    <3> HIDE DEF f
    <3> QED BY <2>9, <3>1
  <2>11. Weighted(lam, T, ga) = SMul(w, Weighted(lam, T \ {a}, g))
    <3> HIDE DEF g
    <3> QED BY <2>5, WeightedShift
  <2>12. Weighted(lam, T, gb) = SMul(a, Weighted(lam, T, g))
    <3> HIDE DEF g
    <3> QED BY <2>5, WeightedScale
  <2>13. Weighted(lam, T, gc) = SMul(p[k], Weighted(lam, T, one))
    <3> HIDE DEF one
    <3> QED BY <1>3, <2>5, WeightedScale
  <2>14. Weighted(lam, T, one) = 1
    BY <2>2, WeightedOne
  <2> HIDE DEF ga, gb, gc, one
  <2>15. Weighted(lam, T, gi) = SAdd(Weighted(lam, T, ga), Weighted(lam, T, gb))
    BY <2>7, WeightedAdd
  <2> HIDE DEF gi
  <2>16. Weighted(lam, T, f(k)) = SAdd(Weighted(lam, T, gi), Weighted(lam, T, gc))
    BY <2>8, <2>10, WeightedAdd
  <2>17. Weighted(lam, T, g) = v /\ Weighted(lam, T \ {a}, g) = v
    BY <2>4
  <2>18. H[x][k] = SAdd(SMul(v, x), p[k])
    BY <1>1, <2>1 DEF Horner
  <2> HIDE DEF v, w, g, f
  <2>19. SAdd(SMul(w, v), SMul(a, v)) = SMul(v, x)
    <3>1. w \in Int /\ a \in Int /\ v \in Int /\ x \in Int
      BY <2>5, ScalarInt
    <3>2. SMul(SAdd(w, a), v) = SAdd(SMul(w, v), SMul(a, v))
      BY <3>1, Distribute
    <3>3. SAdd(w, a) = x
      BY <2>5, SubAdd DEF w
    <3> QED BY <3>1, <3>2, <3>3, Commute
  <2>20. SMul(p[k], 1) = p[k]
    BY <2>5, Units
  <2>21. Weighted(lam, T, f(k)) = SAdd(SMul(v, x), p[k])
    BY <2>11, <2>12, <2>13, <2>14, <2>15, <2>16, <2>17, <2>19, <2>20
  <2> QED BY <2>1, <2>18, <2>21
<1> HIDE DEF P
<1>7. \A d \in Nat : d \in P
  BY <1>5, <1>6, Induct
<1>8. Good(1, S)
  <2>1. (n + 1) - n = 1
    OBVIOUS
  <2> QED BY <1>7, <2>1 DEF P
<1>9. f(1) = [i \in X |-> Evaluate(p, i)]
  BY <1>1
<1> QED BY <1>1, <1>8, <1>9

\* Four factors in another order.
LEMMA MulFour ==
  ASSUME NEW a \in Scalar, NEW b \in Scalar, NEW c \in Scalar, NEW d \in Scalar
  PROVE  SMul(SMul(a, b), SMul(c, d)) = SMul(SMul(a, c), SMul(b, d))
<1>1. a \in Int /\ b \in Int /\ c \in Int /\ d \in Int
  BY ScalarInt
<1>2. SMul(c, d) \in Int /\ SMul(b, d) \in Int
  BY <1>1, OpType, ScalarInt
<1>3. SMul(SMul(a, b), SMul(c, d)) = SMul(a, SMul(b, SMul(c, d)))
  BY <1>1, <1>2, MulAssoc
<1>4. SMul(b, SMul(c, d)) = SMul(SMul(b, c), d)
  BY <1>1, MulAssoc
<1>5. SMul(b, c) = SMul(c, b)
  BY <1>1, Commute
<1>6. SMul(SMul(c, b), d) = SMul(c, SMul(b, d))
  BY <1>1, MulAssoc
<1>7. SMul(a, SMul(c, SMul(b, d))) = SMul(SMul(a, c), SMul(b, d))
  BY <1>1, <1>2, MulAssoc
<1> QED BY <1>3, <1>4, <1>5, <1>6, <1>7

\* A fraction extended by w / v, times v.
LEMMA Fraction ==
  ASSUME NEW v \in Scalar, v # 0, NEW w \in Scalar, NEW a \in Scalar,
         NEW b \in Scalar, b # 0
  PROVE  /\ SMul(a, SInv(b)) \in Scalar
         /\ SMul(v, SMul(SMul(w, a), SInv(SMul(v, b)))) = SMul(w, SMul(a, SInv(b)))
<1> DEFINE c == SMul(v, b)
           i == SInv(b)
           k == SInv(c)
<1>1. c \in Scalar /\ c # 0
  BY NoZeroDivisor, OpType, ScalarInt
<1>2. i \in Scalar /\ SMul(b, i) = 1
  BY Inverse1
<1>3. k \in Scalar /\ SMul(c, k) = 1
  BY <1>1, Inverse1
<1>4. SMul(w, a) \in Scalar /\ SMul(v, k) \in Scalar /\ SMul(a, i) \in Scalar
  BY <1>2, <1>3, OpType, ScalarInt
<1> HIDE DEF i, k
<1>5. SMul(v, k) = i
  <2>1. SMul(SMul(v, k), b) = SMul(SMul(v, b), k)
    <3>1. SMul(SMul(v, k), b) = SMul(v, SMul(k, b)) /\ SMul(k, b) = SMul(b, k)
          /\ SMul(v, SMul(b, k)) = SMul(SMul(v, b), k)
      BY <1>3, MulAssoc, Commute, ScalarInt
    <3> QED BY <3>1
  <2>2. SMul(i, b) = 1
    BY <1>2, Commute, ScalarInt
  <2> QED BY <1>2, <1>3, <1>4, <2>1, <2>2, MulCancel
<1>6. SMul(v, SMul(SMul(w, a), k)) = SMul(SMul(w, a), SMul(v, k))
  <2>1. v \in Int /\ SMul(w, a) \in Int /\ k \in Int
    BY <1>3, <1>4, ScalarInt
  <2>2. SMul(v, SMul(SMul(w, a), k)) = SMul(SMul(v, SMul(w, a)), k)
        /\ SMul(v, SMul(w, a)) = SMul(SMul(w, a), v)
        /\ SMul(SMul(w, a), SMul(v, k)) = SMul(SMul(SMul(w, a), v), k)
    BY <2>1, MulAssoc, Commute
  <2> QED BY <2>2
<1>7. SMul(SMul(w, a), i) = SMul(w, SMul(a, i))
  BY <1>2, MulAssoc, ScalarInt
<1> QED BY <1>4, <1>5, <1>6, <1>7 DEF i, k

\* DeriveInterpolatingValue is the Lagrange coefficient at 0.
Derived(X) == [S \in SUBSET X |-> [i \in X |-> DeriveInterpolatingValue(S, i)]]

\* DeriveInterpolatingValue divides by a scalar other than zero.
LEMMA DerivedType ==
  ASSUME NEW S \in SUBSET Scalar, IsFiniteSet(S), NEW i \in Scalar
  PROVE  /\ SProd([xj \in S \ {i} |-> xj]) \in Scalar
         /\ SProd([xj \in S \ {i} |-> SSub(xj, i)]) \in Scalar
         /\ SProd([xj \in S \ {i} |-> SSub(xj, i)]) # 0
         /\ DeriveInterpolatingValue(S, i) \in Scalar
<1> DEFINE R == S \ {i}
           F == [xj \in R |-> xj]
           H == [xj \in R |-> SSub(xj, i)]
<1>1. IsFiniteSet(R) /\ F \in [R -> Scalar]
  BY FS_Subset
<1>2. \A xj \in R : xj \in Int /\ i \in Int /\ xj \in Scalar /\ xj # i
  BY ScalarInt
<1>3. \A xj \in R : SSub(xj, i) \in Scalar /\ SSub(xj, i) # 0
  BY <1>2, OpType, SubZero
<1>4. H \in [R -> Scalar] /\ \A xj \in R : H[xj] # 0
  BY <1>3
<1> HIDE DEF F, H, R
<1>5. SProd(F) \in Scalar /\ SProd(H) \in Scalar /\ SProd(H) # 0
  BY <1>1, <1>4, SProdType, ProdNonzero
<1>6. SMul(SProd(F), SInv(SProd(H))) \in Scalar
  BY <1>5, Inverse1, OpType, ScalarInt
<1> QED BY <1>5, <1>6 DEF DeriveInterpolatingValue, F, H, R

\* DeriveInterpolatingValue computes Lagrange's coefficients at 0.
LEMMA DerivedIsLagrange ==
  ASSUME NEW X \in SUBSET (Scalar \ {0}), IsFiniteSet(X)
  PROVE  IsLagrange(X, 0, Derived(X))
<1>0. \A S \in SUBSET X : IsFiniteSet(S) /\ S \in SUBSET Scalar
  BY FS_Subset
<1>1. Derived(X) \in [SUBSET X -> [X -> Scalar]]
  BY <1>0, DerivedType DEF Derived
<1>2. ASSUME NEW S \in SUBSET X, NEW a \in S, NEW i \in S \ {a}
      PROVE  SMul(SSub(i, a), DeriveInterpolatingValue(S, i)) =
               SMul(SSub(0, a), DeriveInterpolatingValue(S \ {a}, i))
  <2> DEFINE R == S \ {i}
             T == (S \ {a}) \ {i}
             F == [xj \in R |-> xj]
             H == [xj \in R |-> SSub(xj, i)]
             n == SProd([xj \in T |-> xj])
             m == SProd([xj \in T |-> SSub(xj, i)])
             u == SSub(a, i)
             D == DeriveInterpolatingValue(S \ {a}, i)
  <2>1. a \in Scalar /\ i \in Scalar /\ a # i /\ a \in R /\ R \ {a} = T
    OBVIOUS
  <2>2. u \in Scalar /\ u # 0
    BY <2>1, OpType, SubZero, ScalarInt
  <2>3. IsFiniteSet(R) /\ F \in [R -> Scalar] /\ H \in [R -> Scalar]
    <3>1. \A xj \in R : xj \in Int /\ i \in Int
      BY ScalarInt
    <3> QED BY <1>0, <3>1, OpType, FS_Subset
  <2>4. n \in Scalar /\ m \in Scalar /\ m # 0 /\ D \in Scalar
    <3>1. S \ {a} \in SUBSET Scalar /\ IsFiniteSet(S \ {a})
      BY <1>0
    <3> QED BY <2>1, <3>1, DerivedType
  <2>5. SProd(F) = SMul(a, n)
    <3>1. [j \in R \ {a} |-> F[j]] = [xj \in T |-> xj] /\ F[a] = a
      BY <2>1
    <3> HIDE DEF F
    <3>2. SProd(F) = SMul(F[a], SProd([j \in R \ {a} |-> F[j]]))
      BY <2>1, <2>3, SProdStep
    <3> QED BY <3>1, <3>2
  <2>6. SProd(H) = SMul(u, m)
    <3>1. [j \in R \ {a} |-> H[j]] = [xj \in T |-> SSub(xj, i)] /\ H[a] = u
      BY <2>1
    <3> HIDE DEF H
    <3>2. SProd(H) = SMul(H[a], SProd([j \in R \ {a} |-> H[j]]))
      BY <2>1, <2>3, SProdStep
    <3> QED BY <3>1, <3>2
  <2>7. DeriveInterpolatingValue(S, i) = SMul(SMul(a, n), SInv(SMul(u, m)))
    BY <2>5, <2>6 DEF DeriveInterpolatingValue
  <2>8. D = SMul(n, SInv(m))
    BY DEF DeriveInterpolatingValue
  <2> DEFINE E == DeriveInterpolatingValue(S, i)
  <2> HIDE DEF n, m, u, D, E
  <2>9. SMul(u, E) = SMul(a, D)
    BY <2>1, <2>2, <2>4, <2>7, <2>8, Fraction DEF E
  <2>10. E \in Scalar
    BY <1>0, <2>1, DerivedType DEF E
  <2>11. SSub(i, a) = SSub(0, u)
    <3>1. SSub(i, a) \in Scalar /\ SSub(i, a) \in Int /\ i \in Int /\ a \in Int /\ u \in Int
      BY <2>1, <2>2, OpType, ScalarInt
    <3>2. SAdd(SSub(i, a), u) = 0
      <4>1. SAdd(SSub(i, a), u) \in Scalar
        BY <3>1, OpType
      <4>2. SAdd(SAdd(SSub(i, a), u), i) = SAdd(SSub(i, a), SAdd(u, i))
        BY <3>1, AddAssoc
      <4>3. SAdd(u, i) = a /\ SAdd(SSub(i, a), a) = i /\ SAdd(0, i) = i
        BY <2>1, SubAdd, Units DEF u
      <4>4. SAdd(SAdd(SSub(i, a), u), i) = SAdd(0, i) /\ 0 \in Scalar
        BY <4>2, <4>3, ScalarInt
      <4> DEFINE y == SAdd(SSub(i, a), u)
      <4> HIDE DEF y
      <4> QED BY <2>1, <4>1, <4>4, AddCancel DEF y
    <3>3. SSub(SAdd(SSub(i, a), u), u) = SSub(i, a)
      BY <2>2, <3>1, SubAdd
    <3> QED BY <3>2, <3>3
  <2>12. SMul(SSub(0, u), E) = SSub(0, SMul(u, E))
    BY <2>2, <2>10, MulSub, Units, ScalarInt
  <2>13. SMul(SSub(0, a), D) = SSub(0, SMul(a, D))
    BY <2>1, <2>4, MulSub, Units, ScalarInt
  <2> QED BY <2>9, <2>11, <2>12, <2>13 DEF D, E
<1>3. \A S \in SUBSET X : \A a \in S : \A i \in S \ {a} :
        SMul(SSub(i, a), Derived(X)[S][i]) = SMul(SSub(0, a), Derived(X)[S \ {a}][i])
  BY <1>2 DEF Derived
<1>4. ASSUME NEW a \in X PROVE Derived(X)[{a}][a] = 1
  <2>1. {a} \ {a} = {}
    OBVIOUS
  <2>2. SProd([xj \in {} |-> xj]) = 1 /\ SProd([xj \in {} |-> SSub(xj, a)]) = 1
    BY SProdEmpty
  <2>3. DeriveInterpolatingValue({a}, a) = SMul(1, SInv(1))
    BY <2>1, <2>2 DEF DeriveInterpolatingValue
  <2>4. SMul(1, SInv(1)) = 1
    BY Inverse1, ScalarInt
  <2> QED BY <2>3, <2>4 DEF Derived
<1> QED BY <1>1, <1>3, <1>4 DEF IsLagrange

\* The shares of as many participants as the polynomial has coefficients
\* determine its constant term.
LEMMA InterpolateSecret ==
  ASSUME NEW S \in SUBSET (Scalar \ {0}), IsFiniteSet(S),
         NEW n \in Nat \ {0}, NEW p \in [1 .. n -> Scalar], Cardinality(S) >= n
  PROVE  SSum([i \in S |-> SMul(DeriveInterpolatingValue(S, i), Evaluate(p, i))]) = p[1]
<1>1. IsLagrange(S, 0, Derived(S))
  BY DerivedIsLagrange
<1>2. Weighted(Derived(S), S, [i \in S |-> Evaluate(p, i)]) = Evaluate(p, 0)
  BY <1>1, Interpolation, ScalarInt
<1>3. Weighted(Derived(S), S, [i \in S |-> Evaluate(p, i)]) =
        SSum([i \in S |-> SMul(DeriveInterpolatingValue(S, i), Evaluate(p, i))])
  BY DEF Weighted, Derived
<1> QED BY <1>2, <1>3, EvaluateAtZero

\* The same for shares that all have r added to them.
LEMMA InterpolateShifted ==
  ASSUME NEW S \in SUBSET (Scalar \ {0}), IsFiniteSet(S), NEW r \in Scalar,
         NEW n \in Nat \ {0}, NEW p \in [1 .. n -> Scalar], Cardinality(S) >= n
  PROVE  SSum([i \in S |-> SMul(DeriveInterpolatingValue(S, i), SAdd(Evaluate(p, i), r))])
           = SAdd(p[1], r)
<1> DEFINE lam == Derived(S)
           f == [i \in S |-> Evaluate(p, i)]
           one == [i \in S |-> 1]
           g == [i \in S |-> SMul(r, one[i])]
<1>1. IsLagrange(S, 0, lam) /\ S \in SUBSET Scalar /\ 0 \in Scalar
  BY DerivedIsLagrange, ScalarInt
<1>2. Weighted(lam, S, f) = p[1]
  BY InterpolateSecret DEF Weighted, Derived
<1>3. S # {}
  BY FS_EmptySet
<1>4. f \in [S -> Scalar] /\ one \in [S -> Scalar] /\ g \in [S -> Scalar]
  <2>1. \A i \in S : Evaluate(p, i) \in Scalar
    BY <1>1, EvaluateAtZero
  <2>2. \A i \in S : SMul(r, 1) \in Scalar
    BY OpType, ScalarInt
  <2> QED BY <2>1, <2>2, ScalarInt
<1> HIDE DEF lam
<1>5. Weighted(lam, S, one) = 1
  BY <1>1, <1>3, WeightedOne
<1>6. Weighted(lam, S, g) = SMul(r, Weighted(lam, S, one))
  <2> HIDE DEF one
  <2> QED BY <1>1, <1>4, WeightedScale
<1>7. SMul(r, 1) = r
  BY Units
<1>8. Weighted(lam, S, [i \in S |-> SAdd(f[i], g[i])]) = SAdd(Weighted(lam, S, f), Weighted(lam, S, g))
  <2> HIDE DEF f, g
  <2> QED BY <1>1, <1>4, WeightedAdd
<1>9. [i \in S |-> SAdd(f[i], g[i])] = [i \in S |-> SAdd(Evaluate(p, i), r)]
  BY <1>7
<1>10. Weighted(lam, S, [i \in S |-> SAdd(Evaluate(p, i), r)]) = SAdd(p[1], r)
  BY <1>2, <1>5, <1>6, <1>7, <1>8, <1>9
<1> QED BY <1>10 DEF Weighted, Derived, lam

\* Only zero changes nothing when it is added.
LEMMA AddNothing ==
  ASSUME NEW a \in Scalar, NEW e \in Scalar
  PROVE  SAdd(a, e) = a <=> e = 0
<1>1. SAdd(a, 0) = a /\ SAdd(0, a) = a /\ SAdd(a, e) = SAdd(e, a)
  BY Units, Commute, ScalarInt
<1>2. SAdd(e, a) = SAdd(0, a) => e = 0
  BY AddCancel, ScalarInt
<1> QED BY <1>1, <1>2

\* The identifiers and the threshold.
LEMMA Constants ==
  /\ N \in Nat /\ Ids \subseteq Scalar \ {0} /\ IsFiniteSet(Ids) /\ Cardinality(Ids) = N
  /\ MinSigners \in Nat \ {0} /\ MinSigners >= 2 /\ MinSigners <= N
<1>1. N \in Nat /\ N < Q /\ MinSigners \in 2 .. N /\ Q \in Nat
  BY SharingAssumptions, FieldAssumptions
<1>2. Ids \subseteq Scalar \ {0}
  BY <1>1 DEF Ids, Scalar
<1>3. IsFiniteSet(Ids) /\ Cardinality(Ids) = N
  BY <1>1, FS_Interval DEF Ids
<1> QED BY <1>1, <1>2, <1>3

-----------------------------------------------------------------------------
(* 2. ThresholdSigning: every share and every signature of a session.      *)

(* What is true of a session in every state.                               *)

Share == [id : Ids, z : Scalar]

SessionOK ==
  /\ poly \in Polynomials
  /\ shape \in {"none", "dealer", "participants"}
  /\ threshold \in [Ids -> {0, MinSigners}]
  /\ phase \in {"commit", "sign", "done"}
  /\ Signers \subseteq Ids
  /\ \A i \in Signers : nonces[i][1] \in Scalar /\ nonces[i][2] \in Scalar
  /\ oracle.rho \in [Ids -> Scalar] /\ oracle.challenge \in Scalar
  /\ randomizer \in Scalar
  /\ GroupPublicKey # Identity
  /\ received \in Seq(Share)
  /\ phase = "commit" => randomizer = 0 /\ received = <<>>

-----------------------------------------------------------------------------
(* One share.                                                              *)

\* The signers are finitely many, and none of them is 0.
LEMMA SignerSet ==
  ASSUME SessionOK
  PROVE  /\ IsFiniteSet(Signers)
         /\ Cardinality(Signers) \in Nat
         /\ Signers \in SUBSET (Scalar \ {0})
         /\ poly \in [1 .. MinSigners -> Scalar]
<1>1. Signers \subseteq Ids /\ poly \in Polynomials
  BY DEF SessionOK
<1>2. IsFiniteSet(Signers)
  BY <1>1, Constants, FS_Subset
<1> QED BY <1>1, <1>2, Constants, FS_CardinalityType, SharingAssumptions

\* The parts of a share are scalars, and its public share is right.
LEMMA ShareParts ==
  ASSUME SessionOK, NEW i \in Ids
  PROVE  /\ i \in Scalar
         /\ Evaluate(poly, i) \in Scalar
         /\ SecretShare(i) \in Scalar
         /\ Lambda(i) \in Scalar
         /\ Randomized(ScalarBaseMult(Evaluate(poly, i))) = ScalarBaseMult(SecretShare(i))
<1>1. i \in Scalar
  BY Constants
<1>2. Evaluate(poly, i) \in Scalar
  BY <1>1, SignerSet, Constants, EvaluateAtZero
<1>3. randomizer \in Scalar
  BY DEF SessionOK
<1>4. SecretShare(i) \in Scalar
  BY <1>2, <1>3, OpType, ScalarInt DEF SecretShare
<1>5. Lambda(i) \in Scalar
  BY <1>1, SignerSet, DerivedType DEF Lambda
<1>6. /\ ScalarBaseMult(Evaluate(poly, i)) \in Scalar /\ ScalarBaseMult(randomizer) \in Scalar
      /\ ScalarBaseMult(SAdd(Evaluate(poly, i), randomizer)) =
           SAdd(ScalarBaseMult(Evaluate(poly, i)), ScalarBaseMult(randomizer))
  BY <1>2, <1>3, BaseMult
<1>7. Randomized(ScalarBaseMult(Evaluate(poly, i))) = ScalarBaseMult(SecretShare(i))
  BY <1>6, ElementOps, ScalarInt DEF Randomized, SecretShare
<1> QED BY <1>1, <1>2, <1>4, <1>5, <1>7

\* The shares received are a sequence.
LEMMA ReceivedSeq ==
  ASSUME SessionOK
  PROVE  /\ received \in Seq(Share) /\ Len(received) \in Nat
         /\ DOMAIN received = 1 .. Len(received)
         /\ \A k \in DOMAIN received : received[k] \in Share
         /\ received = <<>> <=> Len(received) = 0
<1>1. received \in Seq(Share)
  BY DEF SessionOK
<1> QED BY <1>1

\* The nonce part of a share, and the key part.
NoncePart(i) == SAdd(nonces[i][1], SMul(nonces[i][2], oracle.rho[i]))
KeyPart(i) == SMul(SMul(Lambda(i), SecretShare(i)), oracle.challenge)

\* A share is a part for the nonces and a part for the key.
LEMMA ShareSplit ==
  ASSUME SessionOK, NEW i \in Signers
  PROVE  /\ i \in Ids
         /\ NoncePart(i) \in Scalar /\ KeyPart(i) \in Scalar
         /\ HonestShare(i) = SAdd(NoncePart(i), KeyPart(i))
         /\ HonestShare(i) \in Scalar
         /\ BoundCommitment(i) = ScalarBaseMult(NoncePart(i))
         /\ BoundCommitment(i) \in Scalar
<1> DEFINE a == nonces[i][1]
           b == nonces[i][2]
           r == oracle.rho[i]
<1>1. i \in Ids /\ a \in Scalar /\ b \in Scalar /\ r \in Scalar /\ oracle.challenge \in Scalar
  BY DEF SessionOK
<1>2. Lambda(i) \in Scalar /\ SecretShare(i) \in Scalar
  BY <1>1, ShareParts
<1>3. SMul(b, r) \in Scalar /\ SMul(Lambda(i), SecretShare(i)) \in Scalar
  BY <1>1, <1>2, OpType, ScalarInt
<1>4. NoncePart(i) \in Scalar /\ KeyPart(i) \in Scalar
  BY <1>1, <1>3, OpType, ScalarInt DEF NoncePart, KeyPart
<1>5. HonestShare(i) = SAdd(NoncePart(i), KeyPart(i))
  BY DEF HonestShare, NoncePart, KeyPart
<1>6. HonestShare(i) \in Scalar
  BY <1>4, <1>5, OpType, ScalarInt
<1>7. ScalarMult(ScalarBaseMult(b), r) = ScalarBaseMult(SMul(b, r))
  <2>1. ScalarBaseMult(b) = SMul(G, b) /\ ScalarBaseMult(SMul(b, r)) = SMul(G, SMul(b, r))
    BY <1>1, <1>3, BaseMult
  <2>2. b \in Int /\ r \in Int /\ G \in Int /\ SMul(G, b) \in Int
    BY <1>1, OpType, ScalarInt
  <2>3. ScalarMult(SMul(G, b), r) = SMul(SMul(G, b), r)
    BY <2>2, ElementOps
  <2> QED BY <2>1, <2>2, <2>3, MulAssoc
<1>8. ScalarBaseMult(a) \in Scalar /\ ScalarBaseMult(SMul(b, r)) \in Scalar
      /\ ScalarBaseMult(SAdd(a, SMul(b, r))) = SAdd(ScalarBaseMult(a), ScalarBaseMult(SMul(b, r)))
  BY <1>1, <1>3, BaseMult
<1>9. BoundCommitment(i) = ScalarBaseMult(NoncePart(i))
  <2>1. BoundCommitment(i) = EAdd(ScalarBaseMult(a), ScalarMult(ScalarBaseMult(b), r))
    BY DEF BoundCommitment, HidingNonceCommitment, BindingNonceCommitment
  <2>2. NoncePart(i) = SAdd(a, SMul(b, r))
    BY DEF NoncePart
  <2> DEFINE x == ScalarBaseMult(a)
             y == ScalarBaseMult(SMul(b, r))
  <2>3. x \in Int /\ y \in Int
    BY <1>8, ScalarInt
  <2> HIDE DEF x, y
  <2>4. EAdd(x, y) = SAdd(x, y)
    BY <2>3, ElementOps
  <2> QED BY <1>7, <1>8, <2>1, <2>2, <2>4 DEF x, y
<1> QED BY <1>1, <1>4, <1>5, <1>6, <1>9, BaseMult

\* The share equation holds for the share RoundTwo computes and no other.
LEMMA ShareEquation ==
  ASSUME SessionOK, NEW i \in Signers, NEW z \in Scalar
  PROVE  ScalarBaseMult(z) = ExpectedElement(i, ScalarBaseMult(SecretShare(i)))
           <=> z = HonestShare(i)
<1> DEFINE s == SecretShare(i)
           c == oracle.challenge
           l == Lambda(i)
<1>1. i \in Ids /\ NoncePart(i) \in Scalar /\ KeyPart(i) \in Scalar /\ HonestShare(i) \in Scalar
      /\ HonestShare(i) = SAdd(NoncePart(i), KeyPart(i))
      /\ BoundCommitment(i) = ScalarBaseMult(NoncePart(i)) /\ BoundCommitment(i) \in Scalar
  BY ShareSplit
<1>2. s \in Scalar /\ l \in Scalar /\ c \in Scalar
  BY <1>1, ShareParts DEF SessionOK
<1>3. s \in Int /\ l \in Int /\ c \in Int /\ G \in Int /\ ScalarBaseMult(s) = SMul(G, s)
  BY <1>2, BaseMult, ScalarInt
<1>4. SMul(G, s) \in Int /\ SMul(s, c) \in Int /\ SMul(l, s) \in Int
      /\ SMul(SMul(G, s), c) \in Int /\ KeyPart(i) \in Int
  <2>1. SMul(G, s) \in Scalar /\ SMul(s, c) \in Scalar /\ SMul(l, s) \in Scalar
    BY <1>3, OpType
  <2>2. SMul(SMul(G, s), c) \in Scalar
    BY <1>3, <2>1, OpType, ScalarInt
  <2> QED BY <1>1, <2>1, <2>2, ScalarInt
<1>5. KeyPart(i) = SMul(SMul(l, s), c)
  BY DEF KeyPart
<1> HIDE DEF s, c, l
<1>6. ScalarMult(ScalarMult(SMul(G, s), c), l) = SMul(SMul(SMul(G, s), c), l)
  <2>1. ScalarMult(SMul(G, s), c) = SMul(SMul(G, s), c)
    BY <1>3, <1>4, ElementOps
  <2>2. ScalarMult(SMul(SMul(G, s), c), l) = SMul(SMul(SMul(G, s), c), l)
    BY <1>3, <1>4, ElementOps
  <2> QED BY <2>1, <2>2
<1>7. SMul(SMul(SMul(G, s), c), l) = SMul(G, KeyPart(i))
  <2>1. SMul(SMul(G, s), c) = SMul(G, SMul(s, c))
    BY <1>3, MulAssoc
  <2>2. SMul(SMul(G, SMul(s, c)), l) = SMul(G, SMul(SMul(s, c), l))
    BY <1>3, <1>4, MulAssoc
  <2>3. SMul(SMul(s, c), l) = SMul(l, SMul(s, c))
    BY <1>3, <1>4, Commute
  <2>4. SMul(l, SMul(s, c)) = SMul(SMul(l, s), c)
    BY <1>3, MulAssoc
  <2> QED BY <1>5, <2>1, <2>2, <2>3, <2>4
<1>8. ScalarBaseMult(KeyPart(i)) = SMul(G, KeyPart(i)) /\ ScalarBaseMult(KeyPart(i)) \in Scalar
      /\ ScalarBaseMult(HonestShare(i)) = SAdd(ScalarBaseMult(NoncePart(i)), ScalarBaseMult(KeyPart(i)))
  BY <1>1, BaseMult
<1>9. ExpectedElement(i, ScalarBaseMult(s)) = EAdd(BoundCommitment(i), ScalarBaseMult(KeyPart(i)))
  BY <1>3, <1>6, <1>7, <1>8 DEF ExpectedElement, c, l
<1>10. ExpectedElement(i, ScalarBaseMult(s)) = ScalarBaseMult(HonestShare(i))
  <2>1. BoundCommitment(i) \in Int /\ ScalarBaseMult(KeyPart(i)) \in Int
    BY <1>1, <1>8, ScalarInt
  <2>2. EAdd(BoundCommitment(i), ScalarBaseMult(KeyPart(i)))
          = SAdd(BoundCommitment(i), ScalarBaseMult(KeyPart(i)))
    BY <2>1, ElementOps
  <2> QED BY <1>1, <1>8, <1>9, <2>2
<1> QED BY <1>1, <1>10, BaseMult DEF s

-----------------------------------------------------------------------------
(* All shares together.                                                    *)

\* The group commitment is the commitment to the sum of the nonce parts, the
\* group public key that to the (randomized) secret.
LEMMA GroupParts ==
  ASSUME SessionOK
  PROVE  /\ [i \in Signers |-> NoncePart(i)] \in [Signers -> Scalar]
         /\ GroupCommitment = ScalarBaseMult(SSum([i \in Signers |-> NoncePart(i)]))
         /\ GroupCommitment \in Scalar
         /\ SAdd(poly[1], randomizer) \in Scalar
         /\ GroupPublicKey = ScalarBaseMult(SAdd(poly[1], randomizer))
         /\ GroupPublicKey \in Scalar
<1> DEFINE F == [i \in Signers |-> NoncePart(i)]
           B == [i \in Signers |-> BoundCommitment(i)]
<1>1. F \in [Signers -> Scalar] /\ IsFiniteSet(Signers)
  BY ShareSplit, SignerSet
<1>2. SSum(F) \in Scalar
  BY <1>1, SSumType
<1>3. B = [i \in Signers |-> SMul(G, F[i])]
  <2>1. ASSUME NEW i \in Signers PROVE BoundCommitment(i) = SMul(G, NoncePart(i))
    BY ShareSplit, BaseMult
  <2> QED BY <2>1
<1>4. GroupCommitment = SSum(B)
  BY SameSum DEF GroupCommitment
<1>5. SSum(B) = SMul(G, SSum(F))
  <2> HIDE DEF F, B
  <2> QED BY <1>1, <1>3, SumScale, ScalarInt
<1>6. GroupCommitment = ScalarBaseMult(SSum(F)) /\ GroupCommitment \in Scalar
  BY <1>2, <1>4, <1>5, BaseMult
<1>7. poly[1] \in Scalar /\ randomizer \in Scalar
  BY SignerSet, Constants DEF SessionOK
<1>8. ScalarBaseMult(poly[1]) \in Scalar /\ ScalarBaseMult(randomizer) \in Scalar
      /\ ScalarBaseMult(SAdd(poly[1], randomizer))
           = SAdd(ScalarBaseMult(poly[1]), ScalarBaseMult(randomizer))
  BY <1>7, BaseMult
<1>9. GroupPublicKey = ScalarBaseMult(SAdd(poly[1], randomizer))
  <2>1. EAdd(ScalarBaseMult(poly[1]), ScalarBaseMult(randomizer))
          = SAdd(ScalarBaseMult(poly[1]), ScalarBaseMult(randomizer))
    BY <1>8, ElementOps, ScalarInt
  <2> QED BY <1>8, <2>1 DEF GroupPublicKey, RandomizedVerifyingKey
<1>10. SAdd(poly[1], randomizer) \in Scalar
  BY <1>7, OpType, ScalarInt
<1> QED BY <1>1, <1>6, <1>9, <1>10, BaseMult

\* The shares of a quorum add up to a signature.
LEMMA SharesSign ==
  ASSUME SessionOK, Cardinality(Signers) >= MinSigners
  PROVE  /\ [i \in Signers |-> HonestShare(i)] \in [Signers -> Scalar]
         /\ ScalarBaseMult(SSum([i \in Signers |-> HonestShare(i)]))
              = EAdd(GroupCommitment, ScalarMult(GroupPublicKey, oracle.challenge))
<1> DEFINE F == [i \in Signers |-> NoncePart(i)]
           K == [i \in Signers |-> SMul(Lambda(i), SecretShare(i))]
           H == [i \in Signers |-> KeyPart(i)]
           Z == [i \in Signers |-> HonestShare(i)]
           c == oracle.challenge
           secret == SAdd(poly[1], randomizer)
<1>1. /\ F \in [Signers -> Scalar] /\ GroupCommitment = ScalarBaseMult(SSum(F))
      /\ GroupCommitment \in Scalar /\ GroupPublicKey = ScalarBaseMult(secret)
      /\ secret \in Scalar /\ GroupPublicKey \in Scalar
  BY GroupParts
<1>2. IsFiniteSet(Signers) /\ c \in Scalar
  BY SignerSet DEF SessionOK
<1>3. K \in [Signers -> Scalar]
  <2>1. ASSUME NEW i \in Signers PROVE SMul(Lambda(i), SecretShare(i)) \in Scalar
    <3>1. Lambda(i) \in Scalar /\ SecretShare(i) \in Scalar
      BY ShareSplit, ShareParts
    <3> QED BY <3>1, OpType, ScalarInt
  <2> QED BY <2>1
<1>4. H \in [Signers -> Scalar] /\ Z \in [Signers -> Scalar]
  BY ShareSplit
<1>5. Z = [i \in Signers |-> SAdd(F[i], H[i])]
  BY ShareSplit
<1>6. H = [i \in Signers |-> SMul(c, K[i])]
  <2>1. ASSUME NEW i \in Signers PROVE KeyPart(i) = SMul(c, SMul(Lambda(i), SecretShare(i)))
    BY <1>2, <1>3, Commute, ScalarInt DEF KeyPart
  <2> QED BY <2>1
<1>7. SSum(K) = secret
  <2>1. randomizer \in Scalar
    BY DEF SessionOK
  <2>2. K = [i \in Signers |-> SMul(DeriveInterpolatingValue(Signers, i),
                                    SAdd(Evaluate(poly, i), randomizer))]
    BY DEF Lambda, SecretShare
  <2>3. /\ Signers \in SUBSET (Scalar \ {0}) /\ poly \in [1 .. MinSigners -> Scalar]
        /\ MinSigners \in Nat \ {0}
    BY SignerSet, Constants
  <2> QED BY <1>2, <2>1, <2>2, <2>3, InterpolateShifted
<1> HIDE DEF F, K, H, Z, c, secret
<1>8. SSum(Z) = SAdd(SSum(F), SSum(H))
  BY <1>1, <1>2, <1>4, <1>5, SumAdd
<1>9. SSum(H) = SMul(c, secret)
  BY <1>2, <1>3, <1>6, <1>7, SumScale
<1>10. SSum(F) \in Scalar /\ SSum(H) \in Scalar
  BY <1>1, <1>2, <1>4, SSumType
<1>11. ScalarBaseMult(SSum(Z)) = SAdd(GroupCommitment, ScalarBaseMult(SSum(H)))
  BY <1>1, <1>8, <1>10, BaseMult
<1>12. ScalarBaseMult(SSum(H)) = ScalarMult(GroupPublicKey, c)
  <2>1. ScalarBaseMult(SSum(H)) = SMul(G, SMul(c, secret))
    BY <1>9, <1>10, BaseMult
  <2>2. c \in Int /\ secret \in Int /\ G \in Int
    BY <1>1, <1>2, ScalarInt
  <2>3. SMul(c, secret) = SMul(secret, c) /\ SMul(G, SMul(secret, c)) = SMul(SMul(G, secret), c)
    BY <2>2, Commute, MulAssoc
  <2>4. GroupPublicKey = SMul(G, secret)
    BY <1>1, BaseMult
  <2>5. ScalarMult(GroupPublicKey, c) = SMul(GroupPublicKey, c)
    BY <1>1, <1>2, ElementOps, ScalarInt
  <2> QED BY <2>1, <2>3, <2>4, <2>5
<1>13. ScalarMult(GroupPublicKey, c) \in Scalar
  BY <1>10, <1>12, BaseMult
<1>14. EAdd(GroupCommitment, ScalarMult(GroupPublicKey, c))
         = SAdd(GroupCommitment, ScalarMult(GroupPublicKey, c))
  BY <1>1, <1>13, ElementOps, ScalarInt
<1> QED BY <1>4, <1>11, <1>12, <1>14 DEF Z, c

\* When each signer's share arrives once, the order does not matter.
LEMMA ReceivedSum ==
  ASSUME SessionOK, OneShareEach, \A k \in DOMAIN received : FromRoundTwo(received[k]),
         [i \in Signers |-> HonestShare(i)] \in [Signers -> Scalar]
  PROVE  Sum(received) = SSum([i \in Signers |-> HonestShare(i)])
<1> DEFINE T == DOMAIN received
           b == [k \in T |-> received[k].id]
           Z == [i \in Signers |-> HonestShare(i)]
<1>1. received \in Seq(Share) /\ T = 1 .. Len(received) /\ Len(received) \in Nat
  BY DEF SessionOK
<1>2. IsFiniteSet(T) /\ Cardinality(T) = Len(received)
  BY <1>1, FS_Interval
<1>3. b \in [T -> Signers] /\ \A i \in Signers : \E k \in T : b[k] = i
  BY DEF OneShareEach
<1>4. b \in Surjection(T, Signers)
  BY <1>3 DEF Surjection
<1>5. Cardinality(T) = Cardinality(Signers)
  BY <1>2 DEF OneShareEach
<1> HIDE DEF T, b, Z
<1>6. b \in Injection(T, Signers)
  BY <1>2, <1>4, <1>5, SignerSet, FS_SurjSameCardinalityImpliesInj
<1>7. \A j, k \in T : b[j] = b[k] => j = k
  BY <1>6 DEF Injection, IsInjective
<1> DEFINE W == [k \in T |-> received[k].z]
<1>8. Reordered(W, b, T, Z)
  <2>1. ASSUME NEW k \in T PROVE received[k].z \in Scalar /\ received[k].z = Z[b[k]]
    BY <1>1 DEF T, b, Z, FromRoundTwo, Share
  <2> QED BY <2>1 DEF Reordered
<1>9. Reorders(b, T, Signers)
  BY <1>3, <1>7 DEF Reorders
<1>10. Z \in [Signers -> Scalar]
  BY DEF Z
<1> HIDE DEF W
<1>11. SSum(W) = SSum(Z)
  BY <1>2, <1>8, <1>9, <1>10, SumReindex
<1> QED BY <1>11 DEF Sum, T, W, Z

-----------------------------------------------------------------------------
(* Verification.                                                           *)

\* Given one public key per participant, the aggregator accepts exactly what
\* RoundTwo computes.
LEMMA AcceptedExact ==
  ASSUME SessionOK, shape = "participants", NEW s \in Share
  PROVE  ShareAccepted(s) <=> FromRoundTwo(s)
<1>1. s.id \in Ids /\ s.z \in Scalar
  BY DEF Share
<1>2. KeysOf(s.id) = {Randomized(ScalarBaseMult(Evaluate(poly, s.id)))}
  <2> DEFINE V == VerificationShares
  <2>1. DOMAIN V = Ids /\ \A j \in Ids : V[j].id = j
          /\ V[j].key = Randomized(ScalarBaseMult(Evaluate(poly, j)))
    BY DEF VerificationShares
  <2> HIDE DEF V
  <2>2. {w \in ToSet(V) : w.id = s.id} = {V[s.id]}
    BY <1>1, <2>1 DEF ToSet
  <2>3. KeysOf(s.id) = {V[s.id].key}
    BY <2>2 DEF KeysOf, V
  <2> QED BY <1>1, <2>1, <2>3
<1>3. KeysOf(s.id) = {ScalarBaseMult(SecretShare(s.id))}
  BY <1>1, <1>2, ShareParts
<1>4. s.id \in Signers =>
        (ScalarBaseMult(s.z) = ExpectedElement(s.id, ScalarBaseMult(SecretShare(s.id)))
           <=> s.z = HonestShare(s.id))
  BY <1>1, ShareEquation
<1> QED BY <1>3, <1>4 DEF ShareAccepted, FromRoundTwo

\* Given commitments to the coefficients, which make a key package checkable,
\* a participant recovers everyone's public key.
LEMMA PublicKeys ==
  ASSUME SessionOK, shape = "dealer", randomizer = 0, NEW i \in Ids
  PROVE  EvaluateCommitments([j \in DOMAIN VerificationShares |->
                                VerificationShares[j].key], i)
           = ScalarBaseMult(SecretShare(i))
<1>1. /\ i \in Scalar /\ Evaluate(poly, i) \in Scalar /\ MinSigners \in Nat
      /\ poly \in [1 .. MinSigners -> Scalar]
  BY ShareParts, SignerSet, Constants
<1>2. ASSUME NEW a \in Scalar
      PROVE  Randomized(ScalarBaseMult(a)) = ScalarBaseMult(a)
  <2>1. ScalarBaseMult(0) = 0 /\ ScalarBaseMult(a) \in Scalar
    BY BaseMult, ScalarInt
  <2>2. EAdd(ScalarBaseMult(a), 0) = SAdd(ScalarBaseMult(a), 0)
    BY <2>1, ElementOps, ScalarInt
  <2> QED BY <2>1, <2>2, Units DEF Randomized
<1>3. [j \in DOMAIN VerificationShares |-> VerificationShares[j].key] = CreateCommitments(poly)
  <2>1. \A j \in 1 .. MinSigners : Randomized(ScalarBaseMult(poly[j])) = ScalarBaseMult(poly[j])
    BY <1>1, <1>2
  <2> QED BY <1>1, <2>1 DEF VerificationShares, CreateCommitments
<1>4. SecretShare(i) = Evaluate(poly, i)
  BY <1>1, Units DEF SecretShare
<1> QED BY <1>1, <1>3, <1>4, CommitmentsFit

\* A peer's check of a share accepts the right one and no other.
LEMMA PeersExact ==
  ASSUME SessionOK
  PROVE  PeersBlame
<1> SUFFICES ASSUME shape = "dealer", randomizer = 0
             PROVE  /\ \A k \in DOMAIN received :
                         VerifySignatureShare(received[k]) <=> FromRoundTwo(received[k])
                    /\ \A i \in Ids, error \in Errors \cup {0} :
                         VerifyKeyShare(i, SAdd(SecretShare(i), error)) <=> error = 0
  BY DEF PeersBlame
<1>1. ASSUME NEW k \in DOMAIN received
      PROVE  VerifySignatureShare(received[k]) <=> FromRoundTwo(received[k])
  <2>1. received[k].id \in Ids /\ received[k].z \in Scalar
    <3>1. received[k] \in Share
      BY DEF SessionOK
    <3> QED BY <3>1 DEF Share
  <2>2. received[k].id \in Signers =>
          (ScalarBaseMult(received[k].z)
             = ExpectedElement(received[k].id, ScalarBaseMult(SecretShare(received[k].id)))
           <=> received[k].z = HonestShare(received[k].id))
    BY <2>1, ShareEquation
  <2> QED BY <2>1, <2>2, PublicKeys DEF VerifySignatureShare, FromRoundTwo
<1>2. ASSUME NEW i \in Ids, NEW error \in Errors \cup {0}
      PROVE  VerifyKeyShare(i, SAdd(SecretShare(i), error)) <=> error = 0
  <2>1. SecretShare(i) \in Scalar /\ error \in Scalar
    BY ShareParts, SigningAssumptions, ScalarInt
  <2>2. SAdd(SecretShare(i), error) \in Scalar
    BY <2>1, OpType, ScalarInt
  <2>3. VerifyKeyShare(i, SAdd(SecretShare(i), error)) <=>
          SAdd(SecretShare(i), error) = SecretShare(i)
    <3>1. 1 \in DOMAIN VerificationShares
      BY Constants DEF VerificationShares
    <3>2. VerificationShares # <<>>
      BY <3>1
    <3> QED BY <2>1, <2>2, <3>2, PublicKeys, BaseMult DEF VerifyKeyShare
  <2>4. SAdd(SecretShare(i), error) = SecretShare(i) <=> error = 0
    BY <2>1, AddNothing
  <2> QED BY <2>3, <2>4
<1> QED BY <1>1, <1>2

-----------------------------------------------------------------------------
(* Batch verification.                                                     *)

Item == [key : Scalar, R : Scalar, z : Scalar, challenge : Scalar]

\* The two sides of the equation of one item.
LeftSide(item) == SMul(G, item.z)
RightSide(item) == SAdd(item.R, SMul(item.key, item.challenge))

\* The two sides of the equation of a batch item.
LEMMA ItemSides ==
  ASSUME NEW item \in Item
  PROVE  /\ item.key \in Scalar /\ item.R \in Scalar /\ item.z \in Scalar
         /\ item.challenge \in Scalar
         /\ LeftSide(item) \in Scalar /\ RightSide(item) \in Scalar
         /\ VerifySingle(item) <=> LeftSide(item) = RightSide(item)
<1>1. /\ item.key \in Scalar /\ item.R \in Scalar /\ item.z \in Scalar
      /\ item.challenge \in Scalar
  BY DEF Item
<1>2. SMul(item.key, item.challenge) \in Scalar
  BY <1>1, OpType, ScalarInt
<1>3. LeftSide(item) \in Scalar /\ RightSide(item) \in Scalar
  BY <1>1, <1>2, OpType, ScalarInt DEF LeftSide, RightSide
<1>4. ScalarMult(item.key, item.challenge) = SMul(item.key, item.challenge)
  BY <1>1, ElementOps, ScalarInt
<1>5. EAdd(item.R, SMul(item.key, item.challenge)) = RightSide(item)
  BY <1>1, <1>2, ElementOps, ScalarInt DEF RightSide
<1>6. ScalarBaseMult(item.z) = LeftSide(item)
  BY <1>1, BaseMult DEF LeftSide
<1> QED BY <1>1, <1>3, <1>4, <1>5, <1>6 DEF VerifySingle

\* What an item adds to the equation of a batch.
LEMMA ItemTerm ==
  ASSUME NEW item \in Item, NEW blind \in Scalar
  PROVE  /\ EAdd(ScalarMult(item.R, blind),
                 ScalarMult(item.key, SMul(blind, item.challenge)))
              = SMul(blind, RightSide(item))
         /\ SMul(G, SMul(blind, item.z)) = SMul(blind, LeftSide(item))
<1> DEFINE k == item.key
           r == item.R
           z == item.z
           c == item.challenge
<1>1. k \in Int /\ r \in Int /\ z \in Int /\ c \in Int /\ blind \in Int /\ G \in Int
  BY ItemSides, ScalarInt
<1>2. RightSide(item) = SAdd(r, SMul(k, c)) /\ LeftSide(item) = SMul(G, z)
  BY DEF RightSide, LeftSide
<1> HIDE DEF k, r, z, c
<1>3. /\ SMul(blind, c) \in Int /\ SMul(k, c) \in Int /\ SMul(blind, r) \in Int
      /\ SMul(blind, z) \in Int /\ SMul(c, k) \in Int
  BY <1>1, OpType, ScalarInt
<1>4. ScalarMult(r, blind) = SMul(r, blind) /\ SMul(r, blind) = SMul(blind, r)
  BY <1>1, ElementOps, Commute
<1>5. ScalarMult(k, SMul(blind, c)) = SMul(k, SMul(blind, c))
  BY <1>1, <1>3, ElementOps
<1>6. SMul(k, SMul(blind, c)) = SMul(blind, SMul(k, c))
  <2>1. SMul(k, SMul(blind, c)) = SMul(SMul(blind, c), k)
    BY <1>1, <1>3, Commute
  <2>2. SMul(blind, SMul(c, k)) = SMul(SMul(blind, c), k)
    BY <1>1, MulAssoc
  <2>3. SMul(c, k) = SMul(k, c)
    BY <1>1, Commute
  <2> QED BY <2>1, <2>2, <2>3
<1>7. SMul(blind, SMul(k, c)) \in Int
  BY <1>1, <1>3, OpType, ScalarInt
<1>8. EAdd(SMul(blind, r), SMul(blind, SMul(k, c)))
        = SAdd(SMul(blind, r), SMul(blind, SMul(k, c)))
  BY <1>3, <1>7, ElementOps
<1>9. SMul(blind, SAdd(r, SMul(k, c))) = SAdd(SMul(blind, r), SMul(blind, SMul(k, c)))
  BY <1>1, <1>3, Distribute
<1>10. SMul(G, SMul(blind, z)) = SMul(blind, SMul(G, z))
  <2>1. SMul(G, SMul(blind, z)) = SMul(SMul(G, blind), z)
    BY <1>1, MulAssoc
  <2>2. SMul(blind, SMul(G, z)) = SMul(SMul(blind, G), z)
    BY <1>1, MulAssoc
  <2>3. SMul(G, blind) = SMul(blind, G)
    BY <1>1, Commute
  <2> QED BY <2>1, <2>2, <2>3
<1> QED BY <1>2, <1>4, <1>5, <1>6, <1>8, <1>9, <1>10 DEF k, r, z, c

\* A multiple of the generator is cancelled by that of the negated scalar.
LEMMA Negated ==
  ASSUME NEW g \in Scalar, NEW t \in Scalar
  PROVE  EAdd(ScalarBaseMult(SSub(0, g)), t) = Identity <=> t = SMul(G, g)
<1> DEFINE n == SSub(0, g)
           m == SMul(G, n)
<1>1. n \in Scalar /\ ScalarBaseMult(n) = m /\ m \in Scalar
  <2>1. n \in Scalar
    BY OpType, ScalarInt
  <2> QED BY <2>1, BaseMult
<1>2. SMul(G, g) \in Scalar
  BY OpType, ScalarInt
<1>3. SAdd(SMul(G, n), SMul(G, g)) = 0
  <2>1. SAdd(n, g) = 0
    BY SubAdd, ScalarInt
  <2>2. SMul(G, SAdd(n, g)) = SAdd(SMul(G, n), SMul(G, g))
    <3>1. n \in Int /\ g \in Int /\ G \in Int
      BY <1>1, ScalarInt
    <3> HIDE DEF n
    <3> QED BY <3>1, Distribute
  <2> QED BY <2>1, <2>2, Units, ScalarInt
<1>4. EAdd(m, t) = SAdd(m, t) /\ SAdd(m, t) = SAdd(t, m)
  BY <1>1, ElementOps, Commute, ScalarInt
<1>5. SAdd(m, SMul(G, g)) = SAdd(SMul(G, g), m)
  BY <1>1, <1>2, Commute, ScalarInt
<1> HIDE DEF n, m
<1>6. SAdd(t, m) = SAdd(SMul(G, g), m) => t = SMul(G, g)
  BY <1>1, <1>2, AddCancel
<1>7. SAdd(SMul(G, g), m) = 0
  BY <1>3, <1>5 DEF m
<1>8. EAdd(m, t) = Identity <=> t = SMul(G, g)
  BY <1>4, <1>6, <1>7, ScalarInt
<1> QED BY <1>1, <1>8 DEF n

\* The batch equation of two items compares the blinded sums of the sides.
LEMMA BatchOfTwo ==
  ASSUME NEW x \in Item, NEW y \in Item, NEW blinds \in [1 .. 2 -> Scalar]
  PROVE  BatchVerify(<<x, y>>, blinds) <=>
           SAdd(SMul(blinds[1], RightSide(x)), SMul(blinds[2], RightSide(y)))
             = SAdd(SMul(blinds[1], LeftSide(x)), SMul(blinds[2], LeftSide(y)))
<1> DEFINE items == <<x, y>>
           a == blinds[1]
           b == blinds[2]
           gF == [k \in 1 .. 2 |-> SMul(blinds[k], items[k].z)]
           tF == [k \in 1 .. 2 |-> EAdd(ScalarMult(items[k].R, blinds[k]),
                    ScalarMult(items[k].key, SMul(blinds[k], items[k].challenge)))]
           g == SSum(gF)
<1>1. DOMAIN items = 1 .. 2 /\ Len(items) = 2 /\ items # <<>> /\ items[1] = x /\ items[2] = y
  OBVIOUS
<1>2. a \in Scalar /\ b \in Scalar /\ x.z \in Scalar /\ y.z \in Scalar
      /\ RightSide(x) \in Scalar /\ RightSide(y) \in Scalar
  BY ItemSides
<1>3. /\ SMul(a, x.z) \in Scalar /\ SMul(b, y.z) \in Scalar
      /\ SMul(a, RightSide(x)) \in Scalar /\ SMul(b, RightSide(y)) \in Scalar
  BY <1>2, OpType, ScalarInt
<1>4. gF \in [1 .. 2 -> Scalar] /\ gF[1] = SMul(a, x.z) /\ gF[2] = SMul(b, y.z)
  BY <1>1, <1>3
<1>5. tF \in [1 .. 2 -> Scalar] /\ tF[1] = SMul(a, RightSide(x))
      /\ tF[2] = SMul(b, RightSide(y))
  <2>1. tF[1] = SMul(a, RightSide(x)) /\ tF[2] = SMul(b, RightSide(y))
    BY <1>1, <1>2, ItemTerm
  <2> QED BY <1>3, <2>1
<1>6. BatchVerify(items, blinds) <=>
        EAdd(ScalarBaseMult(SSub(0, g)), ESum(tF)) = Identity
  BY <1>1 DEF BatchVerify
<1> HIDE DEF items, gF, tF
<1>7. ESum(tF) = SAdd(tF[1], tF[2]) /\ g = SAdd(gF[1], gF[2])
  BY <1>4, <1>5, SameSum, SumTwo
<1>8. ESum(tF) \in Scalar /\ g \in Scalar
  BY <1>3, <1>4, <1>5, <1>7, OpType, ScalarInt
<1>9. SMul(G, g) = SAdd(SMul(a, LeftSide(x)), SMul(b, LeftSide(y)))
  <2>1. SMul(G, SAdd(gF[1], gF[2])) = SAdd(SMul(G, gF[1]), SMul(G, gF[2]))
    <3>1. gF[1] \in Int /\ gF[2] \in Int /\ G \in Int
      BY <1>3, <1>4, ScalarInt
    <3> QED BY <3>1, Distribute
  <2>2. SMul(G, SMul(a, x.z)) = SMul(a, LeftSide(x)) /\ SMul(G, SMul(b, y.z)) = SMul(b, LeftSide(y))
    BY <1>2, ItemTerm
  <2> QED BY <1>4, <1>7, <2>1, <2>2
<1> HIDE DEF g
<1>10. BatchVerify(items, blinds) <=> ESum(tF) = SMul(G, g)
  BY <1>6, <1>8, Negated
<1> QED BY <1>5, <1>7, <1>9, <1>10 DEF items

\* A batch of two, one of which verifies, tells whether the other does.
LEMMA BatchDecides ==
  ASSUME NEW x \in Item, NEW y \in Item, VerifySingle(y),
         NEW blinds \in [1 .. 2 -> Scalar], blinds[1] # 0, blinds[2] # 0
  PROVE  /\ BatchVerify(<<x, y>>, blinds) <=> VerifySingle(x)
         /\ BatchVerify(<<y, x>>, blinds) <=> VerifySingle(x)
<1>1. /\ LeftSide(x) \in Scalar /\ RightSide(x) \in Scalar /\ RightSide(y) \in Scalar
      /\ LeftSide(y) = RightSide(y)
      /\ VerifySingle(x) <=> LeftSide(x) = RightSide(x)
  BY ItemSides
<1>2. ASSUME NEW a \in Scalar, NEW b \in Scalar, a # 0
      PROVE  /\ SAdd(SMul(a, RightSide(x)), SMul(b, RightSide(y)))
                  = SAdd(SMul(a, LeftSide(x)), SMul(b, RightSide(y)))
                <=> LeftSide(x) = RightSide(x)
             /\ SAdd(SMul(b, RightSide(y)), SMul(a, RightSide(x)))
                  = SAdd(SMul(a, RightSide(x)), SMul(b, RightSide(y)))
             /\ SAdd(SMul(b, RightSide(y)), SMul(a, LeftSide(x)))
                  = SAdd(SMul(a, LeftSide(x)), SMul(b, RightSide(y)))
  <2> DEFINE e == RightSide(x)
             f == LeftSide(x)
             h == SMul(b, RightSide(y))
  <2>1. SMul(a, e) \in Scalar /\ SMul(a, f) \in Scalar /\ h \in Scalar /\ e \in Scalar /\ f \in Scalar
    BY <1>1, OpType, ScalarInt
  <2> HIDE DEF e, f, h
  <2>2. SAdd(SMul(a, e), h) = SAdd(SMul(a, f), h) => SMul(a, e) = SMul(a, f)
    BY <2>1, AddCancel
  <2>3. SMul(a, e) = SMul(e, a) /\ SMul(a, f) = SMul(f, a)
    BY <2>1, Commute, ScalarInt
  <2>4. SMul(e, a) = SMul(f, a) => e = f
    BY <1>2, <2>1, MulCancel
  <2>5. SAdd(h, SMul(a, e)) = SAdd(SMul(a, e), h) /\ SAdd(h, SMul(a, f)) = SAdd(SMul(a, f), h)
    BY <2>1, Commute, ScalarInt
  <2> QED BY <2>2, <2>3, <2>4, <2>5 DEF e, f, h
<1>3. blinds[1] \in Scalar /\ blinds[2] \in Scalar
  OBVIOUS
<1>4. BatchVerify(<<x, y>>, blinds) <=> VerifySingle(x)
  BY <1>1, <1>2, <1>3, BatchOfTwo
<1>5. BatchVerify(<<y, x>>, blinds) <=> VerifySingle(x)
  BY <1>1, <1>2, <1>3, BatchOfTwo
<1> QED BY <1>4, <1>5

-----------------------------------------------------------------------------
(* The inductive invariant: the session is well formed, nobody's RoundTwo  *)
(* has answered a list that is too short, and the outcome is what the      *)
(* operation that ended the session computed from the state it found.      *)

SharesEarned ==
  \A k \in DOMAIN received : FromRoundTwo(received[k]) => LongEnough(received[k].id)

\* The aggregator's error.
AnswerError(strategy, minSigners) ==
  IF Len(received) < minSigners THEN "insufficient"
  ELSE IF strategy # "Disabled" /\ VerificationShares = <<>> THEN "parameters"
  ELSE IF GroupCommitment = Identity THEN "identity"
  ELSE IF Culprits(strategy) # {} THEN "culprits" ELSE ""

\* The outcome with error err; blamed and total are what goes with it.
AnswerWith(name, err, blamed, total) ==
  [strategy |-> name, err |-> err,
   culprits |-> IF err = "culprits" THEN blamed ELSE {},
   R |-> IF err = "" THEN GroupCommitment ELSE Identity,
   z |-> IF err = "" THEN total ELSE 0]

Answered(name, strategy, minSigners) ==
  outcome = AnswerWith(name, AnswerError(strategy, minSigners), Culprits(strategy), Sum(received))

ServiceShares(order) ==
  [k \in 1 .. Cardinality(Signers) |-> [id |-> order[k], z |-> HonestShare(order[k])]]

ServiceError ==
  IF Cardinality(Signers) < 2 THEN "insufficient"
  ELSE IF ~AllSign THEN "refused"
  ELSE IF Cardinality(Signers) < ServiceMinSigners THEN "insufficient"
  ELSE IF GroupCommitment = Identity THEN "identity" ELSE ""

ServiceAnswered ==
  \E order \in Bijection(1 .. Cardinality(Signers), Signers) :
    /\ received = IF Cardinality(Signers) >= 2 /\ AllSign THEN ServiceShares(order) ELSE <<>>
    /\ outcome = AnswerWith("Service", ServiceError, {}, Sum(ServiceShares(order)))

OutcomeOK ==
  phase = "done" =>
    \/ \E strategy \in Strategies : Answered(strategy, strategy, MinSigners)
    \/ Answered("Map", "FirstCheater", Len(received))
    \/ ServiceAnswered

SigningInv == SessionOK /\ SharesEarned /\ OutcomeOK

-----------------------------------------------------------------------------
(* What the invariant implies.                                             *)

\* An aggregation that verifies shares and blames nobody has seen only shares
\* RoundTwo computed.
LEMMA NobodyBlamed ==
  ASSUME SessionOK, shape = "participants", NEW strategy \in {"FirstCheater", "AllCheaters"}
  PROVE  Culprits(strategy) = {} <=> \A k \in DOMAIN received : FromRoundTwo(received[k])
<1>1. received \in Seq(Share) /\ DOMAIN received \subseteq Nat
  BY DEF SessionOK
<1>2. \A k \in DOMAIN received : ShareAccepted(received[k]) <=> FromRoundTwo(received[k])
  BY <1>1, AcceptedExact
<1>3. Rejected \subseteq Nat /\ Rejected \subseteq DOMAIN received
  BY <1>1 DEF Rejected
<1>4. Rejected # {} => \E j \in Rejected : \A l \in Rejected : j <= l
  BY <1>3, LeastNat
<1>5. Culprits(strategy) = {} <=> Rejected = {}
  BY <1>4 DEF Culprits
<1> QED BY <1>2, <1>5 DEF Rejected

\* The signature of a quorum, each of whose shares arrived once, verifies.
LEMMA QuorumVerifies ==
  ASSUME SessionOK, OneShareEach, \A k \in DOMAIN received : FromRoundTwo(received[k]),
         Cardinality(Signers) >= MinSigners, GroupCommitment # Identity
  PROVE  Verify(GroupCommitment, Sum(received))
<1>1. Sum(received) = SSum([i \in Signers |-> HonestShare(i)])
  BY ReceivedSum, SharesSign
<1> QED BY <1>1, SharesSign DEF Verify, SessionOK

\* What the service hands to its aggregation is one share each.
LEMMA ServiceReceived ==
  ASSUME SessionOK, NEW order \in Bijection(1 .. Cardinality(Signers), Signers)
  PROVE  /\ ServiceShares(order) \in Seq(Share)
         /\ Len(ServiceShares(order)) = Cardinality(Signers)
<1>1. Cardinality(Signers) \in Nat
  BY SignerSet
<1>2. \A k \in 1 .. Cardinality(Signers) : order[k] \in Signers
  BY DEF Bijection, Injection
<1>3. \A k \in 1 .. Cardinality(Signers) :
        [id |-> order[k], z |-> HonestShare(order[k])] \in Share
  BY <1>2, ShareSplit DEF Share
<1> QED BY <1>1, <1>3 DEF ServiceShares

\* The number of verification shares of a key package.
LEMMA ServiceThreshold ==
  ASSUME SessionOK
  PROVE  /\ shape = "none" => ServiceMinSigners = Cardinality(Signers)
         /\ shape = "dealer" => ServiceMinSigners = MinSigners
         /\ shape = "participants" => ServiceMinSigners = N
         /\ VerificationShares = <<>> <=> shape = "none"
<1>1. MinSigners \in Nat \ {0} /\ N \in Nat \ {0} /\ Ids = 1 .. N
  BY Constants DEF Ids
<1>2. CASE shape = "none"
  BY <1>2 DEF ServiceMinSigners, VerificationShares
<1>3. ASSUME NEW n \in Nat \ {0}, DOMAIN VerificationShares = 1 .. n,
             VerificationShares \in Seq({VerificationShares[j] : j \in 1 .. n})
      PROVE  VerificationShares # <<>> /\ ServiceMinSigners = n
  BY <1>3 DEF ServiceMinSigners
<1>4. CASE shape = "dealer"
  <2> DEFINE F(j) == [id |-> j - 1, key |-> Randomized(ScalarBaseMult(poly[j]))]
  <2>1. VerificationShares = [j \in 1 .. MinSigners |-> F(j)]
    BY <1>4 DEF VerificationShares
  <2> HIDE DEF F
  <2> QED BY <1>1, <1>3, <1>4, <2>1
<1>5. CASE shape = "participants"
  <2> DEFINE F(i) == [id |-> i, key |-> Randomized(ScalarBaseMult(Evaluate(poly, i)))]
  <2>1. VerificationShares = [i \in 1 .. N |-> F(i)]
    BY <1>1, <1>5 DEF VerificationShares
  <2> HIDE DEF F
  <2> QED BY <1>1, <1>3, <1>5, <2>1
<1> QED BY <1>2, <1>4, <1>5 DEF SessionOK

Succeeded == outcome.err = ""

\* The fields of an outcome.
LEMMA AnswerFields ==
  ASSUME NEW name, NEW err, NEW blamed, NEW total, outcome = AnswerWith(name, err, blamed, total)
  PROVE  /\ outcome.strategy = name /\ outcome.err = err
         /\ outcome.culprits = IF err = "culprits" THEN blamed ELSE {}
         /\ outcome.R = IF err = "" THEN GroupCommitment ELSE Identity
         /\ outcome.z = IF err = "" THEN total ELSE 0
BY DEF AnswerWith

\* An aggregator that answers without an error.
LEMMA AnsweredWell ==
  ASSUME NEW name, NEW strategy, NEW min \in Nat, Answered(name, strategy, min), SessionOK,
         Succeeded
  PROVE  /\ Len(received) >= min /\ Culprits(strategy) = {}
         /\ GroupCommitment # Identity
         /\ outcome.R = GroupCommitment /\ outcome.z = Sum(received)
<1>1. Len(received) \in Nat
  BY ReceivedSeq
<1>2. AnswerError(strategy, min) = ""
  BY AnswerFields DEF Answered, Succeeded
<1>3. ~(Len(received) < min) /\ GroupCommitment # Identity /\ Culprits(strategy) = {}
  BY <1>2 DEF AnswerError
<1>4. Len(received) >= min
  BY <1>1, <1>3
<1> QED BY <1>2, <1>3, <1>4, AnswerFields DEF Answered

\* The service that answers without an error.
LEMMA ServedWell ==
  ASSUME ServiceAnswered, SessionOK, Succeeded
  PROVE  /\ AllSign /\ GroupCommitment # Identity
         /\ Cardinality(Signers) >= ServiceMinSigners \/ ServiceMinSigners \notin Nat
         /\ outcome.R = GroupCommitment /\ outcome.z = Sum(received)
<1>1. PICK order \in Bijection(1 .. Cardinality(Signers), Signers) :
        /\ received = IF Cardinality(Signers) >= 2 /\ AllSign THEN ServiceShares(order) ELSE <<>>
        /\ outcome = AnswerWith("Service", ServiceError, {}, Sum(ServiceShares(order)))
  BY DEF ServiceAnswered
<1>2. ServiceError = ""
  BY <1>1, AnswerFields DEF Succeeded
<1>3. /\ AllSign /\ GroupCommitment # Identity
      /\ ~(Cardinality(Signers) < 2) /\ ~(Cardinality(Signers) < ServiceMinSigners)
  BY <1>2 DEF ServiceError
<1>4. Cardinality(Signers) \in Nat
  BY SignerSet
<1>5. Cardinality(Signers) >= ServiceMinSigners \/ ServiceMinSigners \notin Nat
  BY <1>3, <1>4
<1>6. received = ServiceShares(order)
  BY <1>1, <1>3, <1>4
<1>7. outcome.R = GroupCommitment /\ outcome.z = Sum(ServiceShares(order))
  BY <1>1, <1>2, AnswerFields
<1> QED BY <1>3, <1>5, <1>6, <1>7

\* Who the outcome is from.
LEMMA OutcomeFrom ==
  ASSUME SigningInv, phase = "done"
  PROVE  \/ /\ outcome.strategy \in Strategies
            /\ Answered(outcome.strategy, outcome.strategy, MinSigners)
         \/ outcome.strategy = "Map" /\ Answered("Map", "FirstCheater", Len(received))
         \/ outcome.strategy = "Service" /\ ServiceAnswered
<1>1. CASE \E strategy \in Strategies : Answered(strategy, strategy, MinSigners)
  BY <1>1, AnswerFields DEF Answered
<1>2. CASE Answered("Map", "FirstCheater", Len(received))
  BY <1>2, AnswerFields DEF Answered
<1>3. CASE ServiceAnswered
  BY <1>3, AnswerFields DEF ServiceAnswered
<1> QED BY <1>1, <1>2, <1>3 DEF SigningInv, OutcomeOK

\* The invariant implies the property.
LEMMA InvQuorumSigns ==
  ASSUME SigningInv
  PROVE  QuorumSigns
<1> SUFFICES ASSUME phase = "done", OneShareEach
             PROVE  /\ /\ Cardinality(Signers) >= MinSigners
                       /\ \A k \in DOMAIN received : FromRoundTwo(received[k])
                       /\ GroupCommitment # Identity
                       /\ IF shape = "participants"
                            THEN outcome.strategy = "Service" => Signers = Ids
                            ELSE outcome.strategy \in {"Disabled", "Service"}
                       => Succeeded /\ Verify(outcome.R, outcome.z)
                    /\ /\ shape = "participants" /\ Succeeded
                       /\ outcome.strategy \in {"FirstCheater", "AllCheaters"}
                       => Verify(outcome.R, outcome.z)
  BY DEF QuorumSigns, Succeeded
<1>1. SessionOK /\ Len(received) \in Nat /\ Len(received) = Cardinality(Signers) /\ MinSigners \in Nat
      /\ shape \in {"none", "dealer", "participants"}
  BY Constants DEF SigningInv, SessionOK, OneShareEach
<1>2. \/ /\ outcome.strategy \in Strategies
         /\ Answered(outcome.strategy, outcome.strategy, MinSigners)
      \/ outcome.strategy = "Map" /\ Answered("Map", "FirstCheater", Len(received))
      \/ outcome.strategy = "Service" /\ ServiceAnswered
  BY OutcomeFrom
<1>3. ASSUME Cardinality(Signers) >= MinSigners,
             \A k \in DOMAIN received : FromRoundTwo(received[k]),
             GroupCommitment # Identity,
             IF shape = "participants" THEN outcome.strategy = "Service" => Signers = Ids
             ELSE outcome.strategy \in {"Disabled", "Service"}
      PROVE  Succeeded /\ Verify(outcome.R, outcome.z)
  <2>1. CASE /\ outcome.strategy \in Strategies
             /\ Answered(outcome.strategy, outcome.strategy, MinSigners)
    <3>1. Culprits(outcome.strategy) = {}
      <4>1. CASE outcome.strategy = "Disabled"
        BY <4>1 DEF Culprits
      <4>2. CASE outcome.strategy \in {"FirstCheater", "AllCheaters"}
        <5>1. shape = "participants"
          BY <1>1, <1>3, <4>2
        <5> QED BY <1>1, <1>3, <4>2, <5>1, NobodyBlamed
      <4> QED BY <2>1, <4>1, <4>2 DEF Strategies
    <3>2. AnswerError(outcome.strategy, MinSigners) = ""
      <4>1. outcome.strategy # "Disabled" => VerificationShares # <<>>
        BY <1>1, <1>3, <2>1, ServiceThreshold DEF Strategies
      <4> QED BY <1>1, <1>3, <3>1, <4>1 DEF AnswerError
    <3>3. Succeeded
      BY <2>1, <3>2, AnswerFields DEF Answered, Succeeded
    <3>4. outcome.R = GroupCommitment /\ outcome.z = Sum(received)
      BY <1>1, <2>1, <3>3, AnsweredWell
    <3> QED BY <1>1, <1>3, <3>3, <3>4, QuorumVerifies
  <2>2. CASE outcome.strategy = "Map" /\ Answered("Map", "FirstCheater", Len(received))
    <3>1. Culprits("FirstCheater") = {}
      <4>1. shape = "participants"
        BY <1>1, <1>3, <2>2
      <4> QED BY <1>1, <1>3, <4>1, NobodyBlamed
    <3>2. AnswerError("FirstCheater", Len(received)) = ""
      <4>1. VerificationShares # <<>>
        BY <1>1, <1>3, <2>2, ServiceThreshold
      <4> QED BY <1>1, <1>3, <3>1, <4>1 DEF AnswerError
    <3>3. Succeeded
      BY <2>2, <3>2, AnswerFields DEF Answered, Succeeded
    <3>4. outcome.R = GroupCommitment /\ outcome.z = Sum(received)
      BY <1>1, <2>2, <3>3, AnsweredWell
    <3> QED BY <1>1, <1>3, <3>3, <3>4, QuorumVerifies
  <2>3. CASE outcome.strategy = "Service" /\ ServiceAnswered
    <3>1. ServiceMinSigners <= Cardinality(Signers)
      <4>1. shape = "participants" => Cardinality(Signers) = N
        BY <1>1, <1>3, <2>3, Constants
      <4> QED BY <1>1, <1>3, <4>1, ServiceThreshold, Constants
    <3>2. Cardinality(Signers) >= 2 /\ ServiceMinSigners \in Nat
      BY <1>1, <1>3, Constants, ServiceThreshold
    <3>3. ServiceError = ""
      <4>1. AllSign
        BY <1>1, <1>3 DEF AllSign, LongEnough, SessionOK
      <4> QED BY <1>1, <1>3, <3>1, <3>2, <4>1 DEF ServiceError
    <3>4. Succeeded
      BY <2>3, <3>3, AnswerFields DEF ServiceAnswered, Succeeded
    <3>5. outcome.R = GroupCommitment /\ outcome.z = Sum(received)
      BY <1>1, <2>3, <3>4, ServedWell
    <3> QED BY <1>1, <1>3, <3>4, <3>5, QuorumVerifies
  <2> QED BY <1>2, <2>1, <2>2, <2>3
<1>4. ASSUME shape = "participants", Succeeded,
             outcome.strategy \in {"FirstCheater", "AllCheaters"}
      PROVE  Verify(outcome.R, outcome.z)
  <2>1. Answered(outcome.strategy, outcome.strategy, MinSigners)
    BY <1>2, <1>4
  <2>2. /\ Len(received) >= MinSigners /\ Culprits(outcome.strategy) = {}
        /\ GroupCommitment # Identity
        /\ outcome.R = GroupCommitment /\ outcome.z = Sum(received)
    BY <1>1, <1>4, <2>1, AnsweredWell
  <2>3. \A k \in DOMAIN received : FromRoundTwo(received[k])
    BY <1>1, <1>4, <2>2, NobodyBlamed
  <2> QED BY <1>1, <2>2, <2>3, QuorumVerifies
<1> QED BY <1>3, <1>4

\* The invariant implies the property.
LEMMA InvBlameIsExact ==
  ASSUME SigningInv
  PROVE  BlameIsExact
<1> DEFINE wrong == {k \in DOMAIN received : ~FromRoundTwo(received[k])}
           first == {received[k].id : k \in {j \in wrong : \A l \in wrong : j <= l}}
           all == {received[k].id : k \in wrong}
<1>1. SessionOK /\ Len(received) \in Nat /\ received \in Seq(Share) /\ MinSigners \in Nat
  BY Constants DEF SigningInv, SessionOK
<1>2. PeersBlame
  BY <1>1, PeersExact
<1>3. ASSUME phase = "done", shape = "participants", outcome.err \in {"", "culprits"}
      PROVE  /\ outcome.strategy = "AllCheaters" => outcome.culprits = all
             /\ outcome.strategy \in {"FirstCheater", "Map"} => outcome.culprits = first
  <2>1. Rejected = wrong
    <3>1. \A k \in DOMAIN received : ShareAccepted(received[k]) <=> FromRoundTwo(received[k])
      BY <1>1, <1>3, ReceivedSeq, AcceptedExact
    <3> QED BY <3>1 DEF Rejected
  <2>2. Culprits("AllCheaters") = all /\ Culprits("FirstCheater") = first
    BY <2>1 DEF Culprits
  <2>3. \/ /\ outcome.strategy \in Strategies
           /\ Answered(outcome.strategy, outcome.strategy, MinSigners)
        \/ outcome.strategy = "Map" /\ Answered("Map", "FirstCheater", Len(received))
        \/ outcome.strategy = "Service" /\ ServiceAnswered
    BY <1>3, OutcomeFrom
  <2>4. ASSUME NEW name, NEW strategy, NEW min \in Nat, Answered(name, strategy, min)
        PROVE  outcome.culprits = Culprits(strategy)
    <3>1. CASE Succeeded
      <4>1. AnswerError(strategy, min) = ""
        BY <2>4, <3>1, AnswerFields DEF Answered, Succeeded
      <4>2. Culprits(strategy) = {}
        BY <1>1, <2>4, <3>1, AnsweredWell
      <4> QED BY <2>4, <4>1, <4>2, AnswerFields DEF Answered
    <3>2. CASE outcome.err = "culprits"
      <4>1. AnswerError(strategy, min) = "culprits"
        BY <2>4, <3>2, AnswerFields DEF Answered
      <4> QED BY <2>4, <4>1, AnswerFields DEF Answered
    <3> QED BY <1>3, <3>1, <3>2 DEF Succeeded
  <2> HIDE DEF wrong, first, all
  <2>5. outcome.strategy = "AllCheaters" => outcome.culprits = all
    BY <1>1, <2>2, <2>3, <2>4
  <2>6. outcome.strategy = "FirstCheater" => outcome.culprits = first
    BY <1>1, <2>2, <2>3, <2>4
  <2>7. outcome.strategy = "Map" => outcome.culprits = first
    <3>1. outcome.strategy = "Map" => Answered("Map", "FirstCheater", Len(received))
      BY <2>3 DEF Strategies
    <3> QED BY <1>1, <2>2, <2>4, <3>1
  <2> QED BY <2>5, <2>6, <2>7
<1> QED BY <1>2, <1>3 DEF BlameIsExact, AggregatorsBlame

\* The invariant implies the property.
LEMMA InvNoSignatureBelowThreshold ==
  ASSUME SigningInv
  PROVE  NoSignatureBelowThreshold
<1> DEFINE ids == [k \in DOMAIN received |-> received[k].id]
           checked == shape = "participants" /\ outcome.strategy \notin {"Disabled", "Service"}
<1> SUFFICES ASSUME phase = "done", Succeeded,
                    \/ checked /\ \E k \in DOMAIN received : threshold[received[k].id] > 0
                    \/ checked /\ outcome.strategy # "Map" /\ IsInjective(ids)
                    \/ /\ outcome.strategy = "Service"
                       /\ shape # "none" \/ \E i \in Signers : threshold[i] > 0
             PROVE  Cardinality(Signers) >= MinSigners
  BY DEF NoSignatureBelowThreshold, Succeeded
<1>1. SessionOK /\ SharesEarned /\ Len(received) \in Nat /\ received \in Seq(Share)
      /\ MinSigners \in Nat /\ MinSigners >= 2 /\ N \in Nat /\ MinSigners <= N
      /\ DOMAIN received = 1 .. Len(received)
      /\ IsFiniteSet(Signers) /\ Cardinality(Signers) \in Nat
  BY Constants, ReceivedSeq, SignerSet DEF SigningInv
<1>2. \/ /\ outcome.strategy \in Strategies
         /\ Answered(outcome.strategy, outcome.strategy, MinSigners)
      \/ outcome.strategy = "Map" /\ Answered("Map", "FirstCheater", Len(received))
      \/ outcome.strategy = "Service" /\ ServiceAnswered
  BY OutcomeFrom
<1>3. ASSUME NEW i \in Ids, LongEnough(i), threshold[i] > 0
      PROVE  Cardinality(Signers) >= MinSigners
  <2>1. threshold[i] = MinSigners
    BY <1>1, <1>3 DEF SessionOK
  <2> QED BY <1>3, <2>1 DEF LongEnough
<1>4. ASSUME checked
      PROVE  \A k \in DOMAIN received : FromRoundTwo(received[k])
  <2>1. ASSUME NEW name, NEW strategy \in {"FirstCheater", "AllCheaters"}, NEW min \in Nat,
               Answered(name, strategy, min)
        PROVE  \A k \in DOMAIN received : FromRoundTwo(received[k])
    BY <1>1, <1>4, <2>1, AnsweredWell, NobodyBlamed
  <2>2. CASE outcome.strategy = "Map"
    <3>1. Answered("Map", "FirstCheater", Len(received))
      BY <1>2, <2>2 DEF Strategies
    <3> QED BY <1>1, <2>1, <3>1
  <2>3. CASE outcome.strategy # "Map"
    <3>1. /\ outcome.strategy \in {"FirstCheater", "AllCheaters"}
          /\ Answered(outcome.strategy, outcome.strategy, MinSigners)
      BY <1>2, <1>4, <2>3 DEF Strategies
    <3> QED BY <1>1, <2>1, <3>1
  <2> QED BY <2>2, <2>3
<1>5. CASE checked /\ \E k \in DOMAIN received : threshold[received[k].id] > 0
  <2>1. PICK k \in DOMAIN received : threshold[received[k].id] > 0
    BY <1>5
  <2>2. FromRoundTwo(received[k]) /\ received[k].id \in Ids
    BY <1>1, <1>4, <1>5, ReceivedSeq DEF Share
  <2>3. LongEnough(received[k].id)
    BY <1>1, <2>2 DEF SharesEarned
  <2> QED BY <1>3, <2>1, <2>2, <2>3
<1>6. CASE checked /\ outcome.strategy # "Map" /\ IsInjective(ids)
  <2>1. Answered(outcome.strategy, outcome.strategy, MinSigners)
    BY <1>2, <1>6
  <2>2. Len(received) >= MinSigners
    BY <1>1, <2>1, AnsweredWell
  <2>3. ids \in Injection(1 .. Len(received), Signers)
    <3>1. ids \in [1 .. Len(received) -> Signers]
      BY <1>1, <1>4, <1>6 DEF FromRoundTwo
    <3> QED BY <1>6, <3>1 DEF Injection
  <2> HIDE DEF ids
  <2>4. Cardinality(1 .. Len(received)) <= Cardinality(Signers)
    BY <1>1, <2>3, FS_Injection
  <2>5. Cardinality(1 .. Len(received)) = Len(received)
    BY <1>1, FS_Interval
  <2> QED BY <1>1, <2>2, <2>4, <2>5
<1>7. CASE /\ outcome.strategy = "Service"
           /\ shape # "none" \/ \E i \in Signers : threshold[i] > 0
  <2>1. ServiceAnswered
    BY <1>2, <1>7 DEF Strategies
  <2>2. AllSign /\ (Cardinality(Signers) >= ServiceMinSigners \/ ServiceMinSigners \notin Nat)
    BY <1>1, <2>1, ServedWell
  <2>3. CASE \E i \in Signers : threshold[i] > 0
    BY <1>1, <1>3, <2>2, <2>3 DEF AllSign, SessionOK
  <2>4. CASE shape # "none"
    <3>1. ServiceMinSigners \in {MinSigners, N}
      BY <1>1, <2>4, ServiceThreshold DEF SessionOK
    <3> QED BY <1>1, <2>2, <3>1
  <2> QED BY <1>7, <2>3, <2>4
<1> QED BY <1>5, <1>6, <1>7

\* The invariant implies the property.
LEMMA InvBatchAgrees ==
  ASSUME SigningInv
  PROVE  BatchAgrees
<1> DEFINE c == oracle.challenge
           item == [key |-> GroupPublicKey, R |-> outcome.R, z |-> outcome.z, challenge |-> c]
           secret == SAdd(poly[1], randomizer)
           goodz == SAdd(1, SMul(c, secret))
           good == [item EXCEPT !.R = ScalarBaseMult(1), !.z = goodz]
<1> SUFFICES ASSUME phase = "done", Succeeded, NEW blinds \in [1 .. 2 -> Blinds]
             PROVE  /\ VerifyAll(<<item, good>>, blinds) <=> Verify(item.R, item.z)
                    /\ VerifyAll(<<good, item>>, blinds) <=> Verify(item.R, item.z)
  BY DEF BatchAgrees, Succeeded
<1>1. SessionOK /\ MinSigners \in Nat /\ Len(received) \in Nat /\ c \in Scalar /\ GroupPublicKey # Identity
  BY Constants, ReceivedSeq DEF SigningInv, SessionOK
<1>2. outcome.R = GroupCommitment /\ outcome.z = Sum(received) /\ GroupCommitment # Identity
  BY <1>1, OutcomeFrom, AnsweredWell, ServedWell
<1>3. outcome.R \in Scalar /\ GroupPublicKey \in Scalar /\ secret \in Scalar
      /\ GroupPublicKey = ScalarBaseMult(secret)
  BY <1>1, <1>2, GroupParts
<1>4. outcome.z \in Scalar
  <2> DEFINE W == [k \in DOMAIN received |-> received[k].z]
  <2>1. W \in [DOMAIN received -> Scalar]
    BY <1>1, ReceivedSeq DEF Share
  <2>2. IsFiniteSet(DOMAIN received)
    BY <1>1, ReceivedSeq, FS_Interval
  <2> QED BY <1>2, <2>1, <2>2, SSumType DEF Sum
<1>5. ScalarBaseMult(1) \in Scalar /\ ScalarBaseMult(1) # 0 /\ ScalarBaseMult(1) = SMul(G, 1)
  BY BaseMult, ScalarInt
<1>6. SMul(c, secret) \in Scalar /\ goodz \in Scalar
  <2>1. SMul(c, secret) \in Scalar
    BY <1>1, <1>3, OpType, ScalarInt
  <2> QED BY <2>1, OpType, ScalarInt
<1> HIDE DEF secret, goodz, c
<1>7. item \in Item /\ good \in Item
  BY <1>1, <1>3, <1>4, <1>5, <1>6 DEF Item
<1>8. /\ item.key = GroupPublicKey /\ item.R = outcome.R /\ item.z = outcome.z /\ item.challenge = c
      /\ good.key = GroupPublicKey /\ good.R = ScalarBaseMult(1) /\ good.z = goodz
      /\ good.challenge = c
  OBVIOUS
<1> HIDE DEF item, good
<1>9. VerifySingle(good)
  <2>1. LeftSide(good) = SAdd(SMul(G, 1), SMul(G, SMul(c, secret)))
    <3>1. SMul(c, secret) \in Int /\ 1 \in Int /\ G \in Int
      BY <1>6, ScalarInt
    <3>2. SMul(G, SAdd(1, SMul(c, secret))) = SAdd(SMul(G, 1), SMul(G, SMul(c, secret)))
      BY <3>1, Distribute
    <3> QED BY <1>8, <3>2 DEF LeftSide, goodz
  <2>2. RightSide(good) = SAdd(SMul(G, 1), SMul(SMul(G, secret), c))
    <3>1. GroupPublicKey = SMul(G, secret)
      BY <1>3, BaseMult
    <3> QED BY <1>5, <1>8, <3>1 DEF RightSide
  <2>3. SMul(G, SMul(c, secret)) = SMul(SMul(G, secret), c)
    <3>1. G \in Int /\ c \in Int /\ secret \in Int
      BY <1>1, <1>3, ScalarInt
    <3>2. SMul(c, secret) = SMul(secret, c) /\ SMul(G, SMul(secret, c)) = SMul(SMul(G, secret), c)
      BY <3>1, Commute, MulAssoc
    <3> QED BY <3>2
  <2> QED BY <1>7, <2>1, <2>2, <2>3, ItemSides
<1>10. blinds \in [1 .. 2 -> Scalar] /\ blinds[1] # 0 /\ blinds[2] # 0
  BY SigningAssumptions
<1>11. Verify(item.R, item.z) <=> VerifySingle(item)
  BY <1>1, <1>2, <1>8 DEF Verify, VerifySingle, c
<1>12. Addable(item) /\ Addable(good)
  BY <1>1, <1>2, <1>5, <1>8, ScalarInt DEF Addable
<1>13. /\ VerifyAll(<<item, good>>, blinds) <=> BatchVerify(<<item, good>>, blinds)
       /\ VerifyAll(<<good, item>>, blinds) <=> BatchVerify(<<good, item>>, blinds)
  <2>1. ASSUME NEW x, NEW y, Addable(x), Addable(y)
        PROVE  VerifyAll(<<x, y>>, blinds) <=> BatchVerify(<<x, y>>, blinds)
    BY <2>1 DEF VerifyAll
  <2> QED BY <1>12, <2>1
<1> QED BY <1>7, <1>9, <1>10, <1>11, <1>13, BatchDecides

-----------------------------------------------------------------------------
(* The invariant is inductive.                                             *)

\* Everything a share, a commitment or a key is computed from stays the same.
SameSession == UNCHANGED <<poly, shape, threshold, nonces, oracle, randomizer>>

\* What does not change while the session does not.
LEMMA Frozen ==
  ASSUME SameSession
  PROVE  /\ Signers' = Signers
         /\ GroupPublicKey' = GroupPublicKey
         /\ GroupCommitment' = GroupCommitment
         /\ \A i : LongEnough(i)' <=> LongEnough(i)
         /\ AllSign' <=> AllSign
         /\ VerificationShares' = VerificationShares
         /\ ServiceMinSigners' = ServiceMinSigners
         /\ \A i : HonestShare(i)' = HonestShare(i)
<1>1. Signers' = Signers
  BY DEF SameSession, Signers
<1>2. GroupPublicKey' = GroupPublicKey
  BY DEF SameSession, GroupPublicKey, RandomizedVerifyingKey
<1>3. \A i : BoundCommitment(i)' = BoundCommitment(i)
  BY DEF SameSession, BoundCommitment, HidingNonceCommitment, BindingNonceCommitment
<1>4. GroupCommitment' = GroupCommitment
  BY <1>1, <1>3 DEF GroupCommitment
<1>5. (\A i : LongEnough(i)' <=> LongEnough(i)) /\ (AllSign' <=> AllSign)
  BY <1>1 DEF SameSession, LongEnough, AllSign
<1>6. VerificationShares' = VerificationShares
  BY DEF SameSession, VerificationShares, Randomized
<1>6a. ServiceMinSigners' = ServiceMinSigners
  BY <1>1, <1>6 DEF ServiceMinSigners
<1>7. \A i : HonestShare(i)' = HonestShare(i)
  BY <1>1 DEF SameSession, HonestShare, Lambda, SecretShare
<1> QED BY <1>1, <1>2, <1>4, <1>5, <1>6, <1>6a, <1>7

\* What the aggregator does with the shares it has stays the same, too.
LEMMA FrozenShares ==
  ASSUME SameSession, received' = received
  PROVE  /\ Culprits("Disabled")' = Culprits("Disabled")
         /\ Culprits("FirstCheater")' = Culprits("FirstCheater")
         /\ Culprits("AllCheaters")' = Culprits("AllCheaters")
         /\ Sum(received)' = Sum(received)
<1>1. \A i : BoundCommitment(i)' = BoundCommitment(i)
  BY DEF SameSession, BoundCommitment, HidingNonceCommitment, BindingNonceCommitment
<1>2. \A i : Lambda(i)' = Lambda(i)
  BY DEF SameSession, Lambda, Signers
<1>3. \A i, k : ExpectedElement(i, k)' = ExpectedElement(i, k)
  BY <1>1, <1>2 DEF SameSession, ExpectedElement
<1>4. \A id : KeysOf(id)' = KeysOf(id)
  BY Frozen DEF KeysOf
<1>5. \A s : ShareAccepted(s)' <=> ShareAccepted(s)
  BY <1>3, <1>4, Frozen DEF ShareAccepted
<1>6. Rejected' = Rejected
  BY <1>5 DEF Rejected
<1>7. Sum(received)' = Sum(received)
  BY DEF Sum
<1> QED BY <1>6, <1>7 DEF Culprits

\* A step that keeps the session and the shares well formed.
LEMMA SessionKept ==
  ASSUME SessionOK, SameSession, phase' \in {"sign", "done"}, received' \in Seq(Share)
  PROVE  SessionOK'
BY Frozen DEF SessionOK, SameSession

\* The invariant holds when a session begins.
LEMMA SigningInit == Init => SigningInv
<1> SUFFICES ASSUME Init PROVE SigningInv
  OBVIOUS
<1>1. poly \in Polynomials /\ poly \in [1 .. MinSigners -> Scalar] /\ poly[1] # 0
      /\ poly[1] \in Scalar
  BY SharingAssumptions, SigningAssumptions, Constants DEF Init
<1>2. GroupPublicKey # Identity
  <2>1. SAdd(poly[1], 0) = poly[1] /\ ScalarBaseMult(poly[1]) # 0
    BY <1>1, Units, BaseMult
  <2>2. ScalarBaseMult(poly[1]) \in Scalar /\ ScalarBaseMult(0) = 0
    BY <1>1, BaseMult, ScalarInt
  <2>3. EAdd(ScalarBaseMult(poly[1]), 0) = SAdd(ScalarBaseMult(poly[1]), 0)
    BY <2>2, ElementOps, ScalarInt
  <2>4. SAdd(ScalarBaseMult(poly[1]), 0) = ScalarBaseMult(poly[1])
    BY <2>2, Units
  <2>5. GroupPublicKey = EAdd(ScalarBaseMult(poly[1]), ScalarBaseMult(0))
    BY DEF GroupPublicKey, RandomizedVerifyingKey, Init
  <2> QED BY ScalarInt, <2>5, <2>1, <2>2, <2>3, <2>4
<1>3. Signers = {} /\ received = <<>> /\ received \in Seq(Share) /\ phase = "commit" /\ randomizer = 0
  BY DEF Init, Signers
<1>4. shape \in {"none", "dealer", "participants"} /\ oracle.rho \in [Ids -> Scalar]
      /\ threshold \in [Ids -> {0, MinSigners}] /\ oracle.challenge \in Scalar
  BY SigningAssumptions DEF Init
<1>5. SessionOK
  BY <1>1, <1>2, <1>3, <1>4, ScalarInt DEF SessionOK
<1>6. SharesEarned /\ OutcomeOK
  BY <1>3 DEF SharesEarned, OutcomeOK
<1> QED BY <1>5, <1>6 DEF SigningInv

\* A commitment keeps the invariant.
LEMMA RoundOneKeeps ==
  ASSUME SigningInv, NEW i \in Ids, NEW pair \in Nonces, RoundOne(i, pair)
  PROVE  SigningInv'
<1>1. SessionOK /\ phase' = "commit" /\ received' = <<>> /\ randomizer' = 0
      /\ phase = "commit" /\ received = <<>> /\ randomizer = 0
  BY DEF SigningInv, SessionOK, RoundOne
<1>2. pair[1] \in Scalar /\ pair[2] \in Scalar
  BY SigningAssumptions
<1>3. Signers' = Signers \cup {i} /\ \A j \in Signers' : nonces'[j] = IF j = i THEN pair ELSE nonces[j]
  BY DEF RoundOne, Signers
<1>4. Signers' \subseteq Ids
  BY <1>1, <1>3 DEF SessionOK
<1>5. \A j \in Signers' : nonces'[j][1] \in Scalar /\ nonces'[j][2] \in Scalar
  BY <1>1, <1>2, <1>3 DEF SessionOK
<1>6. GroupPublicKey' # Identity
  BY <1>1 DEF SessionOK, GroupPublicKey, RandomizedVerifyingKey, RoundOne
<1>7. received' \in Seq(Share)
  BY <1>1
<1>8. SessionOK'
  BY <1>1, <1>4, <1>5, <1>6, <1>7 DEF SessionOK, RoundOne
<1>9. SharesEarned'
  BY <1>1 DEF SharesEarned
<1>10. OutcomeOK'
  BY <1>1 DEF OutcomeOK
<1> QED BY <1>8, <1>9, <1>10 DEF SigningInv

\* Fixing the list of commitments keeps the invariant.
LEMMA FixListKeeps ==
  ASSUME SigningInv, FixList
  PROVE  SigningInv'
<1>1. SessionOK /\ received' = <<>> /\ phase' = "sign" /\ SameSession
  BY DEF SigningInv, SessionOK, FixList, SameSession
<1>2. SessionOK'
  BY <1>1, SessionKept
<1>3. SharesEarned'
  BY <1>1 DEF SharesEarned
<1>4. OutcomeOK'
  BY <1>1 DEF OutcomeOK
<1> QED BY <1>2, <1>3, <1>4 DEF SigningInv

\* Randomizing the key keeps the invariant.
LEMMA ComputeRandomizerKeeps ==
  ASSUME SigningInv, NEW r \in Randomizers, ComputeRandomizer(r)
  PROVE  SigningInv'
<1>1. SessionOK /\ received' = <<>> /\ phase' = "sign" /\ randomizer' = r /\ r \in Scalar
      /\ RandomizedVerifyingKey(r) # Identity /\ UNCHANGED <<poly, shape, threshold, nonces, oracle>>
  BY SigningAssumptions DEF SigningInv, ComputeRandomizer
<1>2. GroupPublicKey' = RandomizedVerifyingKey(r)
  BY <1>1 DEF GroupPublicKey, RandomizedVerifyingKey
<1>3. Signers' = Signers /\ received' \in Seq(Share)
  BY <1>1 DEF Signers
<1>4. SessionOK'
  BY <1>1, <1>2, <1>3 DEF SessionOK
<1>5. SharesEarned'
  BY <1>1 DEF SharesEarned
<1>6. OutcomeOK'
  BY <1>1 DEF OutcomeOK
<1> QED BY <1>4, <1>5, <1>6 DEF SigningInv

\* The arrival of a share, right or wrong, keeps the invariant.
LEMMA ReceiveKeeps ==
  ASSUME SigningInv, NEW i \in Ids, NEW error \in Errors \cup {0}, Receive(i, error)
  PROVE  SigningInv'
<1> DEFINE s == [id |-> i, z |-> IF i \in Signers THEN SAdd(HonestShare(i), error) ELSE error]
<1>1. SessionOK /\ SharesEarned /\ phase' = "sign" /\ SameSession
      /\ received' = Append(received, s)
  BY DEF SigningInv, Receive, SameSession
<1>2. error \in Scalar /\ (error = 0 => i \in Signers /\ LongEnough(i))
  BY SigningAssumptions, ScalarInt DEF Receive
<1>3. i \in Signers => HonestShare(i) \in Scalar /\ SAdd(HonestShare(i), error) \in Scalar
  <2>1. i \in Signers => HonestShare(i) \in Scalar
    BY <1>1, ShareSplit
  <2> QED BY <1>2, <2>1, OpType, ScalarInt
<1>4. s \in Share /\ s.id = i /\ (i \in Signers => s.z = SAdd(HonestShare(i), error))
  BY <1>2, <1>3 DEF Share
<1>5. FromRoundTwo(s) => LongEnough(s.id)
  <2> SUFFICES ASSUME i \in Signers, s.z = HonestShare(i) PROVE LongEnough(i)
    BY <1>4 DEF FromRoundTwo
  <2>1. SAdd(HonestShare(i), error) = HonestShare(i)
    BY <1>4
  <2>2. error = 0
    BY <1>2, <1>3, <2>1, AddNothing
  <2> QED BY <1>2, <2>2
<1> HIDE DEF s
<1>6. received' \in Seq(Share)
  BY <1>1, <1>4, ReceivedSeq
<1>7. SessionOK'
  BY <1>1, <1>6, SessionKept
<1>8. \A k \in DOMAIN received' : FromRoundTwo(received'[k]) => LongEnough(received'[k].id)
  <2>1. received \in Seq(Share) /\ \A k \in DOMAIN received :
          FromRoundTwo(received[k]) => LongEnough(received[k].id)
    BY <1>1, ReceivedSeq DEF SharesEarned
  <2>2. DOMAIN received' = 1 .. Len(received) + 1 /\ received'[Len(received) + 1] = s
        /\ \A k \in 1 .. Len(received) : received'[k] = received[k]
    BY <1>1, <1>4, <2>1
  <2> QED BY <1>5, <2>1, <2>2
<1>9. SharesEarned'
  <2>1. \A x : FromRoundTwo(x)' <=> FromRoundTwo(x)
    BY <1>1, Frozen DEF FromRoundTwo
  <2>2. \A x : LongEnough(x)' <=> LongEnough(x)
    BY <1>1, Frozen
  <2> QED BY <1>8, <2>1, <2>2 DEF SharesEarned
<1>10. OutcomeOK'
  BY <1>1 DEF OutcomeOK
<1> QED BY <1>7, <1>9, <1>10 DEF SigningInv

\* The shares the aggregator has were earned before, too.
LEMMA SharesKept ==
  ASSUME SharesEarned, SameSession, received' = received
  PROVE  SharesEarned'
<1>1. \A x : FromRoundTwo(x)' <=> FromRoundTwo(x)
  BY Frozen DEF FromRoundTwo
<1>2. \A x : LongEnough(x)' <=> LongEnough(x)
  BY Frozen
<1> QED BY <1>1, <1>2 DEF SharesEarned

\* Aggregation answers as the invariant says, for every strategy.
LEMMA AggregateKeeps ==
  ASSUME SigningInv, NEW name,
         NEW strategy \in Strategies, NEW min \in Nat, AggregateWith(name, strategy, min)
  PROVE  SessionOK' /\ SharesEarned' /\ Answered(name, strategy, min)'
<1>1. SessionOK /\ SharesEarned /\ phase' = "done" /\ SameSession /\ received' = received
  BY DEF SigningInv, AggregateWith, SameSession
<1>2. received \in Seq(Share) /\ Len(received) \in Nat
  BY <1>1, ReceivedSeq
<1>3. SessionOK'
  BY <1>1, <1>2, SessionKept
<1>4. SharesEarned'
  BY <1>1, SharesKept
<1>5. outcome' = AnswerWith(name, AnswerError(strategy, min), Culprits(strategy), Sum(received))
  <2> DEFINE err == IF Len(received) < min THEN "insufficient"
                    ELSE IF strategy # "Disabled" /\ VerificationShares = <<>>
                           THEN "parameters"
                    ELSE IF GroupCommitment = Identity THEN "identity"
                    ELSE IF Culprits(strategy) # {} THEN "culprits" ELSE ""
  <2>1. err = AnswerError(strategy, min)
    BY Zenon DEF AnswerError
  <2>2. outcome' = [strategy |-> name, err |-> err,
                    culprits |-> IF err = "culprits" THEN Culprits(strategy) ELSE {},
                    R |-> IF err = "" THEN GroupCommitment ELSE Identity,
                    z |-> IF err = "" THEN Sum(received) ELSE 0]
    BY Zenon DEF AggregateWith
  <2> HIDE DEF err
  <2> QED BY <2>1, <2>2 DEF AnswerWith
<1>6. /\ GroupCommitment' = GroupCommitment /\ Culprits(strategy)' = Culprits(strategy)
      /\ Sum(received)' = Sum(received) /\ VerificationShares' = VerificationShares
  BY <1>1, Frozen, FrozenShares DEF Strategies
<1>7. AnswerError(strategy, min)' = AnswerError(strategy, min)
  BY <1>1, <1>6 DEF AnswerError
<1>8. Answered(name, strategy, min)'
  BY <1>5, <1>6, <1>7 DEF Answered, AnswerWith
<1> QED BY <1>3, <1>4, <1>8

\* The signing service keeps the invariant.
LEMMA ServiceKeeps ==
  ASSUME SigningInv, NEW order \in Bijection(1 .. Cardinality(Signers), Signers),
         ServiceSign(order)
  PROVE  SigningInv'
<1> DEFINE shares == ServiceShares(order)
<1>1. SessionOK /\ phase' = "done" /\ SameSession
      /\ received' = IF Cardinality(Signers) >= 2 /\ AllSign THEN shares ELSE <<>>
  BY DEF SigningInv, ServiceSign, SameSession, ServiceShares
<1>2. shares \in Seq(Share) /\ Len(shares) = Cardinality(Signers) /\ <<>> \in Seq(Share)
  BY <1>1, ServiceReceived
<1>3. outcome' = AnswerWith("Service", ServiceError, {}, Sum(shares))
  <2> DEFINE err == IF Cardinality(Signers) < 2 THEN "insufficient"
                    ELSE IF ~AllSign THEN "refused"
                    ELSE IF Len(shares) < ServiceMinSigners THEN "insufficient"
                    ELSE IF GroupCommitment = Identity THEN "identity" ELSE ""
  <2>1. err = ServiceError
    BY <1>2 DEF ServiceError
  <2>2. outcome' = [strategy |-> "Service", err |-> err, culprits |-> {},
                    R |-> IF err = "" THEN GroupCommitment ELSE Identity,
                    z |-> IF err = "" THEN Sum(shares) ELSE 0]
    BY Zenon DEF ServiceSign, ServiceShares
  <2> HIDE DEF err, shares
  <2> QED BY <2>1, <2>2 DEF AnswerWith
<1>4. received' \in Seq(Share)
  BY <1>1, <1>2
<1>5. SessionOK'
  BY <1>1, <1>4, SessionKept
<1>6. SharesEarned'
  <2>1. \A x : LongEnough(x)' <=> LongEnough(x)
    BY <1>1, Frozen
  <2>2. CASE Cardinality(Signers) >= 2 /\ AllSign
    <3>1. \A k \in DOMAIN shares : shares[k].id \in Signers
      BY DEF ServiceShares, Bijection, Injection
    <3> QED BY <1>1, <2>1, <2>2, <3>1 DEF SharesEarned, AllSign
  <2>3. CASE ~(Cardinality(Signers) >= 2 /\ AllSign)
    <3>1. DOMAIN received' = {}
      BY <1>1, <2>3
    <3> QED BY <3>1 DEF SharesEarned
  <2> QED BY <2>2, <2>3
<1>7. /\ Signers' = Signers /\ GroupCommitment' = GroupCommitment
      /\ AllSign' <=> AllSign
      /\ ServiceMinSigners' = ServiceMinSigners
      /\ \A i : HonestShare(i)' = HonestShare(i)
  BY <1>1, Frozen
<1>8. ServiceError' = ServiceError
  BY <1>7 DEF ServiceError
<1>9. \A o : ServiceShares(o)' = ServiceShares(o)
  BY <1>7 DEF ServiceShares
<1>10. Sum(shares)' = Sum(shares)
  BY <1>9 DEF Sum
<1>11. AnswerWith("Service", ServiceError, {}, Sum(shares))'
         = AnswerWith("Service", ServiceError, {}, Sum(shares))
  BY <1>7, <1>8, <1>10 DEF AnswerWith
<1>12. ServiceAnswered'
  <2>1. Bijection(1 .. Cardinality(Signers), Signers)' = Bijection(1 .. Cardinality(Signers), Signers)
    BY <1>7
  <2>2. received' = IF Cardinality(Signers)' >= 2 /\ AllSign'
                      THEN ServiceShares(order)' ELSE <<>>
    BY <1>1, <1>7, <1>9
  <2>3. outcome' = AnswerWith("Service", ServiceError, {}, Sum(ServiceShares(order)))'
    BY <1>3, <1>11
  <2> QED BY <2>1, <2>2, <2>3 DEF ServiceAnswered
<1> QED BY <1>5, <1>6, <1>12 DEF SigningInv, OutcomeOK

\* Steps that change nothing keep the invariant.
LEMMA SigningStutter ==
  ASSUME SigningInv, UNCHANGED vars
  PROVE  SigningInv'
<1>1. SessionOK /\ SharesEarned /\ OutcomeOK /\ SameSession /\ received' = received
      /\ phase' = phase /\ outcome' = outcome
  BY DEF SigningInv, vars, SameSession
<1>2. /\ Signers' = Signers /\ GroupPublicKey' = GroupPublicKey
      /\ GroupCommitment' = GroupCommitment
      /\ AllSign' <=> AllSign
      /\ ServiceMinSigners' = ServiceMinSigners
      /\ VerificationShares' = VerificationShares
      /\ \A i : HonestShare(i)' = HonestShare(i)
  BY <1>1, Frozen
<1>3. SessionOK'
  BY <1>1, <1>2 DEF SessionOK, SameSession
<1>4. SharesEarned'
  BY <1>1, SharesKept
<1>5. \A strategy \in Strategies : Culprits(strategy)' = Culprits(strategy)
  BY <1>1, FrozenShares DEF Strategies
<1>6. \A name, min : \A strategy \in Strategies :
        Answered(name, strategy, min)' <=> Answered(name, strategy, min)
  <2>1. \A min : \A strategy \in Strategies :
          AnswerError(strategy, min)' = AnswerError(strategy, min)
    BY <1>1, <1>2, <1>5 DEF AnswerError
  <2>2. Sum(received)' = Sum(received)
    BY <1>1, FrozenShares
  <2> QED BY <1>1, <1>2, <1>5, <2>1, <2>2, ZenonT(40) DEF Answered, AnswerWith
<1>7. Answered("Map", "FirstCheater", Len(received)) => Answered("Map", "FirstCheater", Len(received))'
  <2>1. AnswerError("FirstCheater", Len(received))' = AnswerError("FirstCheater", Len(received))
    BY <1>1, <1>2, <1>5 DEF AnswerError, Strategies
  <2>2. Sum(received)' = Sum(received)
    BY <1>1, FrozenShares
  <2> QED BY <1>1, <1>2, <1>5, <2>1, <2>2 DEF Answered, AnswerWith, Strategies
<1>8. ServiceAnswered => ServiceAnswered'
  <2>1. ServiceError' = ServiceError
    BY <1>2 DEF ServiceError
  <2>2. \A o : ServiceShares(o)' = ServiceShares(o)
    BY <1>2 DEF ServiceShares
  <2>3. \A o : Sum(ServiceShares(o))' = Sum(ServiceShares(o))
    BY <2>2 DEF Sum
  <2>4. \A o : AnswerWith("Service", ServiceError, {}, Sum(ServiceShares(o)))'
          = AnswerWith("Service", ServiceError, {}, Sum(ServiceShares(o)))
    BY <1>2, <2>1, <2>3 DEF AnswerWith
  <2> QED BY <1>1, <1>2, <2>2, <2>4 DEF ServiceAnswered
<1>9. OutcomeOK'
  BY <1>1, <1>6, <1>7, <1>8 DEF OutcomeOK
<1> QED BY <1>3, <1>4, <1>9 DEF SigningInv

\* SigningInv is inductive.
LEMMA SigningStep == SigningInv /\ [Next]_vars => SigningInv'
<1> SUFFICES ASSUME SigningInv, [Next]_vars PROVE SigningInv'
  OBVIOUS
<1>1. MinSigners \in Nat /\ Len(received) \in Nat
  BY Constants, ReceivedSeq DEF SigningInv
<1>2. CASE \E i \in Ids, pair \in Nonces : RoundOne(i, pair)
  BY <1>2, RoundOneKeeps
<1>3. CASE FixList
  BY <1>3, FixListKeeps
<1>4. CASE Aggregate
  <2>1. AggregateWith("Map", "FirstCheater", Len(received)) /\ received' = received
    BY <1>4 DEF Aggregate, AggregateWith
  <2>2. SessionOK' /\ SharesEarned' /\ Answered("Map", "FirstCheater", Len(received))'
    <3>1. ASSUME NEW min \in Nat, min = Len(received)
          PROVE  SessionOK' /\ SharesEarned' /\ Answered("Map", "FirstCheater", min)'
      <4>1. AggregateWith("Map", "FirstCheater", min)
        BY <2>1, <3>1
      <4> QED BY <4>1, AggregateKeeps DEF Strategies
    <3>2. Len(received)' = Len(received)
      BY <2>1
    <3> QED BY <1>1, <3>1, <3>2 DEF Answered, AnswerError
  <2> QED BY <2>2 DEF SigningInv, OutcomeOK
<1>5. CASE RerandomizedAggregate
  <2>1. SessionOK' /\ SharesEarned' /\ Answered("FirstCheater", "FirstCheater", MinSigners)'
    BY <1>1, <1>5, AggregateKeeps DEF RerandomizedAggregate, Strategies
  <2> QED BY <2>1 DEF SigningInv, OutcomeOK, Strategies
<1>6. CASE \E order \in Bijection(1 .. Cardinality(Signers), Signers) : ServiceSign(order)
  BY <1>6, ServiceKeeps
<1>7. CASE \E r \in Randomizers : ComputeRandomizer(r)
  BY <1>7, ComputeRandomizerKeeps
<1>8. CASE \E i \in Ids, error \in Errors \cup {0} : Receive(i, error)
  BY <1>8, ReceiveKeeps
<1>9. CASE \E strategy \in Strategies : AggregateWithStrategy(strategy)
  <2>1. PICK strategy \in Strategies : AggregateWith(strategy, strategy, MinSigners)
    BY <1>9 DEF AggregateWithStrategy
  <2>2. SessionOK' /\ SharesEarned' /\ Answered(strategy, strategy, MinSigners)'
    BY <1>1, <2>1, AggregateKeeps
  <2> QED BY <2>2 DEF SigningInv, OutcomeOK
<1>10. CASE UNCHANGED vars
  BY <1>10, SigningStutter
<1> QED BY <1>2, <1>3, <1>4, <1>5, <1>6, <1>7, <1>8, <1>9, <1>10 DEF Next

-----------------------------------------------------------------------------
(* The theorems.                                                           *)

\* SigningInv is an invariant.
LEMMA SigningInvariant == Spec => []SigningInv
<1>1. Init => SigningInv
  BY SigningInit
<1>2. SigningInv /\ [Next]_vars => SigningInv'
  BY SigningStep
<1> QED BY <1>1, <1>2, PTL DEF Spec

\* For every group order, threshold and number of participants, whatever
\* the key, the nonces and the hash outputs: the shares of a quorum, each
\* arriving once, add up to a signature that verifies under the group key
\* or the randomized one, and an aggregation that checks shares returns no
\* signature that does not.
THEOREM QuorumSignsSafety == Spec => []QuorumSigns
<1>1. SigningInv => QuorumSigns
  BY InvQuorumSigns
<1> QED BY <1>1, SigningInvariant, PTL

\* The strategies of the aggregator, and the checks participants make of each
\* other's shares and of their own key packages, blame exactly the senders
\* of wrong shares.
THEOREM BlameSafety == Spec => []BlameIsExact
<1>1. SigningInv => BlameIsExact
  BY InvBlameIsExact
<1> QED BY <1>1, SigningInvariant, PTL

\* Counting shares instead of signers does no harm where shares are checked:
\* no list shorter than the threshold yields a signature.
THEOREM SigningThresholdSafety == Spec => []NoSignatureBelowThreshold
<1>1. SigningInv => NoSignatureBelowThreshold
  BY InvNoSignatureBelowThreshold
<1> QED BY <1>1, SigningInvariant, PTL

\* Batch verification agrees with single verification whatever blinds are
\* drawn, as long as none is zero.
THEOREM BatchSafety == Spec => []BatchAgrees
<1>1. SigningInv => BatchAgrees
  BY InvBatchAgrees
<1> QED BY <1>1, SigningInvariant, PTL

-----------------------------------------------------------------------------
(* 3. Dkg: what the participants' key packages have in common.             *)

(* The inductive invariant.                                                *)

Others(i) == Ids \ {i}

\* A package somebody's Part1 could have made, or one that is ill-formed.
Sound(pkg) ==
  \/ \E k \in Ids, p \in Polynomials : pkg = PackageOf(k, p)
  \/ pkg \in Malformed
  \/ pkg = NoPackage

\* Who has run Part1 keeps its polynomial; an honest participant announces it.
RoundOneOK ==
  /\ faulty \subseteq Ids
  /\ coefficients \in [Ids -> Polynomials \cup {<<>>}]
  /\ DOMAIN announced = Ids
  /\ \A i \in Ids : Sound(announced[i])
  /\ \A i \in Honest :
       coefficients[i] # <<>> => announced[i] = PackageOf(i, coefficients[i])

\* What a participant has received from the others in round one.
ReceivedOK ==
  /\ DOMAIN round1 = Ids
  /\ \A i \in Ids : DOMAIN round1[i] \subseteq Others(i)
  /\ \A i \in Ids : \A j \in DOMAIN round1[i] :
       /\ coefficients[j] # <<>>
       /\ Sound(round1[i][j])
       /\ broadcast \/ j \in Honest => round1[i][j] = announced[j]

\* Part2 has seen a good package of everybody else, and they stay.
PeersOK ==
  /\ DOMAIN peers = Ids
  /\ \A i \in Ids : peers[i] # {} =>
       /\ coefficients[i] # <<>>
       /\ DOMAIN round1[i] = Others(i)
       /\ BadProofs(i) = {}

\* The shares received; an honest dealer's are those of its polynomial.
SharesOK ==
  /\ DOMAIN round2 = Ids
  /\ \A i \in Ids : DOMAIN round2[i] \subseteq Others(i)
                     /\ round2[i] \in [DOMAIN round2[i] -> Scalar]
  /\ \A i \in Ids : \A j \in DOMAIN round2[i] :
       /\ coefficients[j] # <<>>
       /\ j \in Honest => round2[i][j] = Evaluate(coefficients[j], i)

\* A key package is computed from round one; the secret share, which the
\* shares in hand may no longer add up to, is the one its public share is for.
KeyOf(i) ==
  /\ i \in Honest
  /\ peers[i] # {}
  /\ key[i].groupPublicKey = GroupKey(i)
  /\ key[i].verificationShares = [j \in Ids |-> VerificationShare(i, j)]
  /\ key[i].secretShare \in Scalar
  /\ ScalarBaseMult(key[i].secretShare) = VerificationShare(i, i)

KeysOK == DOMAIN key = Ids /\ \A i \in Ids : HasKey(i) => KeyOf(i)

BlameOK == DOMAIN result = Ids /\ OnlyFaultyBlamed

DkgInv == RoundOneOK /\ ReceivedOK /\ PeersOK /\ SharesOK /\ KeysOK /\ BlameOK

-----------------------------------------------------------------------------
(* Packages.                                                               *)

\* A polynomial and its commitment.
LEMMA PolynomialFacts ==
  ASSUME NEW p \in Polynomials
  PROVE  /\ p \in [1 .. MinSigners -> Scalar] /\ p # <<>>
         /\ CreateCommitments(p) \in [1 .. MinSigners -> Scalar]
         /\ Len(CreateCommitments(p)) = MinSigners
         /\ CreateCommitments(p) # <<>>
<1>1. p \in [1 .. MinSigners -> Scalar] /\ MinSigners \in Nat /\ MinSigners >= 2
  BY SharingAssumptions, Constants
<1>2. 0 \in Scalar
  BY ScalarInt
<1>3. CreateCommitments(p) \in [1 .. MinSigners -> Scalar]
  BY <1>1, <1>2, CommitmentsFit
<1>4. ASSUME NEW f \in [1 .. MinSigners -> Scalar] PROVE Len(f) = MinSigners /\ f # <<>>
  BY <1>1
<1> QED BY <1>1, <1>3, <1>4

\* The package Part1 makes passes the checks of Part2.
LEMMA OwnPackage ==
  ASSUME NEW i \in Ids, NEW p \in Polynomials
  PROVE  /\ PackageOf(i, p).commitment = CreateCommitments(p)
         /\ PackageOf(i, p).proof.by = i
         /\ Len(PackageOf(i, p).commitment) = MinSigners
         /\ VerifyProofOfKnowledge(i, PackageOf(i, p))
<1>1. PackageOf(i, p).commitment = CreateCommitments(p) /\ PackageOf(i, p).proof.by = i
      /\ PackageOf(i, p).proof.of = CreateCommitments(p)[1]
  BY DEF PackageOf
<1> QED BY <1>1, PolynomialFacts DEF VerifyProofOfKnowledge

\* What passes the checks of Part2 was made by its sender's Part1.
LEMMA CheckedPackage ==
  ASSUME NEW j \in Ids, NEW pkg, Sound(pkg), Len(pkg.commitment) = MinSigners,
         VerifyProofOfKnowledge(j, pkg)
  PROVE  \E p \in Polynomials : pkg = PackageOf(j, p)
<1>1. CASE \E k \in Ids, p \in Polynomials : pkg = PackageOf(k, p)
  <2>1. PICK k \in Ids, p \in Polynomials : pkg = PackageOf(k, p)
    BY <1>1
  <2>2. k = j
    BY <2>1, OwnPackage DEF VerifyProofOfKnowledge
  <2> QED BY <2>1, <2>2
<1>2. CASE pkg \in Malformed
  BY <1>2, DkgAssumptions DEF VerifyProofOfKnowledge
<1>3. CASE pkg = NoPackage
  BY <1>3 DEF VerifyProofOfKnowledge, NoPackage
<1> QED BY <1>1, <1>2, <1>3 DEF Sound

\* Everything that is broadcast or sent instead is sound.
LEMMA BroadcastableSound ==
  ASSUME RoundOneOK, NEW i \in Ids, NEW pkg \in Broadcastable(i)
  PROVE  Sound(pkg)
BY DEF RoundOneOK, Broadcastable, Sound

-----------------------------------------------------------------------------
(* What Part3 computes.                                                    *)

\* Multiples of the generator add up.
LEMMA BaseSum ==
  ASSUME NEW S, IsFiniteSet(S), NEW F \in [S -> Scalar], NEW K \in [S -> Scalar],
         \A j \in S : K[j] = ScalarBaseMult(F[j])
  PROVE  SSum(F) \in Scalar /\ ScalarBaseMult(SSum(F)) = SSum(K)
<1>1. SSum(F) \in Scalar
  BY SSumType
<1>2. K = [j \in S |-> SMul(G, F[j])]
  BY BaseMult
<1>3. SSum([j \in S |-> SMul(G, F[j])]) = SMul(G, SSum(F))
  BY SumScale, ScalarInt
<1> QED BY <1>1, <1>2, <1>3, BaseMult

\* The commitments a participant that has passed Part2 holds, and their sum.
LEMMA Commitments ==
  ASSUME DkgInv, NEW i \in Ids, peers[i] # {}
  PROVE  /\ coefficients[i] \in Polynomials
         /\ DOMAIN round1[i] = Others(i)
         /\ \A j \in Others(i) : \E p \in Polynomials : round1[i][j] = PackageOf(j, p)
         /\ AllCommitments(i) \in [Ids -> [1 .. MinSigners -> Scalar]]
         /\ \A j \in Others(i) : AllCommitments(i)[j] = round1[i][j].commitment
         /\ AllCommitments(i)[i] = CreateCommitments(coefficients[i])
<1>1. DOMAIN round1[i] = Others(i) /\ BadProofs(i) = {} /\ coefficients[i] # <<>>
  BY DEF DkgInv, PeersOK
<1>2. coefficients[i] \in Polynomials
  BY <1>1 DEF DkgInv, RoundOneOK
<1>3. ASSUME NEW j \in Others(i) PROVE \E p \in Polynomials : round1[i][j] = PackageOf(j, p)
  <2>1. Sound(round1[i][j]) /\ j \in Ids
    BY <1>1 DEF DkgInv, ReceivedOK, Others
  <2>2. Len(round1[i][j].commitment) = MinSigners /\ VerifyProofOfKnowledge(j, round1[i][j])
    BY <1>1 DEF BadProofs
  <2> QED BY <2>1, <2>2, CheckedPackage
<1>4. ASSUME NEW j \in Others(i) PROVE round1[i][j].commitment \in [1 .. MinSigners -> Scalar]
  <2>1. PICK p \in Polynomials : round1[i][j] = PackageOf(j, p)
    BY <1>3
  <2> QED BY <2>1, OwnPackage, PolynomialFacts DEF Others
<1>5. CreateCommitments(coefficients[i]) \in [1 .. MinSigners -> Scalar]
  BY <1>2, PolynomialFacts
<1>6. Others(i) \cup {i} = Ids /\ i \notin Others(i)
  BY DEF Others
<1>7. AllCommitments(i) = [j \in Ids |-> IF j \in Others(i) THEN round1[i][j].commitment
                                         ELSE CreateCommitments(coefficients[i])]
  BY <1>1, <1>6 DEF AllCommitments
<1> QED BY <1>1, <1>2, <1>3, <1>4, <1>5, <1>6, <1>7

\* The summed commitment is the one of the sum of the polynomials.
LEMMA Summed ==
  ASSUME DkgInv, NEW i \in Ids, peers[i] # {}
  PROVE  /\ SummedCommitment(i) \in [1 .. MinSigners -> Scalar]
         /\ \A x \in Scalar : EvaluateCommitments(SummedCommitment(i), x)
              = SSum([j \in Ids |-> EvaluateCommitments(AllCommitments(i)[j], x)])
<1> DEFINE A == AllCommitments(i)
           Col(k) == [j \in Ids |-> A[j][k]]
<1>1. A \in [Ids -> [1 .. MinSigners -> Scalar]] /\ DOMAIN A = Ids
  BY Commitments
<1>2. IsFiniteSet(Ids) /\ MinSigners \in Nat
  BY Constants
<1> HIDE DEF A
<1>3. SummedCommitment(i) = [k \in 1 .. MinSigners |-> SSum([j \in Ids |-> A[j][k]])]
  BY <1>1, SameSum DEF SummedCommitment, A
<1>4. ASSUME NEW k \in 1 .. MinSigners PROVE SSum([j \in Ids |-> A[j][k]]) \in Scalar
  <2>1. Col(k) \in [Ids -> Scalar]
    BY <1>1
  <2> QED BY <1>2, <2>1, SSumType
<1>5. ASSUME NEW x \in Scalar
      PROVE  EvaluateCommitments(SummedCommitment(i), x)
               = SSum([j \in Ids |-> EvaluateCommitments(A[j], x)])
  <2>1. EvaluateCommitments([k \in 1 .. MinSigners |-> SSum([j \in Ids |-> A[j][k]])], x)
          = SSum([j \in Ids |-> EvaluateCommitments(A[j], x)])
    <3>1. \A C \in [Ids -> [1 .. MinSigners -> Scalar]] : \A y \in Scalar :
            EvaluateCommitments([k \in 1 .. MinSigners |-> SSum([j \in Ids |-> C[j][k]])], y)
              = SSum([j \in Ids |-> EvaluateCommitments(C[j], y)])
      BY <1>2, CommitmentSums, Zenon
    <3> QED BY <1>1, <3>1, Zenon
  <2> QED BY <1>3, <2>1
<1> QED BY <1>3, <1>4, <1>5 DEF A

\* Shares that pass the checks of Part3 add up to the secret share that
\* belongs to the public share computed from round one.
LEMMA ShareSum ==
  ASSUME DkgInv, NEW i \in Ids, peers[i] # {}, DOMAIN round2[i] = Others(i), BadShares(i) = {}
  PROVE  /\ SigningShare(i) \in Scalar
         /\ ScalarBaseMult(SigningShare(i)) = VerificationShare(i, i)
<1> DEFINE A == AllCommitments(i)
           E == [j \in Ids |-> EvaluateCommitments(A[j], i)]
           R == round2[i]
           K == [j \in Ids \ {i} |-> E[j]]
           own == Evaluate(coefficients[i], i)
<1>1. i \in Scalar /\ IsFiniteSet(Ids) /\ MinSigners \in Nat \ {0}
  BY Constants
<1>2. /\ A \in [Ids -> [1 .. MinSigners -> Scalar]]
      /\ A[i] = CreateCommitments(coefficients[i])
      /\ \A j \in Others(i) : A[j] = round1[i][j].commitment
      /\ coefficients[i] \in Polynomials
  BY Commitments
<1>3. E \in [Ids -> Scalar]
  <2>1. ASSUME NEW j \in Ids PROVE EvaluateCommitments(A[j], i) \in Scalar
    BY <1>1, <1>2, CommitmentTerms
  <2> QED BY <2>1
<1>4. R \in [Others(i) -> Scalar] /\ IsFiniteSet(Others(i))
  BY <1>1, FS_Subset DEF DkgInv, SharesOK, Others
<1>5. \A j \in Others(i) : ScalarBaseMult(R[j]) = EvaluateCommitments(A[j], i)
  BY <1>2 DEF BadShares, VerifyShare
<1>6. own \in Scalar /\ ScalarBaseMult(own) = E[i]
  <2>1. coefficients[i] \in [1 .. MinSigners -> Scalar]
    BY <1>2, PolynomialFacts
  <2>2. own \in Scalar
    BY <1>1, <2>1, EvaluateAtZero
  <2>3. EvaluateCommitments(CreateCommitments(coefficients[i]), i) = ScalarBaseMult(own)
    BY <1>1, <2>1, CommitmentsFit
  <2> QED BY <1>2, <2>2, <2>3
<1>7. VerificationShare(i, i) = SSum(E)
  BY <1>1, Summed DEF VerificationShare
<1>8. K \in [Others(i) -> Scalar] /\ \A j \in Others(i) : K[j] = ScalarBaseMult(R[j])
  BY <1>3, <1>5 DEF Others
<1> HIDE DEF A, E, R, K, own
<1>9. SSum(E) = SAdd(E[i], SSum(K))
  BY <1>1, <1>3, SSumStep DEF K
<1>10. SSum(R) \in Scalar /\ ScalarBaseMult(SSum(R)) = SSum(K)
  BY <1>4, <1>8, BaseSum
<1>11. ScalarBaseMult(SAdd(own, SSum(R))) = SAdd(ScalarBaseMult(own), ScalarBaseMult(SSum(R)))
  BY <1>6, <1>10, BaseMult
<1>12. SAdd(own, SSum(R)) \in Scalar
  BY <1>6, <1>10, OpType, ScalarInt
<1>13. SigningShare(i) = SAdd(own, SSum(R))
  BY DEF SigningShare, own, R
<1> QED BY <1>6, <1>7, <1>9, <1>10, <1>11, <1>12, <1>13

-----------------------------------------------------------------------------
(* What the invariant implies.                                             *)

\* When round one is broadcast, everybody sums up the same commitments.
LEMMA SameSummed ==
  ASSUME DkgInv, broadcast, NEW i \in Honest, NEW j \in Honest, peers[i] # {}, peers[j] # {}
  PROVE  SummedCommitment(i) = SummedCommitment(j)
<1>1. ASSUME NEW h \in Honest, peers[h] # {}
      PROVE  AllCommitments(h) = [k \in Ids |-> announced[k].commitment]
  <2>1. h \in Ids
    BY DEF Honest
  <2>2. /\ AllCommitments(h) \in [Ids -> [1 .. MinSigners -> Scalar]]
        /\ \A k \in Others(h) : AllCommitments(h)[k] = round1[h][k].commitment
        /\ AllCommitments(h)[h] = CreateCommitments(coefficients[h])
        /\ coefficients[h] \in Polynomials /\ DOMAIN round1[h] = Others(h)
    BY <1>1, <2>1, Commitments
  <2>3. \A k \in Others(h) : round1[h][k] = announced[k]
    BY <2>1, <2>2 DEF DkgInv, ReceivedOK
  <2>4. announced[h] = PackageOf(h, coefficients[h])
    BY <2>2, PolynomialFacts DEF DkgInv, RoundOneOK
  <2>5. announced[h].commitment = CreateCommitments(coefficients[h])
    BY <2>1, <2>2, <2>4, OwnPackage
  <2>6. \A k \in Ids : AllCommitments(h)[k] = announced[k].commitment
    BY <2>2, <2>3, <2>5 DEF Others
  <2> QED BY <2>2, <2>6
<1>2. AllCommitments(i) = AllCommitments(j)
  BY <1>1
<1> QED BY <1>2 DEF SummedCommitment

\* The invariant implies the property.
LEMMA InvKeyPackagesAgree ==
  ASSUME DkgInv
  PROVE  KeyPackagesAgree
<1>1. ASSUME NEW i \in Honest, HasKey(i) PROVE KeyOf(i) /\ i \in Ids
  BY <1>1 DEF DkgInv, KeysOK, Honest
<1>2. ASSUME NEW i \in Honest, HasKey(i)
      PROVE  key[i].verificationShares[i] = ScalarBaseMult(key[i].secretShare)
  BY <1>1, <1>2 DEF KeyOf
<1>3. ASSUME NEW i \in Honest, NEW j \in Honest, HasKey(i), HasKey(j), broadcast
      PROVE  /\ key[i].groupPublicKey = key[j].groupPublicKey
             /\ key[i].verificationShares = key[j].verificationShares
  <2>1. SummedCommitment(i) = SummedCommitment(j)
    BY <1>1, <1>3, SameSummed DEF KeyOf
  <2>2. /\ key[i].groupPublicKey = SummedCommitment(i)[1]
        /\ key[i].verificationShares
             = [k \in Ids |-> EvaluateCommitments(SummedCommitment(i), k)]
    BY <1>1, <1>3 DEF KeyOf, GroupKey, VerificationShare
  <2>3. /\ key[j].groupPublicKey = SummedCommitment(j)[1]
        /\ key[j].verificationShares
             = [k \in Ids |-> EvaluateCommitments(SummedCommitment(j), k)]
    BY <1>1, <1>3 DEF KeyOf, GroupKey, VerificationShare
  <2> QED BY <2>1, <2>2, <2>3
<1> QED BY <1>2, <1>3 DEF KeyPackagesAgree

\* The invariant implies the property.
LEMMA InvQuorumHoldsSecret ==
  ASSUME DkgInv
  PROVE  QuorumHoldsSecret
<1> SUFFICES ASSUME NEW S \in SUBSET {i \in Honest : HasKey(i)}, broadcast,
                    Cardinality(S) >= MinSigners, NEW i \in S
             PROVE  ScalarBaseMult(Interpolate([j \in S |-> key[j].secretShare]))
                      = key[i].groupPublicKey
  BY DEF QuorumHoldsSecret
<1> DEFINE C == SummedCommitment(i)
           lam(j) == DeriveInterpolatingValue(S, j)
           F == [j \in S |-> SMul(key[j].secretShare, lam(j))]
           K == [j \in S |-> SMul(lam(j), Evaluate(C, j))]
<1>1. \A j \in S : j \in Honest /\ j \in Ids /\ KeyOf(j) /\ peers[j] # {}
  BY DEF DkgInv, KeysOK, KeyOf, Honest
<1>2. C \in [1 .. MinSigners -> Scalar] /\ MinSigners \in Nat \ {0}
  BY <1>1, Summed, Constants
<1>3. S \in SUBSET (Scalar \ {0}) /\ IsFiniteSet(S)
  BY <1>1, Constants, FS_Subset
<1>4. ASSUME NEW j \in S
      PROVE  /\ key[j].secretShare \in Scalar /\ lam(j) \in Scalar /\ Evaluate(C, j) \in Scalar
             /\ ScalarBaseMult(key[j].secretShare) = Evaluate(C, j)
  <2>1. SummedCommitment(j) = C
    BY <1>1, SameSummed
  <2>2. j \in Scalar
    BY <1>3
  <2>3. Evaluate(C, j) = EvaluateCommitments(C, j)
    BY <1>2, <2>2, HornerIsSum
  <2>4. ScalarBaseMult(key[j].secretShare) = EvaluateCommitments(C, j) /\ key[j].secretShare \in Scalar
    BY <1>1, <2>1 DEF KeyOf, VerificationShare
  <2>5. Evaluate(C, j) \in Scalar
    BY <1>2, <2>2, EvaluateAtZero
  <2>6. lam(j) \in Scalar
    BY <1>3, <2>2, DerivedType
  <2> QED BY <2>3, <2>4, <2>5, <2>6
<1>5. F \in [S -> Scalar] /\ K \in [S -> Scalar] /\ \A j \in S : K[j] = ScalarBaseMult(F[j])
  <2>1. ASSUME NEW j \in S
        PROVE  /\ SMul(key[j].secretShare, lam(j)) \in Scalar
               /\ SMul(lam(j), Evaluate(C, j)) \in Scalar
               /\ SMul(lam(j), Evaluate(C, j)) = ScalarBaseMult(SMul(key[j].secretShare, lam(j)))
    <3> DEFINE s == key[j].secretShare
               l == lam(j)
               e == Evaluate(C, j)
    <3>1. s \in Scalar /\ l \in Scalar /\ e \in Scalar /\ ScalarBaseMult(s) = e
      BY <1>4
    <3> HIDE DEF s, l, e
    <3>2. SMul(s, l) \in Scalar /\ SMul(l, e) \in Scalar
      BY <3>1, OpType, ScalarInt
    <3>3. ScalarBaseMult(SMul(s, l)) = SMul(G, SMul(s, l)) /\ e = SMul(G, s)
      BY <3>1, <3>2, BaseMult
    <3>4. s \in Int /\ l \in Int /\ G \in Int /\ e \in Int
      BY <3>1, ScalarInt
    <3>5. SMul(G, SMul(s, l)) = SMul(SMul(G, s), l) /\ SMul(e, l) = SMul(l, e)
      BY <3>4, MulAssoc, Commute
    <3> QED BY <3>2, <3>3, <3>5 DEF s, l, e
  <2> HIDE DEF C, lam
  <2> QED BY <2>1
<1>6. Interpolate([j \in S |-> key[j].secretShare]) = SSum(F)
  BY DEF Interpolate
<1>7. SSum(K) = C[1]
  <2> HIDE DEF C
  <2> QED BY <1>2, <1>3, InterpolateSecret
<1> HIDE DEF F, K
<1>8. ScalarBaseMult(SSum(F)) = SSum(K)
  BY <1>3, <1>5, BaseSum
<1>9. key[i].groupPublicKey = C[1]
  BY <1>1 DEF KeyOf, GroupKey
<1> QED BY <1>6, <1>7, <1>8, <1>9

\* The invariant implies the property.
LEMMA InvContributionsAreOwn ==
  ASSUME DkgInv
  PROVE  ContributionsAreOwn
<1> SUFFICES ASSUME NEW i \in Honest, HasKey(i), NEW j \in DOMAIN round1[i]
             PROVE  round1[i][j] \in {PackageOf(j, p) : p \in Polynomials}
  BY DEF ContributionsAreOwn
<1>1. i \in Ids /\ peers[i] # {}
  BY DEF DkgInv, KeysOK, KeyOf, Honest
<1> QED BY <1>1, Commitments

-----------------------------------------------------------------------------
(* The invariant is inductive.                                             *)

\* The invariant holds when key generation begins.
LEMMA DkgInitial == DkgInit => DkgInv
<1> SUFFICES ASSUME DkgInit PROVE DkgInv
  OBVIOUS
<1>1. RoundOneOK
  <2>1. faulty \subseteq Ids
    BY DkgAssumptions DEF DkgInit
  <2>2. coefficients \in [Ids -> Polynomials \cup {<<>>}] /\ \A i \in Ids : coefficients[i] = <<>>
    BY DEF DkgInit
  <2>3. DOMAIN announced = Ids /\ \A i \in Ids : announced[i] = NoPackage
    BY DEF DkgInit
  <2> QED BY <2>1, <2>2, <2>3 DEF RoundOneOK, Sound, Honest
<1>2. ReceivedOK
  <2>1. DOMAIN round1 = Ids /\ \A i \in Ids : round1[i] = <<>>
    BY DEF DkgInit
  <2>2. \A f : f = <<>> => DOMAIN f = {}
    OBVIOUS
  <2> QED BY <2>1, <2>2 DEF ReceivedOK
<1>3. PeersOK
  BY DEF DkgInit, PeersOK
<1>4. SharesOK
  <2>1. DOMAIN round2 = Ids /\ \A i \in Ids : round2[i] = <<>>
    BY DEF DkgInit
  <2>2. \A f : f = <<>> => f \in [{} -> Scalar] /\ DOMAIN f = {}
    OBVIOUS
  <2> QED BY <2>1, <2>2 DEF SharesOK
<1>5. KeysOK
  BY DEF DkgInit, KeysOK, HasKey
<1>6. BlameOK
  <2>1. \A i \in Ids : result[i].culprit = 0
    BY DEF DkgInit
  <2>2. DOMAIN result = Ids
    BY DEF DkgInit
  <2> QED BY <2>1, <2>2 DEF BlameOK, OnlyFaultyBlamed, Honest
<1> QED BY <1>1, <1>2, <1>3, <1>4, <1>5, <1>6 DEF DkgInv

\* The polynomial and the packages a key was made from are still there.
KeyStays(i) ==
  peers[i] # {} =>
    peers'[i] # {} /\ round1'[i] = round1[i] /\ coefficients'[i] = coefficients[i]

\* So the key packages that were there before are still what they should be.
LEMMA KeysStay ==
  ASSUME DkgInv, key' = key, faulty' = faulty, \A i \in Ids : KeyStays(i)
  PROVE  KeysOK'
<1>1. DOMAIN key' = Ids
  BY DEF DkgInv, KeysOK
<1>2. ASSUME NEW i \in Ids, HasKey(i)' PROVE KeyOf(i)'
  <2>1. HasKey(i) /\ KeyOf(i)
    BY <1>2 DEF HasKey, DkgInv, KeysOK
  <2>2. peers'[i] # {} /\ round1'[i] = round1[i] /\ coefficients'[i] = coefficients[i]
    BY <2>1 DEF KeyStays, KeyOf
  <2>3. AllCommitments(i)' = AllCommitments(i)
    BY <2>2 DEF AllCommitments
  <2>4. SummedCommitment(i)' = SummedCommitment(i)
    BY <2>3 DEF SummedCommitment
  <2>5. GroupKey(i)' = GroupKey(i) /\ \A j : VerificationShare(i, j)' = VerificationShare(i, j)
    BY <2>4 DEF GroupKey, VerificationShare
  <2> QED BY <2>1, <2>2, <2>5 DEF KeyOf, Honest
<1> QED BY <1>1, <1>2 DEF KeysOK

\* Part1 changes nothing anybody has used.
LEMMA Part1Keeps ==
  ASSUME DkgInv, NEW i \in Ids, NEW p \in Polynomials, NEW pkg \in Broadcastable(i),
         Part1(i, p, pkg)
  PROVE  DkgInv'
<1>1. coefficients[i] = <<>> /\ UNCHANGED <<broadcast, faulty, round1, peers, round2, key, result>>
  BY DEF Part1
<1>2. /\ RoundOneOK /\ ReceivedOK /\ PeersOK /\ SharesOK /\ KeysOK /\ BlameOK
      /\ DOMAIN coefficients = Ids /\ DOMAIN announced = Ids
  BY DEF DkgInv, RoundOneOK
<1>3. /\ DOMAIN coefficients' = Ids /\ coefficients'[i] = p
      /\ DOMAIN announced' = Ids /\ announced'[i] = pkg
      /\ \A j \in Ids : j # i => coefficients'[j] = coefficients[j] /\ announced'[j] = announced[j]
  BY <1>2 DEF Part1
<1>4. p # <<>> /\ Sound(pkg) /\ (i \in Honest => pkg = PackageOf(i, p))
  BY <1>2, PolynomialFacts, BroadcastableSound DEF Part1
<1>5. \A j \in Ids : coefficients[j] # <<>> =>
        coefficients'[j] = coefficients[j] /\ announced'[j] = announced[j] /\ coefficients'[j] # <<>>
  BY <1>1, <1>3
<1>6. RoundOneOK'
  <2>1. coefficients' \in [Ids -> Polynomials \cup {<<>>}]
    BY <1>2, <1>3 DEF RoundOneOK, Part1
  <2>2. Honest' = Honest
    BY <1>1 DEF Honest
  <2>3. \A j \in Ids : Sound(announced'[j])
    BY <1>2, <1>3, <1>4 DEF RoundOneOK
  <2>4. \A j \in Honest : coefficients'[j] # <<>> => announced'[j] = PackageOf(j, coefficients'[j])
    BY <1>2, <1>3, <1>4 DEF RoundOneOK, Honest
  <2> QED BY <1>1, <1>2, <1>3, <2>1, <2>2, <2>3, <2>4 DEF RoundOneOK, Sound
<1>7. ReceivedOK'
  BY <1>1, <1>2, <1>5 DEF ReceivedOK, Honest, Others, Sound
<1>8. PeersOK'
  BY <1>1, <1>2, <1>5 DEF PeersOK, BadProofs
<1>9. SharesOK'
  BY <1>1, <1>2, <1>5 DEF SharesOK, Honest, Others
<1>10. KeysOK'
  BY <1>1, <1>2, <1>5, KeysStay DEF KeyStays, PeersOK
<1>11. BlameOK'
  BY <1>1, <1>2 DEF BlameOK, OnlyFaultyBlamed, Honest
<1> QED BY <1>6, <1>7, <1>8, <1>9, <1>10, <1>11 DEF DkgInv

\* A package of round one replaces an earlier one, if Part2 is still to come.
LEMMA DeliverRound1Keeps ==
  ASSUME DkgInv, NEW sender \in Ids, NEW i \in Ids, NEW pkg \in Broadcastable(sender),
         DeliverRound1(sender, i, pkg)
  PROVE  DkgInv'
<1>1. /\ peers[i] = {} /\ sender # i /\ coefficients[sender] # <<>>
      /\ UNCHANGED <<broadcast, faulty, coefficients, announced, peers, round2, key, result>>
      /\ round1' = [round1 EXCEPT ![i] = Put(@, sender, pkg)]
  BY DEF DeliverRound1
<1>2. /\ RoundOneOK /\ ReceivedOK /\ PeersOK /\ SharesOK /\ KeysOK /\ BlameOK
      /\ DOMAIN round1 = Ids
  BY DEF DkgInv, ReceivedOK
<1>3. Sound(pkg) /\ (broadcast \/ sender \in Honest => pkg = announced[sender])
  BY <1>2, BroadcastableSound DEF DeliverRound1, Honest
<1>4. /\ DOMAIN round1' = Ids
      /\ DOMAIN round1'[i] = DOMAIN round1[i] \cup {sender}
      /\ round1'[i][sender] = pkg
      /\ \A j \in DOMAIN round1[i] : j # sender => round1'[i][j] = round1[i][j]
      /\ \A k \in Ids : k # i => round1'[k] = round1[k]
  BY <1>1, <1>2 DEF Put
<1>5. RoundOneOK'
  BY <1>1, <1>2 DEF RoundOneOK, Honest, Sound
<1>6. ReceivedOK'
  <2>1. ASSUME NEW k \in Ids
        PROVE  /\ DOMAIN round1'[k] \subseteq Others(k)
               /\ \A j \in DOMAIN round1'[k] :
                    /\ coefficients[j] # <<>>
                    /\ Sound(round1'[k][j])
                    /\ broadcast \/ j \in Honest => round1'[k][j] = announced[j]
    <3>1. CASE k = i
      BY <1>1, <1>2, <1>3, <1>4, <3>1 DEF ReceivedOK, Others
    <3>2. CASE k # i
      BY <1>2, <1>4, <3>2 DEF ReceivedOK
    <3> QED BY <3>1, <3>2
  <2>2. Honest' = Honest /\ broadcast' = broadcast /\ announced' = announced
        /\ coefficients' = coefficients
    BY <1>1 DEF Honest
  <2> QED BY <1>4, <2>1, <2>2 DEF ReceivedOK, Sound, Others
<1>7. PeersOK'
  <2>1. ASSUME NEW k \in Ids, peers[k] # {} PROVE k # i /\ round1'[k] = round1[k]
    BY <1>1, <1>4, <2>1
  <2> QED BY <1>1, <1>2, <2>1 DEF PeersOK, BadProofs
<1>8. SharesOK'
  BY <1>1, <1>2 DEF SharesOK, Honest, Others
<1>9. KeysOK'
  BY <1>1, <1>4, KeysStay DEF KeyStays
<1>10. BlameOK'
  BY <1>1, <1>2 DEF BlameOK, OnlyFaultyBlamed, Honest
<1> QED BY <1>5, <1>6, <1>7, <1>8, <1>9, <1>10 DEF DkgInv

\* The others' packages are all there when their number is right.
LEMMA EveryoneElse ==
  ASSUME NEW i \in Ids, NEW S, S \subseteq Others(i), Cardinality(S) = N - 1
  PROVE  S = Others(i) /\ S # {}
<1>1. IsFiniteSet(Ids) /\ Cardinality(Ids) = N /\ N \in Nat /\ N >= 2
  BY Constants
<1>2. IsFiniteSet(Others(i)) /\ Cardinality(Others(i)) = N - 1
  BY <1>1, FS_RemoveElement DEF Others
<1>3. S = Others(i)
  BY <1>2, FS_Subset
<1>4. N - 1 # 0
  BY <1>1
<1> QED BY <1>2, <1>3, <1>4, FS_EmptySet

\* Part2 accepts everybody else's package.
LEMMA Part2Keeps ==
  ASSUME DkgInv, NEW i \in Ids, Part2(i)
  PROVE  DkgInv'
<1>1. /\ coefficients[i] # <<>> /\ BadProofs(i) = {} /\ Cardinality(DOMAIN round1[i]) = N - 1
      /\ UNCHANGED <<broadcast, faulty, coefficients, announced, round1, round2, key, result>>
      /\ peers' = [peers EXCEPT ![i] = DOMAIN round1[i]]
  BY DEF Part2
<1>2. /\ RoundOneOK /\ ReceivedOK /\ PeersOK /\ SharesOK /\ KeysOK /\ BlameOK
      /\ DOMAIN peers = Ids
  BY DEF DkgInv, PeersOK
<1>3. DOMAIN round1[i] = Others(i) /\ DOMAIN round1[i] # {}
  BY <1>1, <1>2, EveryoneElse DEF ReceivedOK
<1>4. /\ DOMAIN peers' = Ids /\ peers'[i] = DOMAIN round1[i]
      /\ \A k \in Ids : k # i => peers'[k] = peers[k]
  BY <1>1, <1>2
<1>5. RoundOneOK'
  BY <1>1, <1>2 DEF RoundOneOK, Honest, Sound
<1>6. ReceivedOK'
  BY <1>1, <1>2 DEF ReceivedOK, Honest, Sound, Others
<1>7. PeersOK'
  BY <1>1, <1>2, <1>3, <1>4 DEF PeersOK, BadProofs
<1>8. SharesOK'
  BY <1>1, <1>2 DEF SharesOK, Honest, Others
<1>9. KeysOK'
  BY <1>1, <1>3, <1>4, KeysStay DEF KeyStays
<1>10. BlameOK'
  BY <1>1, <1>2 DEF BlameOK, OnlyFaultyBlamed, Honest
<1> QED BY <1>5, <1>6, <1>7, <1>8, <1>9, <1>10 DEF DkgInv

\* A share of round two replaces an earlier one at any time.
LEMMA DeliverRound2Keeps ==
  ASSUME DkgInv, NEW sender \in Ids, NEW i \in Ids, NEW share \in Scalar,
         DeliverRound2(sender, i, share)
  PROVE  DkgInv'
<1>1. /\ sender # i
      /\ UNCHANGED <<broadcast, faulty, coefficients, announced, round1, peers, key, result>>
      /\ round2' = [round2 EXCEPT ![i] = Put(@, sender, share)]
  BY DEF DeliverRound2
<1>2. /\ RoundOneOK /\ ReceivedOK /\ PeersOK /\ SharesOK /\ KeysOK /\ BlameOK
      /\ DOMAIN round2 = Ids
  BY DEF DkgInv, SharesOK
<1>3. coefficients[sender] # <<>> /\ (sender \in Honest => share = Evaluate(coefficients[sender], i))
  BY <1>2 DEF DeliverRound2, PeersOK, Honest
<1>4. /\ DOMAIN round2' = Ids
      /\ round2'[i] = Put(round2[i], sender, share)
      /\ \A k \in Ids : k # i => round2'[k] = round2[k]
  BY <1>1, <1>2
<1>5. /\ DOMAIN round2'[i] = DOMAIN round2[i] \cup {sender}
      /\ round2'[i][sender] = share
      /\ \A j \in DOMAIN round2[i] : j # sender => round2'[i][j] = round2[i][j]
      /\ round2'[i] \in [DOMAIN round2'[i] -> Scalar]
  BY <1>2, <1>4 DEF Put, SharesOK
<1>6. RoundOneOK'
  BY <1>1, <1>2 DEF RoundOneOK, Honest, Sound
<1>7. ReceivedOK'
  BY <1>1, <1>2 DEF ReceivedOK, Honest, Sound, Others
<1>8. PeersOK'
  BY <1>1, <1>2 DEF PeersOK, BadProofs
<1>9. SharesOK'
  <2>1. ASSUME NEW k \in Ids
        PROVE  /\ DOMAIN round2'[k] \subseteq Others(k)
               /\ round2'[k] \in [DOMAIN round2'[k] -> Scalar]
               /\ \A j \in DOMAIN round2'[k] :
                    /\ coefficients[j] # <<>>
                    /\ j \in Honest => round2'[k][j] = Evaluate(coefficients[j], k)
    <3>1. CASE k = i
      BY <1>1, <1>2, <1>3, <1>5, <3>1 DEF SharesOK, Others
    <3>2. CASE k # i
      BY <1>2, <1>4, <3>2 DEF SharesOK
    <3> QED BY <3>1, <3>2
  <2>2. Honest' = Honest /\ coefficients' = coefficients
    BY <1>1 DEF Honest
  <2> QED BY <1>4, <2>1, <2>2 DEF SharesOK, Others
<1>10. KeysOK'
  BY <1>1, KeysStay DEF KeyStays
<1>11. BlameOK'
  BY <1>1, <1>2 DEF BlameOK, OnlyFaultyBlamed, Honest
<1> QED BY <1>6, <1>7, <1>8, <1>9, <1>10, <1>11 DEF DkgInv

\* Part3 makes a key package.
LEMMA Part3Keeps ==
  ASSUME DkgInv, NEW i \in Ids, Part3(i)
  PROVE  DkgInv'
<1>1. /\ i \in Honest /\ peers[i] # {} /\ BadShares(i) = {}
      /\ UNCHANGED <<broadcast, faulty, coefficients, announced, round1, peers, round2, result>>
  BY DEF Part3
<1>2. DOMAIN round1[i] = DOMAIN round2[i]
  BY DEF Part3, PackagesError
<1>3. key' = [key EXCEPT ![i] =
       [secretShare |-> SigningShare(i), groupPublicKey |-> GroupKey(i),
        verificationShares |-> [j \in DOMAIN AllCommitments(i) |-> VerificationShare(i, j)]]]
  BY DEF Part3
<1>4. /\ RoundOneOK /\ ReceivedOK /\ PeersOK /\ SharesOK /\ KeysOK /\ BlameOK
      /\ DOMAIN key = Ids
  BY DEF DkgInv, KeysOK
<1>5. DOMAIN round2[i] = Others(i) /\ DOMAIN AllCommitments(i) = Ids
  BY <1>1, <1>2, Commitments
<1>6. SigningShare(i) \in Scalar /\ ScalarBaseMult(SigningShare(i)) = VerificationShare(i, i)
  BY <1>1, <1>5, ShareSum
<1>7. /\ DOMAIN key' = Ids
      /\ key'[i].secretShare = SigningShare(i)
      /\ key'[i].groupPublicKey = GroupKey(i)
      /\ key'[i].verificationShares = [j \in Ids |-> VerificationShare(i, j)]
      /\ \A k \in Ids : k # i => key'[k] = key[k]
  BY <1>3, <1>4, <1>5
<1>8. \A k : /\ AllCommitments(k)' = AllCommitments(k)
  BY <1>1 DEF AllCommitments
<1>9. \A k : SummedCommitment(k)' = SummedCommitment(k)
  BY <1>8 DEF SummedCommitment
<1>10. \A k : GroupKey(k)' = GroupKey(k) /\ \A j : VerificationShare(k, j)' = VerificationShare(k, j)
  BY <1>9 DEF GroupKey, VerificationShare
<1>11. KeysOK'
  <2>1. KeyOf(i)'
    BY <1>1, <1>6, <1>7, <1>10 DEF KeyOf, Honest
  <2>2. ASSUME NEW k \in Ids, k # i, HasKey(k)' PROVE KeyOf(k)'
    <3>1. HasKey(k) /\ KeyOf(k) /\ key'[k] = key[k]
      BY <1>4, <1>7, <2>2 DEF HasKey, KeysOK
    <3> QED BY <1>1, <1>10, <3>1 DEF KeyOf, Honest
  <2> QED BY <1>7, <2>1, <2>2 DEF KeysOK
<1>12. RoundOneOK'
  BY <1>1, <1>4 DEF RoundOneOK, Honest, Sound
<1>13. ReceivedOK'
  BY <1>1, <1>4 DEF ReceivedOK, Honest, Sound, Others
<1>14. PeersOK'
  BY <1>1, <1>4 DEF PeersOK, BadProofs
<1>15. SharesOK'
  BY <1>1, <1>4 DEF SharesOK, Honest, Others
<1>16. BlameOK'
  BY <1>1, <1>4 DEF BlameOK, OnlyFaultyBlamed, Honest
<1> QED BY <1>11, <1>12, <1>13, <1>14, <1>15, <1>16 DEF DkgInv

\* A step that leaves everything but one result alone.
LEMMA FailsKeeps ==
  ASSUME DkgInv, NEW i \in Ids, NEW err, NEW culprit, Fails(i, err, culprit),
         culprit # 0 => culprit \in faulty
  PROVE  DkgInv'
<1>1. UNCHANGED <<broadcast, faulty, coefficients, announced, round1, peers, round2, key>>
      /\ result' = [result EXCEPT ![i] = [err |-> err, culprit |-> culprit]]
  BY DEF Fails
<1>2. RoundOneOK /\ ReceivedOK /\ PeersOK /\ SharesOK /\ KeysOK /\ BlameOK
  BY DEF DkgInv
<1>3. RoundOneOK'
  BY <1>1, <1>2 DEF RoundOneOK, Honest, Sound
<1>4. ReceivedOK'
  BY <1>1, <1>2 DEF ReceivedOK, Honest, Sound, Others
<1>5. PeersOK'
  BY <1>1, <1>2 DEF PeersOK, BadProofs
<1>6. SharesOK'
  BY <1>1, <1>2 DEF SharesOK, Honest, Others
<1>7. KeysOK'
  BY <1>1, KeysStay DEF KeyStays
<1>8. BlameOK'
  <2>1. DOMAIN result' = Ids /\ result'[i].culprit = culprit
        /\ \A k \in Ids : k # i => result'[k] = result[k]
    BY <1>1, <1>2 DEF BlameOK
  <2> QED BY <1>1, <1>2, <2>1 DEF BlameOK, OnlyFaultyBlamed, Honest
<1> QED BY <1>3, <1>4, <1>5, <1>6, <1>7, <1>8 DEF DkgInv

\* An honest participant's package is never bad.
LEMMA BadProofsFaulty ==
  ASSUME DkgInv, NEW i \in Ids, NEW j \in BadProofs(i)
  PROVE  j \in faulty
<1>1. j \in DOMAIN round1[i] /\ DOMAIN round1[i] \subseteq Ids
  BY DEF BadProofs, DkgInv, ReceivedOK, Others
<1>2. SUFFICES ASSUME j \in Honest PROVE FALSE
  BY <1>1 DEF Honest
<1>3. coefficients[j] \in Polynomials /\ coefficients[j] # <<>>
  BY <1>1 DEF DkgInv, ReceivedOK, RoundOneOK
<1>4. round1[i][j] = PackageOf(j, coefficients[j])
  BY <1>1, <1>2, <1>3 DEF DkgInv, ReceivedOK, RoundOneOK
<1> QED BY <1>1, <1>3, <1>4, OwnPackage DEF BadProofs

\* Nor is its share.
LEMMA BadSharesFaulty ==
  ASSUME DkgInv, NEW i \in Ids, DOMAIN round1[i] = DOMAIN round2[i], NEW j \in BadShares(i)
  PROVE  j \in faulty
<1>1. j \in DOMAIN round2[i] /\ j \in DOMAIN round1[i] /\ j \in Ids /\ i \in Scalar
      /\ ~VerifyShare(i, j, round2[i][j])
  BY Constants DEF BadShares, DkgInv, ReceivedOK, Others
<1>2. SUFFICES ASSUME j \in Honest PROVE FALSE
  BY <1>1 DEF Honest
<1>3. coefficients[j] \in Polynomials /\ coefficients[j] # <<>>
  BY <1>1 DEF DkgInv, ReceivedOK, RoundOneOK
<1>4. round1[i][j] = PackageOf(j, coefficients[j])
  BY <1>1, <1>2, <1>3 DEF DkgInv, ReceivedOK, RoundOneOK
<1>5. round2[i][j] = Evaluate(coefficients[j], i)
  BY <1>1, <1>2 DEF DkgInv, SharesOK
<1>6. round1[i][j].commitment = CreateCommitments(coefficients[j])
  BY <1>1, <1>3, <1>4, OwnPackage
<1>7. coefficients[j] \in [1 .. MinSigners -> Scalar] /\ MinSigners \in Nat
  BY <1>3, PolynomialFacts, Constants
<1>8. EvaluateCommitments(CreateCommitments(coefficients[j]), i)
        = ScalarBaseMult(Evaluate(coefficients[j], i))
  BY <1>1, <1>7, CommitmentsFit
<1> QED BY <1>1, <1>5, <1>6, <1>8 DEF VerifyShare

\* Steps that change nothing keep the invariant.
LEMMA DkgStutter ==
  ASSUME DkgInv, UNCHANGED dkgVars
  PROVE  DkgInv'
<1>1. UNCHANGED <<broadcast, faulty, coefficients, announced, round1, peers, round2, key, result>>
  BY DEF dkgVars
<1>2. RoundOneOK /\ ReceivedOK /\ PeersOK /\ SharesOK /\ KeysOK /\ BlameOK
  BY DEF DkgInv
<1>3. RoundOneOK'
  BY <1>1, <1>2 DEF RoundOneOK, Honest, Sound
<1>4. ReceivedOK'
  BY <1>1, <1>2 DEF ReceivedOK, Honest, Sound, Others
<1>5. PeersOK'
  BY <1>1, <1>2 DEF PeersOK, BadProofs
<1>6. SharesOK'
  BY <1>1, <1>2 DEF SharesOK, Honest, Others
<1>7. KeysOK'
  BY <1>1, KeysStay DEF KeyStays
<1>8. BlameOK'
  BY <1>1, <1>2 DEF BlameOK, OnlyFaultyBlamed, Honest
<1> QED BY <1>3, <1>4, <1>5, <1>6, <1>7, <1>8 DEF DkgInv

\* DkgInv is inductive.
LEMMA DkgStep == DkgInv /\ [DkgNext]_dkgVars => DkgInv'
<1> SUFFICES ASSUME DkgInv, [DkgNext]_dkgVars PROVE DkgInv'
  OBVIOUS
<1>1. CASE \E i \in Ids, p \in Polynomials : \E pkg \in Broadcastable(i) : Part1(i, p, pkg)
  BY <1>1, Part1Keeps
<1>2. CASE \E sender, i \in Ids : \E pkg \in Broadcastable(sender) : DeliverRound1(sender, i, pkg)
  BY <1>2, DeliverRound1Keeps
<1>3. CASE \E sender, i \in Ids : \E share \in Scalar : DeliverRound2(sender, i, share)
  BY <1>3, DeliverRound2Keeps
<1>4. CASE \E i \in Ids : Part2(i)
  BY <1>4, Part2Keeps
<1>5. CASE \E i \in Ids : Part2Fails(i)
  <2>1. PICK i \in Ids : Part2Fails(i)
    BY <1>5
  <2>2. CASE Fails(i, "count", 0)
    BY <2>2, FailsKeeps
  <2>3. CASE \E j \in BadProofs(i) : Fails(i, "proof", j)
    BY <2>3, FailsKeeps, BadProofsFaulty
  <2> QED BY <2>1, <2>2, <2>3 DEF Part2Fails
<1>6. CASE \E i \in Ids : Part3(i)
  BY <1>6, Part3Keeps
<1>7. CASE \E i \in Ids : Part3Fails(i)
  <2>1. PICK i \in Ids : Part3Fails(i)
    BY <1>7
  <2>2. CASE Fails(i, PackagesError(i), 0)
    BY <2>2, FailsKeeps
  <2>3. CASE PackagesError(i) = "" /\ \E j \in BadShares(i) : Fails(i, "share", j)
    <3>1. DOMAIN round1[i] = DOMAIN round2[i]
      BY <2>3 DEF PackagesError
    <3>2. PICK j \in BadShares(i) : Fails(i, "share", j)
      BY <2>3
    <3> QED BY <3>1, <3>2, FailsKeeps, BadSharesFaulty
  <2> QED BY <2>1, <2>2, <2>3 DEF Part3Fails
<1>8. CASE UNCHANGED dkgVars
  BY <1>8, DkgStutter
<1> QED BY <1>1, <1>2, <1>3, <1>4, <1>5, <1>6, <1>7, <1>8 DEF DkgNext

-----------------------------------------------------------------------------
(* The theorems.                                                           *)

\* DkgInv is an invariant.
LEMMA DkgInvariant == DkgSpec => []DkgInv
<1>1. DkgInit => DkgInv
  BY DkgInitial
<1>2. DkgInv /\ [DkgNext]_dkgVars => DkgInv'
  BY DkgStep
<1> QED BY <1>1, <1>2, PTL DEF DkgSpec

\* For any number of participants, any threshold and any set of faulty ones:
\* honest participants that finish agree on the group public key and the
\* verification shares when round one is broadcast, and in any case hold the
\* secret share that belongs to their own public share.
THEOREM AgreementSafety == DkgSpec => []KeyPackagesAgree
<1>1. DkgInv => KeyPackagesAgree
  BY InvKeyPackagesAgree
<1> QED BY <1>1, DkgInvariant, PTL

\* Any quorum of honest participants that finish holds the secret that
\* belongs to the group public key.
THEOREM SharedSecretSafety == DkgSpec => []QuorumHoldsSecret
<1>1. DkgInv => QuorumHoldsSecret
  BY InvQuorumHoldsSecret
<1> QED BY <1>1, DkgInvariant, PTL

\* No key is built from a contribution its dealer copied or made up.
THEOREM ContributionSafety == DkgSpec => []ContributionsAreOwn
<1>1. DkgInv => ContributionsAreOwn
  BY InvContributionsAreOwn
<1> QED BY <1>1, DkgInvariant, PTL

\* No honest participant is ever named a culprit by Part2 or Part3.
THEOREM CulpritSafety == DkgSpec => []OnlyFaultyBlamed
<1>1. DkgInv => OnlyFaultyBlamed
  BY DEF DkgInv, BlameOK
<1> QED BY <1>1, DkgInvariant, PTL

-----------------------------------------------------------------------------
(* 4. KeyMaintenance: the polynomial every share lies on after refreshes.  *)

(* Interpolation at any point.                                             *)

Coefficients(X, x) == [S \in SUBSET X |-> [i \in X |-> LagrangeCoefficient(S, x, i)]]

\* computeLagrangeCoefficient divides by a scalar other than zero.
LEMMA CoefficientType ==
  ASSUME NEW S \in SUBSET Scalar, IsFiniteSet(S), NEW x \in Scalar, NEW i \in Scalar
  PROVE  /\ SProd([xj \in S \ {i} |-> SSub(x, xj)]) \in Scalar
         /\ SProd([xj \in S \ {i} |-> SSub(i, xj)]) \in Scalar
         /\ SProd([xj \in S \ {i} |-> SSub(i, xj)]) # 0
         /\ LagrangeCoefficient(S, x, i) \in Scalar
<1> DEFINE R == S \ {i}
           F == [xj \in R |-> SSub(x, xj)]
           H == [xj \in R |-> SSub(i, xj)]
<1>1. IsFiniteSet(R)
  BY FS_Subset
<1>2. \A xj \in R : xj \in Int /\ i \in Int /\ x \in Int /\ xj \in Scalar /\ xj # i
  BY ScalarInt
<1>3. \A xj \in R : SSub(x, xj) \in Scalar /\ SSub(i, xj) \in Scalar /\ SSub(i, xj) # 0
  BY <1>2, OpType, SubZero
<1>4. F \in [R -> Scalar] /\ H \in [R -> Scalar] /\ \A xj \in R : H[xj] # 0
  BY <1>3
<1> HIDE DEF F, H, R
<1>5. SProd(F) \in Scalar /\ SProd(H) \in Scalar /\ SProd(H) # 0
  BY <1>1, <1>4, SProdType, ProdNonzero
<1>6. SMul(SProd(F), SInv(SProd(H))) \in Scalar
  BY <1>5, Inverse1, OpType, ScalarInt
<1> QED BY <1>5, <1>6 DEF LagrangeCoefficient, F, H, R

\* computeLagrangeCoefficient computes Lagrange's coefficients at x.
LEMMA CoefficientsAreLagrange ==
  ASSUME NEW X \in SUBSET Scalar, IsFiniteSet(X), NEW x \in Scalar
  PROVE  IsLagrange(X, x, Coefficients(X, x))
<1>0. \A S \in SUBSET X : IsFiniteSet(S) /\ S \in SUBSET Scalar
  BY FS_Subset
<1>1. Coefficients(X, x) \in [SUBSET X -> [X -> Scalar]]
  BY <1>0, CoefficientType DEF Coefficients
<1>2. ASSUME NEW S \in SUBSET X, NEW a \in S, NEW i \in S \ {a}
      PROVE  SMul(SSub(i, a), LagrangeCoefficient(S, x, i)) =
               SMul(SSub(x, a), LagrangeCoefficient(S \ {a}, x, i))
  <2> DEFINE R == S \ {i}
             T == (S \ {a}) \ {i}
             F == [xj \in R |-> SSub(x, xj)]
             H == [xj \in R |-> SSub(i, xj)]
             n == SProd([xj \in T |-> SSub(x, xj)])
             m == SProd([xj \in T |-> SSub(i, xj)])
             v == SSub(i, a)
             w == SSub(x, a)
  <2>1. a \in Scalar /\ i \in Scalar /\ a # i /\ a \in R /\ R \ {a} = T
    OBVIOUS
  <2>2. v \in Scalar /\ v # 0 /\ w \in Scalar
    BY <2>1, OpType, SubZero, ScalarInt
  <2>3. IsFiniteSet(R) /\ F \in [R -> Scalar] /\ H \in [R -> Scalar]
    <3>1. \A xj \in R : xj \in Int /\ i \in Int /\ x \in Int
      BY ScalarInt
    <3> QED BY <1>0, <3>1, OpType, FS_Subset
  <2>4. n \in Scalar /\ m \in Scalar /\ m # 0
    <3> DEFINE Z == S \ {a}
    <3>1. Z \in SUBSET Scalar /\ IsFiniteSet(Z)
      BY <1>0
    <3> HIDE DEF Z
    <3>2. /\ SProd([xj \in Z \ {i} |-> SSub(x, xj)]) \in Scalar
          /\ SProd([xj \in Z \ {i} |-> SSub(i, xj)]) \in Scalar
          /\ SProd([xj \in Z \ {i} |-> SSub(i, xj)]) # 0
      BY <2>1, <3>1, CoefficientType
    <3> QED BY <3>2 DEF Z
  <2>5. SProd(F) = SMul(w, n)
    <3>1. [j \in R \ {a} |-> F[j]] = [xj \in T |-> SSub(x, xj)] /\ F[a] = w
      BY <2>1
    <3> HIDE DEF F
    <3>2. SProd(F) = SMul(F[a], SProd([j \in R \ {a} |-> F[j]]))
      BY <2>1, <2>3, SProdStep
    <3> QED BY <3>1, <3>2
  <2>6. SProd(H) = SMul(v, m)
    <3>1. [j \in R \ {a} |-> H[j]] = [xj \in T |-> SSub(i, xj)] /\ H[a] = v
      BY <2>1
    <3> HIDE DEF H
    <3>2. SProd(H) = SMul(H[a], SProd([j \in R \ {a} |-> H[j]]))
      BY <2>1, <2>3, SProdStep
    <3> QED BY <3>1, <3>2
  <2>7. LagrangeCoefficient(S, x, i) = SMul(SMul(w, n), SInv(SMul(v, m)))
    BY <2>5, <2>6 DEF LagrangeCoefficient
  <2>8. LagrangeCoefficient(S \ {a}, x, i) = SMul(n, SInv(m))
    BY DEF LagrangeCoefficient
  <2> HIDE DEF n, m, v, w
  <2>9. SMul(v, LagrangeCoefficient(S, x, i)) = SMul(w, LagrangeCoefficient(S \ {a}, x, i))
    BY <2>2, <2>4, <2>7, <2>8, Fraction
  <2> QED BY <2>9 DEF v, w
<1>3. \A S \in SUBSET X : \A a \in S : \A i \in S \ {a} :
        SMul(SSub(i, a), Coefficients(X, x)[S][i])
          = SMul(SSub(x, a), Coefficients(X, x)[S \ {a}][i])
  BY <1>2 DEF Coefficients
<1>4. ASSUME NEW a \in X PROVE Coefficients(X, x)[{a}][a] = 1
  <2>1. {a} \ {a} = {}
    OBVIOUS
  <2>2. SProd([xj \in {} |-> SSub(x, xj)]) = 1 /\ SProd([xj \in {} |-> SSub(a, xj)]) = 1
    BY SProdEmpty
  <2>3. LagrangeCoefficient({a}, x, a) = SMul(1, SInv(1))
    BY <2>1, <2>2 DEF LagrangeCoefficient
  <2>4. SMul(1, SInv(1)) = 1
    BY Inverse1, ScalarInt
  <2> QED BY <2>3, <2>4 DEF Coefficients
<1> QED BY <1>1, <1>3, <1>4 DEF IsLagrange

\* The shares of as many helpers as the polynomial has coefficients determine
\* everybody's share.
LEMMA InterpolateShare ==
  ASSUME NEW S \in SUBSET Scalar, IsFiniteSet(S), NEW x \in Scalar,
         NEW n \in Nat, NEW p \in [1 .. n -> Scalar], Cardinality(S) >= n
  PROVE  SSum([i \in S |-> SMul(LagrangeCoefficient(S, x, i), Evaluate(p, i))])
           = Evaluate(p, x)
<1>1. IsLagrange(S, x, Coefficients(S, x))
  BY CoefficientsAreLagrange
<1>2. Weighted(Coefficients(S, x), S, [i \in S |-> Evaluate(p, i)]) = Evaluate(p, x)
  BY <1>1, Interpolation
<1>3. Weighted(Coefficients(S, x), S, [i \in S |-> Evaluate(p, i)]) =
        SSum([i \in S |-> SMul(LagrangeCoefficient(S, x, i), Evaluate(p, i))])
  BY DEF Weighted, Coefficients
<1> QED BY <1>2, <1>3

\* Polynomials add up.
LEMMA EvaluateAdd ==
  ASSUME NEW n \in Nat, NEW p \in [1 .. n -> Scalar], NEW q \in [1 .. n -> Scalar],
         NEW x \in Scalar, NEW r \in [1 .. n -> Scalar],
         \A k \in 1 .. n : r[k] = SAdd(p[k], q[k])
  PROVE  Evaluate(r, x) = SAdd(Evaluate(p, x), Evaluate(q, x))
<1>1. /\ Evaluate(p, x) = SSum(Terms(p, x)) /\ Evaluate(q, x) = SSum(Terms(q, x))
      /\ Evaluate(r, x) = SSum(Terms(r, x)) /\ IsFiniteSet(1 .. n)
      /\ Terms(p, x) \in [1 .. n -> Scalar] /\ Terms(q, x) \in [1 .. n -> Scalar]
      /\ Terms(r, x) \in [1 .. n -> Scalar]
  BY HornerIsSum, CommitmentTerms
<1>2. ASSUME NEW k \in 1 .. n PROVE Terms(r, x)[k] = SAdd(Terms(p, x)[k], Terms(q, x)[k])
  <2>1. Power(x, k - 1) \in Int /\ p[k] \in Int /\ q[k] \in Int
    <3>1. k - 1 \in Nat /\ p[k] \in Scalar /\ q[k] \in Scalar
      OBVIOUS
    <3>2. Power(x, k - 1) \in Scalar
      BY <3>1, PowerStep
    <3> QED BY <3>1, <3>2, ScalarInt
  <2>2. SMul(Power(x, k - 1), SAdd(p[k], q[k]))
          = SAdd(SMul(Power(x, k - 1), p[k]), SMul(Power(x, k - 1), q[k]))
    BY <2>1, Distribute
  <2> QED BY <2>2 DEF Terms
<1>3. Terms(r, x) = [k \in 1 .. n |-> SAdd(Terms(p, x)[k], Terms(q, x)[k])]
  BY <1>1, <1>2
<1>4. SSum([k \in 1 .. n |-> SAdd(Terms(p, x)[k], Terms(q, x)[k])])
        = SAdd(SSum(Terms(p, x)), SSum(Terms(q, x)))
  <2>1. IsFiniteSet(1 .. n)
    BY <1>1
  <2>2. Terms(p, x) \in [1 .. n -> Scalar] /\ Terms(q, x) \in [1 .. n -> Scalar]
    BY <1>1
  <2>3. \A F, H \in [1 .. n -> Scalar] :
          SSum([k \in 1 .. n |-> SAdd(F[k], H[k])]) = SAdd(SSum(F), SSum(H))
    BY <2>1, SumAdds, Zenon
  <2> QED BY <2>2, <2>3, Zenon
<1> QED BY <1>1, <1>3, <1>4

-----------------------------------------------------------------------------
(* The polynomial p with refresh e added to it times[e] times.             *)

Blend(p, refs, times) ==
  [k \in 1 .. MinSigners |->
     SAdd(p[k], SSum([e \in DOMAIN refs |-> SMul(times[e], refs[e][k])]))]

Coeffs == [1 .. MinSigners -> Scalar]

\* Refreshing polynomials, which leave the secret alone.
Refreshing(refs) == refs \in Seq(Coeffs) /\ \A e \in DOMAIN refs : refs[e][1] = 0

\* How often each refresh was applied.
Counts(refs, times) == \A e \in DOMAIN refs : times[e] \in Nat

\* What the refreshes add to coefficient k.
Added(refs, times, k) == [e \in DOMAIN refs |-> SMul(times[e], refs[e][k])]

\* What the refreshes add are scalars.
LEMMA AddedType ==
  ASSUME NEW refs, Refreshing(refs), NEW times, Counts(refs, times), NEW k \in 1 .. MinSigners
  PROVE  /\ IsFiniteSet(DOMAIN refs)
         /\ \A e \in DOMAIN refs : refs[e] \in Coeffs /\ refs[e][k] \in Scalar
         /\ Added(refs, times, k) \in [DOMAIN refs -> Scalar]
         /\ SSum(Added(refs, times, k)) \in Scalar
<1>1. refs \in Seq(Coeffs) /\ DOMAIN refs = 1 .. Len(refs) /\ Len(refs) \in Nat
  BY DEF Refreshing
<1>2. IsFiniteSet(DOMAIN refs)
  BY <1>1, FS_Interval
<1>3. \A e \in DOMAIN refs : refs[e] \in Coeffs /\ refs[e][k] \in Scalar
  <2>1. \A e \in DOMAIN refs : refs[e] \in Coeffs
    BY <1>1
  <2> QED BY <2>1 DEF Coeffs
<1>4. ASSUME NEW e \in DOMAIN refs PROVE SMul(times[e], refs[e][k]) \in Scalar
  <2>0. times[e] \in Nat /\ refs[e][k] \in Scalar
    BY <1>3 DEF Counts
  <2>1. times[e] \in Int
    BY <2>0
  <2>2. refs[e][k] \in Int
    BY <2>0, ScalarInt
  <2> QED BY <2>1, <2>2, OpType
<1>5. Added(refs, times, k) \in [DOMAIN refs -> Scalar]
  BY <1>4 DEF Added
<1> QED BY <1>2, <1>3, <1>5, SSumType

\* A blend is a polynomial with the same constant term.
LEMMA BlendType ==
  ASSUME NEW p \in Coeffs, NEW refs, Refreshing(refs), NEW times, Counts(refs, times)
  PROVE  /\ Blend(p, refs, times) \in Coeffs
         /\ Blend(p, refs, times)[1] = p[1]
         /\ \A k \in 1 .. MinSigners :
              Blend(p, refs, times)[k] = SAdd(p[k], SSum(Added(refs, times, k)))
<1>1. \A k \in 1 .. MinSigners :
        Blend(p, refs, times)[k] = SAdd(p[k], SSum(Added(refs, times, k)))
  BY DEF Blend, Added
<1>2. ASSUME NEW k \in 1 .. MinSigners PROVE SAdd(p[k], SSum(Added(refs, times, k))) \in Scalar
  <2>1. p[k] \in Scalar /\ SSum(Added(refs, times, k)) \in Scalar
    BY AddedType DEF Coeffs
  <2> QED BY <2>1, OpType, ScalarInt
<1>3. Blend(p, refs, times) \in Coeffs
  BY <1>1, <1>2 DEF Blend, Coeffs
<1>4. Blend(p, refs, times)[1] = p[1]
  <2>1. 1 \in 1 .. MinSigners
    BY Constants
  <2>2. ASSUME NEW e \in DOMAIN refs PROVE SMul(times[e], refs[e][1]) = 0
    <3>1. refs[e][1] = 0 /\ times[e] \in Int
      BY DEF Refreshing, Counts
    <3>2. (times[e] * 0) % Q = 0 % Q
      BY <3>1
    <3>3. 0 % Q = 0
      BY ScalarMod, ScalarInt
    <3> QED BY <3>1, <3>2, <3>3 DEF SMul
  <2>3. Added(refs, times, 1) = [e \in DOMAIN refs |-> 0]
    BY <2>2 DEF Added
  <2>4. SSum(Added(refs, times, 1)) = 0
    BY <2>1, <2>3, AddedType, SumZero
  <2>5. p[1] \in Scalar
    BY <2>1 DEF Coeffs
  <2> QED BY <1>1, <2>1, <2>4, <2>5, Units
<1> QED BY <1>1, <1>3, <1>4

\* Maps with the same values are the same.
LEMMA SameMap ==
  ASSUME NEW S, NEW T, NEW f \in [S -> T], NEW g \in [S -> T], \A x \in S : f[x] = g[x]
  PROVE  f = g
OBVIOUS

\* Only the counts of the refreshes there are matter.
LEMMA BlendDepends ==
  ASSUME NEW p, NEW refs, NEW times, NEW other, \A e \in DOMAIN refs : times[e] = other[e]
  PROVE  Blend(p, refs, times) = Blend(p, refs, other)
<1>1. ASSUME NEW k
      PROVE  [e \in DOMAIN refs |-> SMul(times[e], refs[e][k])]
               = [e \in DOMAIN refs |-> SMul(other[e], refs[e][k])]
  OBVIOUS
<1> QED BY <1>1 DEF Blend

\* No refresh applied.
LEMMA BlendNone ==
  ASSUME NEW p \in Coeffs, NEW refs, Refreshing(refs), NEW times,
         \A e \in DOMAIN refs : times[e] = 0
  PROVE  Blend(p, refs, times) = p
<1>1. Counts(refs, times)
  BY DEF Counts
<1>2. ASSUME NEW k \in 1 .. MinSigners PROVE SAdd(p[k], SSum(Added(refs, times, k))) = p[k]
  <2>1. IsFiniteSet(DOMAIN refs) /\ \A e \in DOMAIN refs : refs[e][k] \in Scalar
    BY <1>1, AddedType
  <2>2. Added(refs, times, k) = [e \in DOMAIN refs |-> 0]
    BY <2>1, Units DEF Added
  <2>3. SSum(Added(refs, times, k)) = 0
    BY <2>1, <2>2, SumZero
  <2>4. p[k] \in Scalar
    BY DEF Coeffs
  <2> QED BY <2>3, <2>4, Units
<1>3. Blend(p, refs, times) \in Coeffs
      /\ \A k \in 1 .. MinSigners : Blend(p, refs, times)[k] = p[k]
  BY <1>1, <1>2, BlendType
<1>4. p \in [1 .. MinSigners -> Scalar] /\ Blend(p, refs, times) \in [1 .. MinSigners -> Scalar]
  BY <1>3 DEF Coeffs
<1> DEFINE b == Blend(p, refs, times)
<1>5. b \in [1 .. MinSigners -> Scalar] /\ \A k \in 1 .. MinSigners : b[k] = p[k]
  BY <1>3, <1>4
<1> HIDE DEF b
<1>6. b = p
  <2> DEFINE D == 1 .. MinSigners
  <2>1. b \in [D -> Scalar] /\ p \in [D -> Scalar] /\ \A k \in D : b[k] = p[k]
    BY <1>4, <1>5
  <2> HIDE DEF D
  <2> QED BY <2>1, SameMap
<1> QED BY <1>6 DEF b

\* Once more is one more of the same.
LEMMA TimesOneMore ==
  ASSUME NEW a \in Int, NEW r \in Int
  PROVE  (a + 1) * r = (a * r) + r /\ a * r \in Int
OBVIOUS

\* One refresh applied once more.
LEMMA BlendOnce ==
  ASSUME NEW p \in Coeffs, NEW refs, Refreshing(refs), NEW times, Counts(refs, times),
         NEW e \in DOMAIN refs, NEW more, more[e] = times[e] + 1,
         \A f \in DOMAIN refs \ {e} : more[f] = times[f]
  PROVE  /\ Counts(refs, more)
         /\ \A k \in 1 .. MinSigners :
              Blend(p, refs, more)[k] = SAdd(Blend(p, refs, times)[k], refs[e][k])
<1>1. Counts(refs, more)
  BY DEF Counts
<1>2. ASSUME NEW k \in 1 .. MinSigners
      PROVE  Blend(p, refs, more)[k] = SAdd(Blend(p, refs, times)[k], refs[e][k])
  <2> DEFINE D == DOMAIN refs
             A == Added(refs, times, k)
             B == Added(refs, more, k)
             r == refs[e][k]
             rest == SSum([f \in D \ {e} |-> A[f]])
  <2>1. /\ IsFiniteSet(D) /\ r \in Scalar /\ A \in [D -> Scalar] /\ B \in [D -> Scalar]
        /\ SSum(A) \in Scalar /\ SSum(B) \in Scalar
    BY <1>1, AddedType
  <2>2. [f \in D \ {e} |-> B[f]] = [f \in D \ {e} |-> A[f]]
    BY DEF Added
  <2>3. A[e] = SMul(times[e], r) /\ B[e] = SMul(times[e] + 1, r)
    BY DEF Added
  <2>4. times[e] \in Nat
    BY DEF Counts
  <2>5. p[k] \in Scalar
    BY DEF Coeffs
  <2>6. /\ Blend(p, refs, times)[k] = SAdd(p[k], SSum(A))
        /\ Blend(p, refs, more)[k] = SAdd(p[k], SSum(B))
    BY <1>1, BlendType
  <2> HIDE DEF A, B, r, D
  <2>7. rest \in Scalar
    <3>1. [f \in D \ {e} |-> A[f]] \in [D \ {e} -> Scalar] /\ IsFiniteSet(D \ {e})
      BY <2>1, FS_Subset
    <3> QED BY <3>1, SSumType
  <2>8. SSum(A) = SAdd(A[e], rest) /\ SSum(B) = SAdd(B[e], rest)
    <3>0. e \in D
      BY DEF D
    <3> QED BY <2>1, <2>2, <3>0, SSumStep
  <2> HIDE DEF rest
  <2>9. B[e] = SAdd(A[e], r)
    <3>1. r \in Int /\ times[e] \in Int
      BY <2>1, <2>4, ScalarInt
    <3>2. (times[e] + 1) * r = (times[e] * r) + r /\ times[e] * r \in Int
      BY <3>1, TimesOneMore
    <3>3. (((times[e] * r) % Q) + r) % Q = ((times[e] * r) + r) % Q
      BY <3>1, <3>2, ModAdd
    <3> QED BY <2>3, <3>2, <3>3 DEF SAdd, SMul
  <2>10. A[e] \in Scalar
    BY <2>1 DEF D
  <2>11. /\ A[e] \in Int /\ r \in Int /\ rest \in Int /\ p[k] \in Int
         /\ SAdd(A[e], rest) \in Int /\ SSum(A) \in Int
    BY <2>1, <2>5, <2>7, <2>8, <2>10, ScalarInt, OpType
  <2>12. SAdd(SAdd(A[e], r), rest) = SAdd(SAdd(A[e], rest), r)
    BY <2>11, AddAssoc, Commute
  <2>13. SAdd(p[k], SAdd(SSum(A), r)) = SAdd(SAdd(p[k], SSum(A)), r)
    BY <2>11, AddAssoc
  <2> QED BY <2>6, <2>8, <2>9, <2>12, <2>13 DEF r
<1> QED BY <1>1, <1>2

\* A refresh that nobody applied changes nothing.
LEMMA BlendMore ==
  ASSUME NEW p \in Coeffs, NEW refs, Refreshing(refs), NEW q \in Coeffs, q[1] = 0,
         NEW times, Counts(Append(refs, q), times), times[Len(refs) + 1] = 0
  PROVE  Blend(p, Append(refs, q), times) = Blend(p, refs, times)
<1> DEFINE more == Append(refs, q)
           D == DOMAIN refs
           n == Len(refs) + 1
<1>1. Refreshing(more) /\ DOMAIN more = D \cup {n} /\ n \notin D /\ more[n] = q
      /\ \A e \in D : more[e] = refs[e]
  BY DEF Refreshing
<1>2. Counts(refs, times)
  BY <1>1 DEF Counts
<1>3. ASSUME NEW k \in 1 .. MinSigners
      PROVE  Blend(p, more, times)[k] = Blend(p, refs, times)[k]
  <2> DEFINE A == Added(refs, times, k)
             B == Added(more, times, k)
  <2>1. /\ IsFiniteSet(DOMAIN more) /\ A \in [D -> Scalar] /\ B \in [DOMAIN more -> Scalar]
        /\ SSum(A) \in Scalar /\ SSum(B) \in Scalar
    BY <1>1, <1>2, AddedType
  <2>2. [f \in DOMAIN more \ {n} |-> B[f]] = A
    BY <1>1 DEF Added
  <2>3. B[n] = SMul(0, q[k])
    BY <1>1 DEF Added
  <2>4. q[k] \in Scalar
    BY DEF Coeffs
  <2>5. B[n] = 0
    BY <2>3, <2>4, Units
  <2>6. /\ Blend(p, refs, times)[k] = SAdd(p[k], SSum(A))
        /\ Blend(p, more, times)[k] = SAdd(p[k], SSum(B))
    BY <1>1, <1>2, BlendType
  <2>7. n \in DOMAIN more
    BY <1>1
  <2> HIDE DEF A, B, n, more
  <2>8. SSum(B) = SAdd(B[n], SSum([f \in DOMAIN more \ {n} |-> B[f]]))
    <3>1. \A b \in DOMAIN more : SSum(B) = SAdd(B[b], SSum([f \in DOMAIN more \ {b} |-> B[f]]))
      BY <2>1, SSumSteps, Zenon
    <3> QED BY <2>7, <3>1, Zenon
  <2>9. SSum(B) = SSum(A)
    BY <2>1, <2>2, <2>5, <2>8, Units
  <2> QED BY <2>6, <2>9
<1>4. Blend(p, more, times) \in [1 .. MinSigners -> Scalar]
      /\ Blend(p, refs, times) \in [1 .. MinSigners -> Scalar]
  BY <1>1, <1>2, BlendType DEF Coeffs
<1> DEFINE a == Blend(p, refs, times)
           b == Blend(p, more, times)
<1>6. /\ a \in [1 .. MinSigners -> Scalar] /\ b \in [1 .. MinSigners -> Scalar]
      /\ \A k \in 1 .. MinSigners : b[k] = a[k]
  BY <1>3, <1>4
<1> HIDE DEF a, b
<1>7. b = a
  <2> DEFINE R == 1 .. MinSigners
  <2>1. b \in [R -> Scalar] /\ a \in [R -> Scalar] /\ \A k \in R : b[k] = a[k]
    BY <1>6
  <2> HIDE DEF R
  <2> QED BY <2>1, SameMap
<1>5. Blend(p, more, times) = Blend(p, refs, times)
  BY <1>7 DEF a, b
<1> QED BY <1>5 DEF more

-----------------------------------------------------------------------------
(* The checks of the code, in terms of the polynomial.                     *)

\* The identity in front of the commitment as sent is the commitment of the
\* constant term 0, and the check accepts the value of the polynomial only.
LEMMA RefreshShare ==
  ASSUME NEW p \in Coeffs, p[1] = 0, NEW i \in Scalar, NEW share \in Scalar,
         RefreshVerifies(i, share, p)
  PROVE  share = Evaluate(p, i)
<1> DEFINE c == CreateCommitments(p)
           d == <<Identity>> \o Tail(c)
<1>0. MinSigners \in Nat \ {0} /\ p \in [1 .. MinSigners -> Scalar]
  BY Constants DEF Coeffs
<1>1. /\ c \in [1 .. MinSigners -> Scalar]
      /\ EvaluateCommitments(c, i) = ScalarBaseMult(Evaluate(p, i))
  BY <1>0, CommitmentsFit
<1>2. c[1] = Identity
  <2>1. ScalarBaseMult(0) = 0 /\ Identity = 0
    BY BaseMult, ScalarInt
  <2> QED BY <1>0, <2>1 DEF CreateCommitments
<1>3. c \in Seq(Scalar) /\ Len(c) = MinSigners
  <2> HIDE DEF c
  <2> QED BY <1>0, <1>1
<1> HIDE DEF c
<1>4. d = c
  BY <1>0, <1>2, <1>3
<1>5. ScalarBaseMult(share) = ScalarBaseMult(Evaluate(p, i))
  BY <1>1, <1>4 DEF RefreshVerifies, c
<1>6. Evaluate(p, i) \in Scalar
  BY <1>0, EvaluateAtZero
<1> QED BY <1>5, <1>6, BaseMult

\* The commitment of a blend.
LEMMA CommitmentOfBlend ==
  ASSUME keyPoly \in Coeffs, Refreshing(refreshes), NEW times, Counts(refreshes, times)
  PROVE  CommitmentOf(times) = CreateCommitments(Blend(keyPoly, refreshes, times))
<1> DEFINE b == Blend(keyPoly, refreshes, times)
<1>1. b \in [1 .. MinSigners -> Scalar]
      /\ \A k \in 1 .. MinSigners : b[k] = SAdd(keyPoly[k], SSum(Added(refreshes, times, k)))
  BY BlendType DEF Coeffs
<1>2. ASSUME NEW k \in 1 .. MinSigners
      PROVE  EAdd(ScalarBaseMult(keyPoly[k]),
                  ESum([e \in DOMAIN refreshes |->
                          ScalarBaseMult(times[e] * refreshes[e][k])])) = ScalarBaseMult(b[k])
  <2> DEFINE A == Added(refreshes, times, k)
             D == DOMAIN refreshes
             F == [e \in D |-> ScalarBaseMult(times[e] * refreshes[e][k])]
  <2>1. /\ IsFiniteSet(D) /\ A \in [D -> Scalar] /\ SSum(A) \in Scalar
        /\ \A e \in D : refreshes[e][k] \in Scalar
    BY AddedType
  <2>2. keyPoly[k] \in Scalar
    BY DEF Coeffs
  <2>3. ASSUME NEW e \in D
        PROVE  ScalarBaseMult(times[e] * refreshes[e][k]) = SMul(G, A[e])
    <3>1. times[e] \in Nat /\ refreshes[e][k] \in Scalar
      BY <2>1 DEF Counts
    <3>2. times[e] \in Int
      BY <3>1
    <3>3. refreshes[e][k] \in Int /\ G \in Int
      BY <3>1, ScalarInt
    <3>4. times[e] * refreshes[e][k] \in Int
      BY <3>2, <3>3
    <3>5. ScalarBaseMult(times[e] * refreshes[e][k]) = SMul(G, times[e] * refreshes[e][k])
      BY <3>4, ElementOps
    <3>6. SMul(G, times[e] * refreshes[e][k]) = SMul(times[e] * refreshes[e][k], G)
      BY <3>3, <3>4, Commute
    <3>7. A[e] = (times[e] * refreshes[e][k]) % Q
      BY DEF Added, SMul
    <3>8. SMul(A[e], G) = SMul(times[e] * refreshes[e][k], G)
      BY <3>3, <3>4, <3>7, ModMul DEF SMul
    <3>9. A[e] \in Scalar
      BY <2>1
    <3>10. SMul(A[e], G) = SMul(G, A[e])
      BY <3>9, <3>3, Commute, ScalarInt
    <3> QED BY <3>5, <3>6, <3>8, <3>10
  <2>4. F = [e \in D |-> SMul(G, A[e])]
    BY <2>3
  <2> HIDE DEF A, D, F
  <2>5. SSum([e \in D |-> SMul(G, A[e])]) = SMul(G, SSum(A))
    BY <2>1, SumScale, ScalarInt
  <2>6. ESum(F) = ScalarBaseMult(SSum(A))
    BY <2>1, <2>4, <2>5, SameSum, BaseMult
  <2>7. /\ ScalarBaseMult(SAdd(keyPoly[k], SSum(A)))
             = SAdd(ScalarBaseMult(keyPoly[k]), ScalarBaseMult(SSum(A)))
        /\ ScalarBaseMult(keyPoly[k]) \in Scalar /\ ScalarBaseMult(SSum(A)) \in Scalar
    BY <2>1, <2>2, BaseMult
  <2>8. EAdd(ScalarBaseMult(keyPoly[k]), ScalarBaseMult(SSum(A)))
          = SAdd(ScalarBaseMult(keyPoly[k]), ScalarBaseMult(SSum(A)))
    BY <2>7, ElementOps, ScalarInt
  <2>9. b[k] = SAdd(keyPoly[k], SSum(A))
    BY <1>1 DEF A
  <2>10. EAdd(ScalarBaseMult(keyPoly[k]), ESum(F)) = ScalarBaseMult(b[k])
    BY <2>6, <2>7, <2>8, <2>9
  <2> QED BY <2>10 DEF F, D
<1>3. DOMAIN b = 1 .. MinSigners
  BY <1>1
<1> HIDE DEF b
<1>4. CommitmentOf(times) = [k \in 1 .. MinSigners |-> ScalarBaseMult(b[k])]
  BY <1>2 DEF CommitmentOf
<1>5. CommitmentOf(times) = CreateCommitments(b)
  BY <1>3, <1>4 DEF CreateCommitments
<1> QED BY <1>5 DEF b

\* The deltas of a helper add up to its contribution.
LEMMA DeltasSum ==
  ASSUME NEW H, IsFiniteSet(H), NEW last \in H, NEW random \in [H \ {last} -> Scalar],
         NEW c \in Scalar
  PROVE  /\ Put(random, last, SSub(c, SSum(random))) \in [H -> Scalar]
         /\ SSum(Put(random, last, SSub(c, SSum(random)))) = c
<1> DEFINE R == H \ {last}
           v == SSub(c, SSum(random))
           F == Put(random, last, v)
<1>1. IsFiniteSet(R) /\ random \in [R -> Scalar]
  BY FS_Subset
<1>2. SSum(random) \in Scalar
  BY <1>1, SSumType
<1>3. v \in Scalar /\ SAdd(v, SSum(random)) = c
  <2>1. c \in Int /\ SSum(random) \in Int
    BY <1>2, ScalarInt
  <2> QED BY <1>2, <2>1, OpType, SubAdd
<1> HIDE DEF v
<1>4. F \in [H -> Scalar] /\ F[last] = v /\ [i \in H \ {last} |-> F[i]] = random
  BY <1>3 DEF Put
<1> HIDE DEF F
<1>5. SSum(F) = SAdd(F[last], SSum([i \in H \ {last} |-> F[i]]))
  BY <1>4, SSumStep
<1>6. SSum(F) = c /\ F \in [H -> Scalar]
  BY <1>3, <1>4, <1>5
<1> QED BY <1>6 DEF F, v

\* The sigmas are the column sums of the deltas.
Totals(H, deltas, sigmas) == sigmas = [h \in H |-> SSum([j \in H |-> deltas[j][h]])]

\* The sum of the sigmas is the sum of the contributions.
LEMMA SigmasSum ==
  ASSUME NEW H, IsFiniteSet(H), NEW deltas \in [H -> [H -> Scalar]], NEW sigmas,
         Totals(H, deltas, sigmas)
  PROVE  SSum(sigmas) = SSum([j \in H |-> SSum(deltas[j])]) /\ SSum(sigmas) \in Scalar
<1>1. sigmas = [h \in H |-> SSum([j \in H |-> deltas[j][h]])]
  BY DEF Totals
<1>2. SSum([j \in H |-> SSum(deltas[j])]) = SSum([h \in H |-> SSum([j \in H |-> deltas[j][h]])])
  BY SumSwap
<1>3. \A j \in H : SSum(deltas[j]) \in Scalar
  BY SSumType
<1>4. [j \in H |-> SSum(deltas[j])] \in [H -> Scalar]
  BY <1>3
<1>5. SSum([j \in H |-> SSum(deltas[j])]) \in Scalar
  BY <1>4, SSumType
<1> QED BY <1>1, <1>2, <1>5

-----------------------------------------------------------------------------
(* The inductive invariant.  Refreshes and repairs keep every share on a   *)
(* polynomial with the secret for its constant term: the key polynomial p  *)
(* with each refresh of refs in it as often as the participant applied it. *)

\* What the polynomial with the refreshes in it gives participant i.
ShareIn(p, refs, times, i) == Evaluate(Blend(p, refs, times), i)

\* Counts of refreshes, none of a refresh that was not made.
TimesIn(refs, times) ==
  /\ times \in [Epochs -> Nat]
  /\ \A e \in Epochs : e > Len(refs) => times[e] = 0

\* Every refresh applied once, which is what the dealer assumes of everybody.
Once(refs) == [e \in Epochs |-> IF e <= Len(refs) THEN 1 ELSE 0]

HistoryIn(p, refs) == p \in Coeffs /\ Refreshing(refs) /\ Len(refs) <= MaxRefreshes

\* The dealer's package.
PublicIn(p, refs, shares) ==
  /\ DOMAIN shares \subseteq Ids
  /\ \A i \in DOMAIN shares : shares[i] = ScalarBaseMult(ShareIn(p, refs, Once(refs), i))

\* The package of participant i.
PackageIn(p, refs, times, doubt, i, package) ==
  /\ package.secretShare \in Scalar
  /\ i \in DOMAIN package.verificationShares =>
       package.verificationShares[i] = ScalarBaseMult(package.secretShare)
  /\ \A j \in DOMAIN package.verificationShares \ {i} :
       package.verificationShares[j] = ScalarBaseMult(Evaluate(p, j))
  /\ ~package.lost /\ i \notin doubt => package.secretShare = ShareIn(p, refs, times, i)

\* What helper h of the team contributes to the share of target when its own
\* share has the refreshes times in it.
Contribution(p, refs, team, target, times, h) ==
  SMul(LagrangeCoefficient(team, target, h), ShareIn(p, refs, times, h))

\* The first two steps of a repair.
DeltasIn(p, refs, doubt, team, target, deltas, from) ==
  /\ DOMAIN deltas = DOMAIN from
  /\ DOMAIN deltas \subseteq team
  /\ \A h \in DOMAIN deltas :
       /\ deltas[h] \in [team -> Scalar]
       /\ TimesIn(refs, from[h])
       /\ h \notin doubt => SSum(deltas[h]) = Contribution(p, refs, team, target, from[h], h)

SigmasIn(team, deltas, sigmas) ==
  /\ DOMAIN sigmas \subseteq team
  /\ sigmas = [h \in DOMAIN sigmas |-> sigmas[h]]
  /\ DOMAIN sigmas # {} => DOMAIN deltas = team
  /\ \A h \in DOMAIN sigmas : sigmas[h] = SSum([j \in team |-> deltas[j][h]])

\* The helpers of a repair, and whom it is for.
TeamIn(r) ==
  /\ r = [helpers |-> r.helpers, target |-> r.target, deltas |-> r.deltas,
          from |-> r.from, sigmas |-> r.sigmas]
  /\ r.helpers \in Seq(Ids)
  /\ ToSet(r.helpers) # {} => r.target \in Ids
  /\ DOMAIN r.deltas # {} => Cardinality(ToSet(r.helpers)) = Len(r.helpers)

RepairIn(p, refs, doubt, r) ==
  /\ TeamIn(r)
  /\ DeltasIn(p, refs, doubt, ToSet(r.helpers), r.target, r.deltas, r.from)
  /\ SigmasIn(ToSet(r.helpers), r.deltas, r.sigmas)

HistoryOK == HistoryIn(keyPoly, refreshes)
AppliedOK == DOMAIN applied = Ids /\ \A i \in Ids : TimesIn(refreshes, applied[i])
PublicOK == PublicIn(keyPoly, refreshes, public)
PackagesOK ==
  /\ DOMAIN packages = Ids
  /\ \A i \in Ids : PackageIn(keyPoly, refreshes, applied[i], doubtful, i, packages[i])
RepairOK == RepairIn(keyPoly, refreshes, doubtful, repair)

MaintenanceInv == HistoryOK /\ AppliedOK /\ PublicOK /\ PackagesOK /\ RepairOK

-----------------------------------------------------------------------------
(* Lemmas about its parts.                                                 *)

\* The refreshes are numbered.
LEMMA EpochsType == MaxRefreshes \in Nat /\ Epochs = 1 .. MaxRefreshes
BY MaintenanceAssumptions DEF Epochs

\* Counts of the refreshes there are.
LEMMA TimesCounts ==
  ASSUME NEW p, NEW refs, HistoryIn(p, refs), NEW times, TimesIn(refs, times)
  PROVE  Counts(refs, times)
<1>1. DOMAIN refs = 1 .. Len(refs) /\ Len(refs) \in Nat /\ Len(refs) <= MaxRefreshes
  BY DEF HistoryIn, Refreshing
<1>2. DOMAIN refs \subseteq Epochs
  BY <1>1, EpochsType
<1>3. \A e \in Epochs : times[e] \in Nat
  BY DEF TimesIn
<1> QED BY <1>2, <1>3 DEF Counts

\* A share is the value of a polynomial whose constant term is the secret.
LEMMA ShareType ==
  ASSUME NEW p, NEW refs, HistoryIn(p, refs), NEW times, TimesIn(refs, times)
  PROVE  /\ Blend(p, refs, times) \in [1 .. MinSigners -> Scalar]
         /\ Blend(p, refs, times)[1] = p[1]
         /\ \A x \in Scalar : ShareIn(p, refs, times, x) \in Scalar
<1>1. Blend(p, refs, times) \in Coeffs /\ Blend(p, refs, times)[1] = p[1]
  BY TimesCounts, BlendType DEF HistoryIn
<1> QED BY <1>1, Constants, EvaluateAtZero DEF ShareIn, Coeffs

\* A share with no refresh in it is the one key generation made.
LEMMA ShareUnrefreshed ==
  ASSUME NEW p, NEW refs, HistoryIn(p, refs), NEW times, TimesIn(refs, times),
         \A e \in Epochs : times[e] = 0, NEW x
  PROVE  ShareIn(p, refs, times, x) = Evaluate(p, x)
<1>1. DOMAIN refs = 1 .. Len(refs) /\ Len(refs) \in Nat /\ Len(refs) <= MaxRefreshes
  BY DEF HistoryIn, Refreshing
<1>2. \A e \in DOMAIN refs : times[e] = 0
  BY <1>1, EpochsType
<1>3. p \in Coeffs /\ Refreshing(refs)
  BY DEF HistoryIn
<1>4. Blend(p, refs, times) = p
  BY <1>2, <1>3, BlendNone
<1> QED BY <1>4 DEF ShareIn

\* Another refresh.
LEMMA MoreHistory ==
  ASSUME NEW p, NEW refs, HistoryIn(p, refs), Len(refs) < MaxRefreshes,
         NEW q \in RefreshPolynomials
  PROVE  /\ HistoryIn(p, Append(refs, q)) /\ Len(Append(refs, q)) = Len(refs) + 1
         /\ Len(refs) \in Nat /\ q \in Coeffs /\ q[1] = 0
<1>1. q \in Coeffs /\ q[1] = 0
  BY MaintenanceAssumptions DEF Coeffs
<1>2. p \in Coeffs /\ refs \in Seq(Coeffs) /\ \A e \in DOMAIN refs : refs[e][1] = 0
  BY DEF HistoryIn, Refreshing
<1>3. Append(refs, q) \in Seq(Coeffs) /\ Len(Append(refs, q)) = Len(refs) + 1
      /\ Len(refs) \in Nat
  BY <1>1, <1>2
<1>4. \A e \in DOMAIN Append(refs, q) : Append(refs, q)[e][1] = 0
  BY <1>1, <1>2
<1>5. Len(Append(refs, q)) <= MaxRefreshes
  BY <1>3, EpochsType
<1> QED BY <1>1, <1>2, <1>3, <1>4, <1>5 DEF HistoryIn, Refreshing

\* A share does not change when somebody prepares another refresh.
LEMMA MoreTimes ==
  ASSUME NEW p, NEW refs, HistoryIn(p, refs), Len(refs) < MaxRefreshes,
         NEW q \in RefreshPolynomials, NEW times, TimesIn(refs, times)
  PROVE  /\ TimesIn(Append(refs, q), times)
         /\ \A x : ShareIn(p, Append(refs, q), times, x) = ShareIn(p, refs, times, x)
<1>1. HistoryIn(p, Append(refs, q)) /\ Len(Append(refs, q)) = Len(refs) + 1
      /\ Len(refs) \in Nat /\ q \in Coeffs /\ q[1] = 0
  BY MoreHistory
<1>2. TimesIn(Append(refs, q), times)
  BY <1>1, EpochsType DEF TimesIn
<1>3. times[Len(refs) + 1] = 0
  BY <1>1, EpochsType DEF TimesIn
<1>4. Counts(Append(refs, q), times)
  BY <1>1, <1>2, TimesCounts
<1>5. p \in Coeffs /\ Refreshing(refs)
  BY DEF HistoryIn
<1>6. Blend(p, Append(refs, q), times) = Blend(p, refs, times)
  BY <1>1, <1>3, <1>4, <1>5, BlendMore
<1> QED BY <1>2, <1>6 DEF ShareIn

\* One refresh more in a share.
LEMMA ShareOnce ==
  ASSUME NEW p, NEW refs, HistoryIn(p, refs), NEW times, TimesIn(refs, times),
         NEW e \in DOMAIN refs, NEW more, TimesIn(refs, more), more[e] = times[e] + 1,
         \A f \in DOMAIN refs \ {e} : more[f] = times[f], NEW x \in Scalar
  PROVE  ShareIn(p, refs, more, x) = SAdd(ShareIn(p, refs, times, x), Evaluate(refs[e], x))
<1>1. Counts(refs, times) /\ p \in Coeffs /\ Refreshing(refs)
  BY TimesCounts DEF HistoryIn
<1>2. \A k \in 1 .. MinSigners :
        Blend(p, refs, more)[k] = SAdd(Blend(p, refs, times)[k], refs[e][k])
  BY <1>1, BlendOnce
<1>3. /\ Blend(p, refs, more) \in [1 .. MinSigners -> Scalar]
      /\ Blend(p, refs, times) \in [1 .. MinSigners -> Scalar]
  BY ShareType
<1>4. refs[e] \in [1 .. MinSigners -> Scalar]
  <2>1. refs \in Seq(Coeffs)
    BY <1>1 DEF Refreshing
  <2>2. refs[e] \in Coeffs
    BY <2>1
  <2> QED BY <2>2 DEF Coeffs
<1> DEFINE a == Blend(p, refs, times)
           b == Blend(p, refs, more)
           r == refs[e]
<1>5. /\ a \in [1 .. MinSigners -> Scalar] /\ b \in [1 .. MinSigners -> Scalar]
      /\ r \in [1 .. MinSigners -> Scalar] /\ MinSigners \in Nat
      /\ \A k \in 1 .. MinSigners : b[k] = SAdd(a[k], r[k])
  BY <1>2, <1>3, <1>4, Constants
<1> HIDE DEF a, b, r
<1>6. Evaluate(b, x) = SAdd(Evaluate(a, x), Evaluate(r, x))
  BY <1>5, EvaluateAdd
<1> QED BY <1>6 DEF a, b, r, ShareIn

\* What the dealer adds to a verifying share brings it up to date.
LEMMA PublicStep ==
  ASSUME NEW p, NEW refs, HistoryIn(p, refs), Len(refs) < MaxRefreshes,
         NEW q \in RefreshPolynomials, NEW x \in Scalar
  PROVE  EAdd(ScalarBaseMult(ShareIn(p, refs, Once(refs), x)),
              EvaluateCommitments(CreateCommitments(q), x))
           = ScalarBaseMult(ShareIn(p, Append(refs, q), Once(Append(refs, q)), x))
<1> DEFINE more == Append(refs, q)
           n == Len(refs) + 1
           old == Once(refs)
           new == Once(more)
<1>1. HistoryIn(p, more) /\ Len(more) = n /\ Len(refs) \in Nat /\ q \in Coeffs
  BY MoreHistory
<1>2. refs \in Seq(Coeffs)
  BY DEF HistoryIn, Refreshing
<1>3. DOMAIN more = 1 .. n /\ n \in DOMAIN more /\ more[n] = q
  BY <1>1, <1>2
<1>4. TimesIn(refs, old) /\ TimesIn(more, new)
  <2>1. \A e \in Epochs : e > Len(more) => ~(e <= Len(more))
    BY <1>1, EpochsType
  <2>2. \A e \in Epochs : e > Len(refs) => ~(e <= Len(refs))
    BY <1>1, EpochsType
  <2> HIDE DEF more
  <2> QED BY <2>1, <2>2 DEF TimesIn, Once
<1>5. /\ TimesIn(more, old)
      /\ ShareIn(p, more, old, x) = ShareIn(p, refs, old, x)
  BY <1>4, MoreTimes
<1>6. n \in Epochs /\ new[n] = 1 /\ old[n] = 0
  BY <1>1, EpochsType DEF Once
<1>7. \A f \in DOMAIN more \ {n} : f \in Epochs /\ new[f] = 1 /\ old[f] = 1
  BY <1>1, <1>3, EpochsType DEF Once
<1>8. new[n] = old[n] + 1 /\ \A f \in DOMAIN more \ {n} : new[f] = old[f]
  BY <1>6, <1>7
<1> DEFINE s == ShareIn(p, refs, old, x)
           t == Evaluate(q, x)
<1> HIDE DEF more, old, new, n
<1>9. ShareIn(p, more, new, x) = SAdd(s, t)
  BY <1>1, <1>3, <1>4, <1>5, <1>8, ShareOnce
<1>10. s \in Scalar
  BY <1>4, ShareType
<1>11. t \in Scalar /\ EvaluateCommitments(CreateCommitments(q), x) = ScalarBaseMult(t)
  BY <1>1, Constants, EvaluateAtZero, CommitmentsFit DEF Coeffs
<1> HIDE DEF s, t
<1>12. /\ ScalarBaseMult(SAdd(s, t)) = SAdd(ScalarBaseMult(s), ScalarBaseMult(t))
       /\ ScalarBaseMult(s) \in Scalar /\ ScalarBaseMult(t) \in Scalar
  BY <1>10, <1>11, BaseMult
<1>13. EAdd(ScalarBaseMult(s), ScalarBaseMult(t)) = SAdd(ScalarBaseMult(s), ScalarBaseMult(t))
  BY <1>12, ElementOps, ScalarInt
<1> QED BY <1>9, <1>11, <1>12, <1>13 DEF s, t, more, old, new, n

\* A share that passes the check of step 3 is the one of the polynomial whose
\* commitment it was checked against.
LEMMA CheckedShare ==
  ASSUME HistoryOK, NEW times, TimesIn(refreshes, times), NEW x \in Scalar,
         NEW share \in Scalar,
         ScalarBaseMult(share) = EvaluateCommitments(CommitmentOf(times), x)
  PROVE  share = ShareIn(keyPoly, refreshes, times, x)
<1>1. HistoryIn(keyPoly, refreshes) /\ keyPoly \in Coeffs /\ Refreshing(refreshes)
  BY DEF HistoryOK, HistoryIn
<1>2. Counts(refreshes, times)
  BY <1>1, TimesCounts
<1> DEFINE b == Blend(keyPoly, refreshes, times)
<1>3. CommitmentOf(times) = CreateCommitments(b)
  BY <1>1, <1>2, CommitmentOfBlend
<1>4. b \in [1 .. MinSigners -> Scalar] /\ MinSigners \in Nat \ {0}
  BY <1>1, ShareType, Constants
<1> HIDE DEF b
<1>5. EvaluateCommitments(CreateCommitments(b), x) = ScalarBaseMult(Evaluate(b, x))
      /\ Evaluate(b, x) \in Scalar
  BY <1>4, CommitmentsFit, EvaluateAtZero
<1>6. share = Evaluate(b, x)
  BY <1>3, <1>5, BaseMult
<1> QED BY <1>6 DEF b, ShareIn

\* The helpers are finitely many participants.
LEMMA TeamType ==
  ASSUME NEW r, TeamIn(r)
  PROVE  /\ ToSet(r.helpers) \subseteq Ids /\ IsFiniteSet(ToSet(r.helpers))
         /\ ToSet(r.helpers) \subseteq Scalar
         /\ \A h \in ToSet(r.helpers) : h \in Scalar
         /\ Len(r.helpers) \in Nat
         /\ Len(r.helpers) # 0 => /\ r.helpers[1] \in ToSet(r.helpers)
                                  /\ r.helpers[Len(r.helpers)] \in ToSet(r.helpers)
         /\ Len(r.helpers) = 0 => ToSet(r.helpers) = {}
<1>1. r.helpers \in Seq(Ids)
  BY DEF TeamIn
<1> DEFINE s == r.helpers
<1> HIDE DEF s
<1>2. s \in Seq(Ids)
  BY <1>1 DEF s
<1>3. Len(s) \in Nat /\ DOMAIN s = 1 .. Len(s) /\ \A k \in DOMAIN s : s[k] \in Ids
  BY <1>2
<1>4. ToSet(s) = {s[k] : k \in DOMAIN s}
  BY DEF ToSet
<1>5. ToSet(s) \subseteq Ids
  BY <1>3, <1>4
<1>6. IsFiniteSet(ToSet(s)) /\ ToSet(s) \subseteq Scalar
  BY <1>5, Constants, FS_Subset
<1>7. Len(s) # 0 => 1 \in DOMAIN s /\ Len(s) \in DOMAIN s
  BY <1>3
<1>8. Len(s) = 0 => DOMAIN s = {}
  BY <1>3
<1> QED BY <1>3, <1>4, <1>5, <1>6, <1>7, <1>8 DEF s

\* The share that a repair recovers: proper helpers recover the right one.
LEMMA Recovered ==
  ASSUME HistoryOK, RepairOK, AllSigmas
  PROVE  /\ repair.target \in Ids
         /\ RecoveredShare \in Scalar
         /\ TimesIn(refreshes, repair.from[repair.helpers[1]])
         /\ ProperHelpers =>
              RecoveredShare =
                ShareIn(keyPoly, refreshes, repair.from[repair.helpers[1]], repair.target)
<1> DEFINE H == ToSet(repair.helpers)
           x == repair.target
           deltas == repair.deltas
           from == repair.from
           sigmas == repair.sigmas
           first == repair.helpers[1]
<1>1. /\ TeamIn(repair) /\ DeltasIn(keyPoly, refreshes, doubtful, H, x, deltas, from)
      /\ SigmasIn(H, deltas, sigmas)
  BY DEF RepairOK, RepairIn
<1>2. sigmas # <<>> /\ DOMAIN sigmas = H
  BY DEF AllSigmas
<1>3. H # {}
  <2>1. SUFFICES ASSUME H = {} PROVE FALSE
    OBVIOUS
  <2>2. sigmas = [h \in {} |-> sigmas[h]]
    BY <1>1, <1>2, <2>1 DEF SigmasIn
  <2>3. <<>> = [h \in {} |-> sigmas[h]]
    OBVIOUS
  <2> QED BY <1>2, <2>2, <2>3
<1>4. DOMAIN deltas = H /\ \A h \in H : sigmas[h] = SSum([j \in H |-> deltas[j][h]])
  BY <1>1, <1>2, <1>3 DEF SigmasIn
<1>5. DOMAIN from = H /\ \A h \in H : deltas[h] \in [H -> Scalar]
  BY <1>1, <1>4 DEF DeltasIn
<1>6. H \subseteq Ids /\ IsFiniteSet(H) /\ H \subseteq Scalar /\ first \in H
  BY <1>1, <1>3, TeamType
<1>7. x \in Ids /\ Cardinality(H) = Len(repair.helpers)
  BY <1>1, <1>3, <1>4 DEF TeamIn
<1>8. TimesIn(refreshes, from[first])
  BY <1>1, <1>4, <1>6 DEF DeltasIn
<1> DEFINE rows == [j \in H |-> deltas[j]]
<1> HIDE DEF H, x, deltas, from, sigmas, first
<1>9. rows \in [H -> [H -> Scalar]] /\ \A h \in H : rows[h] = deltas[h]
  BY <1>5
<1>10. sigmas = [h \in DOMAIN sigmas |-> sigmas[h]]
  BY <1>1 DEF SigmasIn
<1>11. \A h \in H : sigmas[h] = SSum([j \in H |-> rows[j][h]])
  <2>1. ASSUME NEW h \in H PROVE [j \in H |-> rows[j][h]] = [j \in H |-> deltas[j][h]]
    OBVIOUS
  <2> QED BY <1>4, <2>1
<1> HIDE DEF rows
<1>16. Totals(H, rows, sigmas)
  BY <1>2, <1>10, <1>11 DEF Totals
<1>12. SSum(sigmas) = SSum([j \in H |-> SSum(rows[j])]) /\ SSum(sigmas) \in Scalar
  BY <1>6, <1>9, <1>16, SigmasSum
<1>13. RecoveredShare = SSum(sigmas)
  BY DEF RecoveredShare, sigmas
<1>14. ASSUME ProperHelpers
       PROVE  RecoveredShare = ShareIn(keyPoly, refreshes, from[first], x)
  <2>1. \A h \in H : from[h] = from[first]
    BY <1>5, <1>6, <1>14 DEF ProperHelpers, from
  <2>2. \A h \in H : h \notin doubtful
    BY <1>14 DEF ProperHelpers, H
  <2>3. \A h \in H : SSum(rows[h]) =
          SMul(LagrangeCoefficient(H, x, h), ShareIn(keyPoly, refreshes, from[first], h))
    BY <1>1, <1>4, <1>9, <2>1, <2>2 DEF DeltasIn, Contribution
  <2> DEFINE b == Blend(keyPoly, refreshes, from[first])
  <2>4. \A h \in H : SSum(rows[h]) = SMul(LagrangeCoefficient(H, x, h), Evaluate(b, h))
    BY <2>3 DEF ShareIn
  <2>5. [j \in H |-> SSum(rows[j])] =
          [j \in H |-> SMul(LagrangeCoefficient(H, x, j), Evaluate(b, j))]
    BY <2>4
  <2>6. b \in [1 .. MinSigners -> Scalar]
    BY <1>8, ShareType DEF HistoryOK
  <2>7. x \in Scalar /\ MinSigners \in Nat /\ Cardinality(H) >= MinSigners
    BY <1>7, <1>14, Constants DEF ProperHelpers
  <2> HIDE DEF b
  <2>8. SSum([j \in H |-> SMul(LagrangeCoefficient(H, x, j), Evaluate(b, j))])
          = Evaluate(b, x)
    BY <1>6, <2>6, <2>7, InterpolateShare
  <2> QED BY <1>12, <1>13, <2>5, <2>8 DEF b, ShareIn
<1>15. /\ RecoveredShare \in Scalar /\ x \in Ids /\ TimesIn(refreshes, from[first])
       /\ ProperHelpers => RecoveredShare = ShareIn(keyPoly, refreshes, from[first], x)
  BY <1>7, <1>8, <1>12, <1>13, <1>14
<1> QED BY <1>15 DEF x, from, first

-----------------------------------------------------------------------------
(* Every step keeps the invariant.                                         *)

\* No repair in progress, or one that has just begun.
LEMMA RepairBegins ==
  ASSUME NEW p, NEW refs, NEW doubt, NEW helpers \in Seq(Ids), NEW target,
         ToSet(helpers) # {} => target \in Ids, NEW r,
         r = [helpers |-> helpers, target |-> target, deltas |-> <<>>, from |-> <<>>,
              sigmas |-> <<>>]
  PROVE  RepairIn(p, refs, doubt, r)
<1>1. DOMAIN <<>> = {} /\ <<>> = [h \in DOMAIN <<>> |-> <<>>[h]]
  OBVIOUS
<1>2. TeamIn(r)
  BY <1>1 DEF TeamIn
<1>3. r.deltas = <<>> /\ r.from = <<>> /\ r.sigmas = <<>>
  OBVIOUS
<1>4. \A team : DeltasIn(p, refs, doubt, team, r.target, <<>>, <<>>)
  BY <1>1 DEF DeltasIn
<1>5. \A team : SigmasIn(team, <<>>, <<>>)
  BY <1>1 DEF SigmasIn
<1> QED BY <1>2, <1>3, <1>4, <1>5 DEF RepairIn

\* When no repair is in progress.
LEMMA NoRepairOK ==
  ASSUME NEW p, NEW refs, NEW doubt
  PROVE  RepairIn(p, refs, doubt, NoRepair)
<1>1. <<>> \in Seq(Ids) /\ ToSet(<<>>) = {}
  BY DEF ToSet
<1> QED BY <1>1, RepairBegins DEF NoRepair

\* The invariant holds after key generation.
LEMMA MaintenanceBegins ==
  ASSUME MaintenanceInit
  PROVE  MaintenanceInv
<1>1. keyPoly \in Coeffs /\ refreshes = <<>>
  BY SharingAssumptions DEF MaintenanceInit, Coeffs
<1>2. Len(<<>>) = 0 /\ DOMAIN <<>> = {} /\ <<>> \in Seq(Coeffs)
  OBVIOUS
<1>3. HistoryOK
  BY <1>1, <1>2, EpochsType DEF HistoryOK, HistoryIn, Refreshing
<1>4. AppliedOK
  BY <1>1 DEF AppliedOK, TimesIn, MaintenanceInit
<1> DEFINE none == [e \in Epochs |-> 0]
<1>5. Once(refreshes) = none
  BY <1>1, <1>2, EpochsType DEF Once
<1>6. TimesIn(refreshes, none) /\ \A e \in Epochs : none[e] = 0
  BY DEF TimesIn
<1> HIDE DEF none
<1>7. \A i : ShareIn(keyPoly, refreshes, none, i) = Evaluate(keyPoly, i)
  BY <1>3, <1>6, ShareUnrefreshed DEF HistoryOK
<1>8. PublicOK
  BY <1>5, <1>7 DEF PublicOK, PublicIn, MaintenanceInit
<1>9. \A i \in Ids : Evaluate(keyPoly, i) \in Scalar
  BY <1>1, Constants, EvaluateAtZero DEF Coeffs
<1>10. \A i \in Ids : applied[i] = none
  BY DEF MaintenanceInit, none
<1>11. PackagesOK
  <2>1. /\ public = [i \in Ids |-> ScalarBaseMult(Evaluate(keyPoly, i))]
        /\ packages = [i \in Ids |->
             [secretShare |-> Evaluate(keyPoly, i), verificationShares |-> public,
              lost |-> FALSE]]
    BY DEF MaintenanceInit
  <2> QED BY <1>7, <1>9, <1>10, <2>1 DEF PackagesOK, PackageIn
<1>12. RepairOK
  BY NoRepairOK DEF RepairOK, MaintenanceInit
<1> QED BY <1>3, <1>4, <1>8, <1>11, <1>12 DEF MaintenanceInv

\* The dealer's refresh keeps the invariant.
LEMMA ComputeRefreshingSharesKeeps ==
  ASSUME MaintenanceInv, NEW ids \in RefreshIds, NEW q \in RefreshPolynomials,
         ComputeRefreshingShares(ids, q)
  PROVE  MaintenanceInv'
<1> DEFINE more == Append(refreshes, q)
<1>1. /\ HistoryIn(keyPoly, refreshes) /\ Len(refreshes) < MaxRefreshes
      /\ keyPoly' = keyPoly /\ refreshes' = more /\ applied' = applied
      /\ doubtful' = doubtful /\ repair' = repair /\ packages' = packages
  BY DEF MaintenanceInv, HistoryOK, ComputeRefreshingShares
<1>2. HistoryIn(keyPoly, more)
  BY <1>1, MoreHistory
<1>3. \A times : TimesIn(refreshes, times) =>
        /\ TimesIn(more, times)
        /\ \A x : ShareIn(keyPoly, more, times, x) = ShareIn(keyPoly, refreshes, times, x)
  BY <1>1, MoreTimes
<1> HIDE DEF more
<1>4. HistoryOK'
  BY <1>1, <1>2 DEF HistoryOK
<1>5. AppliedOK'
  BY <1>1, <1>3 DEF AppliedOK, MaintenanceInv
<1>6. PackagesOK'
  <2>1. ASSUME NEW i \in Ids
        PROVE  PackageIn(keyPoly, more, applied[i], doubtful, i, packages[i])
    <3>1. TimesIn(refreshes, applied[i])
      BY DEF MaintenanceInv, AppliedOK
    <3>2. ShareIn(keyPoly, more, applied[i], i) = ShareIn(keyPoly, refreshes, applied[i], i)
      BY <1>3, <3>1
    <3>3. PackageIn(keyPoly, refreshes, applied[i], doubtful, i, packages[i])
      BY DEF MaintenanceInv, PackagesOK
    <3> QED BY <3>2, <3>3 DEF PackageIn
  <2> QED BY <1>1, <2>1 DEF MaintenanceInv, PackagesOK
<1>7. RepairOK'
  <2> DEFINE H == ToSet(repair.helpers)
             x == repair.target
  <2>1. /\ TeamIn(repair) /\ SigmasIn(H, repair.deltas, repair.sigmas)
        /\ DeltasIn(keyPoly, refreshes, doubtful, H, x, repair.deltas, repair.from)
    BY DEF MaintenanceInv, RepairOK, RepairIn
  <2>2. DeltasIn(keyPoly, more, doubtful, H, x, repair.deltas, repair.from)
    <3>1. \A h \in DOMAIN repair.deltas : TimesIn(refreshes, repair.from[h])
      BY <2>1 DEF DeltasIn
    <3>2. \A h \in DOMAIN repair.deltas :
            /\ TimesIn(more, repair.from[h])
            /\ ShareIn(keyPoly, more, repair.from[h], h)
                 = ShareIn(keyPoly, refreshes, repair.from[h], h)
      BY <1>3, <3>1
    <3> QED BY <2>1, <3>2 DEF DeltasIn, Contribution
  <2> QED BY <1>1, <2>1, <2>2 DEF RepairOK, RepairIn
<1>8. PublicOK'
  <2>1. DOMAIN public \subseteq Ids /\ ids \subseteq DOMAIN public
        /\ public' = [i \in ids |->
             EAdd(public[i], EvaluateCommitments(CreateCommitments(q), i))]
    BY DEF MaintenanceInv, PublicOK, PublicIn, ComputeRefreshingShares
  <2>2. ASSUME NEW i \in ids
        PROVE  EAdd(public[i], EvaluateCommitments(CreateCommitments(q), i))
                 = ScalarBaseMult(ShareIn(keyPoly, more, Once(more), i))
    <3>1. i \in DOMAIN public /\ i \in Scalar
      BY <2>1, Constants
    <3>2. public[i] = ScalarBaseMult(ShareIn(keyPoly, refreshes, Once(refreshes), i))
      BY <3>1 DEF MaintenanceInv, PublicOK, PublicIn
    <3> QED BY <1>1, <3>1, <3>2, PublicStep DEF more
  <2>3. DOMAIN public' = ids
        /\ \A i \in ids : public'[i] = ScalarBaseMult(ShareIn(keyPoly, more, Once(more), i))
    BY <2>1, <2>2
  <2>4. PublicIn(keyPoly, more, public')
    BY <2>1, <2>3 DEF PublicIn
  <2> QED BY <1>1, <2>4 DEF PublicOK
<1> QED BY <1>4, <1>5, <1>6, <1>7, <1>8 DEF MaintenanceInv

\* Applying a refresh share, early, late or again, keeps the invariant.
LEMMA ApplyRefreshShareKeeps ==
  ASSUME MaintenanceInv, NEW i \in Ids, NEW e \in DOMAIN refreshes, NEW share \in Scalar,
         ApplyRefreshShare(i, e, share)
  PROVE  MaintenanceInv'
<1> DEFINE old == packages[i].secretShare
           new == SAdd(old, share)
           vs == packages[i].verificationShares
           more == [applied[i] EXCEPT ![e] = @ + 1]
<1>1. /\ ~packages[i].lost /\ RefreshVerifies(i, share, refreshes[e])
      /\ packages' = [packages EXCEPT ![i] =
           [secretShare |-> new, verificationShares |-> SharesRefreshed(i, new),
            lost |-> FALSE]]
      /\ applied' = [applied EXCEPT ![i] = more]
      /\ keyPoly' = keyPoly /\ refreshes' = refreshes /\ public' = public
      /\ doubtful' = doubtful /\ repair' = repair
  BY DEF ApplyRefreshShare
<1>2. /\ HistoryIn(keyPoly, refreshes) /\ DOMAIN applied = Ids /\ DOMAIN packages = Ids
      /\ TimesIn(refreshes, applied[i]) /\ i \in Scalar
      /\ PackageIn(keyPoly, refreshes, applied[i], doubtful, i, packages[i])
  BY Constants DEF MaintenanceInv, HistoryOK, AppliedOK, PackagesOK
<1>3. e \in Epochs /\ e <= Len(refreshes) /\ refreshes[e] \in Coeffs /\ refreshes[e][1] = 0
  <2>1. /\ refreshes \in Seq(Coeffs) /\ Len(refreshes) <= MaxRefreshes
        /\ refreshes[e][1] = 0
    BY <1>2 DEF HistoryIn, Refreshing
  <2> QED BY <2>1, EpochsType
<1>4. share = Evaluate(refreshes[e], i)
  BY <1>1, <1>2, <1>3, RefreshShare
<1>5. applied[i] \in [Epochs -> Nat]
  BY <1>2 DEF TimesIn
<1>6. /\ more \in [Epochs -> Nat] /\ more[e] = applied[i][e] + 1
      /\ \A f \in Epochs \ {e} : more[f] = applied[i][f]
  BY <1>3, <1>5
<1> HIDE DEF more
<1>7. TimesIn(refreshes, more)
  <2>1. \A f \in Epochs : f > Len(refreshes) => f # e
    <3>1. Len(refreshes) \in Nat
      BY <1>2 DEF HistoryIn, Refreshing
    <3> QED BY <1>3, <3>1, EpochsType
  <2> QED BY <1>2, <1>6, <2>1 DEF TimesIn
<1>8. \A f \in DOMAIN refreshes \ {e} : more[f] = applied[i][f]
  <2>1. DOMAIN refreshes \subseteq Epochs
    <3>1. DOMAIN refreshes = 1 .. Len(refreshes) /\ Len(refreshes) <= MaxRefreshes
          /\ Len(refreshes) \in Nat
      BY <1>2 DEF HistoryIn, Refreshing
    <3> QED BY <3>1, EpochsType
  <2> QED BY <1>6, <2>1
<1>9. ShareIn(keyPoly, refreshes, more, i)
        = SAdd(ShareIn(keyPoly, refreshes, applied[i], i), share)
  BY <1>2, <1>4, <1>6, <1>7, <1>8, ShareOnce
<1>10. new \in Scalar
  <2>1. old \in Scalar
    BY <1>2 DEF PackageIn
  <2> QED BY <2>1, OpType, ScalarInt
<1>11. /\ applied'[i] = more /\ \A j \in Ids \ {i} : applied'[j] = applied[j]
       /\ DOMAIN applied' = Ids
  BY <1>1, <1>2
<1>12. AppliedOK'
  BY <1>1, <1>7, <1>11 DEF MaintenanceInv, AppliedOK
<1>13. /\ packages'[i].secretShare = new /\ packages'[i].lost = FALSE
       /\ packages'[i].verificationShares = SharesRefreshed(i, new)
       /\ \A j \in Ids \ {i} : packages'[j] = packages[j]
       /\ DOMAIN packages' = Ids
  BY <1>1, <1>2
<1>14. PackageIn(keyPoly, refreshes, more, doubtful, i, packages'[i])
  <2>1. /\ DOMAIN SharesRefreshed(i, new) = DOMAIN vs
        /\ i \in DOMAIN vs => SharesRefreshed(i, new)[i] = ScalarBaseMult(new)
        /\ \A j \in DOMAIN vs \ {i} : SharesRefreshed(i, new)[j] = vs[j]
    BY DEF SharesRefreshed
  <2>2. \A j \in DOMAIN vs \ {i} : vs[j] = ScalarBaseMult(Evaluate(keyPoly, j))
    BY <1>2 DEF PackageIn
  <2>3. i \notin doubtful => old = ShareIn(keyPoly, refreshes, applied[i], i)
    BY <1>1, <1>2 DEF PackageIn
  <2> HIDE DEF vs
  <2> QED BY <1>9, <1>10, <1>13, <2>1, <2>2, <2>3 DEF PackageIn
<1>15. PackagesOK'
  BY <1>1, <1>11, <1>13, <1>14 DEF MaintenanceInv, PackagesOK
<1> QED BY <1>1, <1>12, <1>15 DEF MaintenanceInv, HistoryOK, PublicOK, RepairOK

\* Losing a package keeps the invariant.
LEMMA LoseKeeps ==
  ASSUME MaintenanceInv, NEW i \in Ids, NEW helpers \in Helpers, Lose(i, helpers)
  PROVE  MaintenanceInv'
<1>1. /\ packages' = [packages EXCEPT ![i] = LostPackage]
      /\ repair' = [NoRepair EXCEPT !.helpers = helpers, !.target = i]
      /\ keyPoly' = keyPoly /\ refreshes' = refreshes /\ public' = public
      /\ doubtful' = doubtful /\ applied' = applied
  BY DEF Lose
<1>2. DOMAIN packages = Ids
  BY DEF MaintenanceInv, PackagesOK
<1>3. /\ packages'[i] = LostPackage /\ DOMAIN packages' = Ids
      /\ \A j \in Ids \ {i} : packages'[j] = packages[j]
  BY <1>1, <1>2
<1>4. \A times : PackageIn(keyPoly, refreshes, times, doubtful, i, LostPackage)
  BY ScalarInt DEF PackageIn, LostPackage
<1>5. PackagesOK'
  BY <1>1, <1>3, <1>4 DEF MaintenanceInv, PackagesOK
<1>6. helpers \in Seq(Ids)
  BY MaintenanceAssumptions
<1>7. repair' = [helpers |-> helpers, target |-> i, deltas |-> <<>>, from |-> <<>>,
                 sigmas |-> <<>>]
  BY <1>1 DEF NoRepair
<1>8. RepairIn(keyPoly, refreshes, doubtful, repair')
  BY <1>6, <1>7, RepairBegins
<1> QED BY <1>1, <1>5, <1>8 DEF MaintenanceInv, HistoryOK, AppliedOK, PublicOK, RepairOK

\* The deltas of a helper add up to its contribution.
LEMMA RepairShareStep1Keeps ==
  ASSUME MaintenanceInv, NEW h \in Ids, NEW random, RepairShareStep1(h, random)
  PROVE  MaintenanceInv'
<1> DEFINE H == ToSet(repair.helpers)
           x == repair.target
           last == repair.helpers[Len(repair.helpers)]
           c == SMul(LagrangeCoefficient(H, x, h), packages[h].secretShare)
           d == Put(random, last, SSub(c, SSum(random)))
           deltas == Put(repair.deltas, h, d)
           from == Put(repair.from, h, applied[h])
<1>1. /\ ~packages[h].lost /\ h \in H \ DOMAIN repair.deltas
      /\ Len(repair.helpers) >= 2 /\ Cardinality(H) = Len(repair.helpers)
      /\ random \in [H \ {last} -> Deltas]
      /\ repair' = [repair EXCEPT !.deltas = deltas, !.from = from]
      /\ keyPoly' = keyPoly /\ refreshes' = refreshes /\ public' = public
      /\ doubtful' = doubtful /\ applied' = applied /\ packages' = packages
  BY DEF RepairShareStep1
<1>2. /\ TeamIn(repair) /\ SigmasIn(H, repair.deltas, repair.sigmas)
      /\ DeltasIn(keyPoly, refreshes, doubtful, H, x, repair.deltas, repair.from)
  BY DEF MaintenanceInv, RepairOK, RepairIn
<1>3. /\ HistoryIn(keyPoly, refreshes) /\ TimesIn(refreshes, applied[h])
      /\ PackageIn(keyPoly, refreshes, applied[h], doubtful, h, packages[h])
  BY DEF MaintenanceInv, HistoryOK, AppliedOK, PackagesOK
<1>4. /\ IsFiniteSet(H) /\ H \in SUBSET Scalar /\ last \in H /\ h \in Scalar
      /\ x \in Ids /\ x \in Scalar
  <2>1. Len(repair.helpers) \in Nat /\ Len(repair.helpers) # 0 /\ H # {}
    BY <1>1, <1>2, TeamType
  <2>2. IsFiniteSet(H) /\ H \in SUBSET Scalar /\ last \in H
    BY <1>2, <2>1, TeamType
  <2>3. x \in Ids
    BY <1>2, <2>1 DEF TeamIn
  <2> QED BY <2>2, <2>3, Constants
<1>5. c \in Scalar
  <2>1. LagrangeCoefficient(H, x, h) \in Scalar
    BY <1>4, CoefficientType
  <2>2. packages[h].secretShare \in Scalar
    BY <1>3 DEF PackageIn
  <2> QED BY <2>1, <2>2, OpType, ScalarInt
<1>6. h \notin doubtful => c = Contribution(keyPoly, refreshes, H, x, applied[h], h)
  BY <1>1, <1>3 DEF PackageIn, Contribution
<1>7. random \in [H \ {last} -> Scalar]
  BY <1>1, MaintenanceAssumptions
<1> HIDE DEF H, x, last, c
<1>8. d \in [H -> Scalar] /\ SSum(d) = c
  BY <1>4, <1>5, <1>7, DeltasSum
<1> HIDE DEF d
<1>9. /\ DOMAIN deltas = DOMAIN repair.deltas \cup {h} /\ deltas[h] = d
      /\ \A j \in DOMAIN repair.deltas : deltas[j] = repair.deltas[j]
  BY <1>1 DEF Put
<1>10. /\ DOMAIN from = DOMAIN repair.from \cup {h} /\ from[h] = applied[h]
       /\ \A j \in DOMAIN repair.deltas : from[j] = repair.from[j]
  <2>1. DOMAIN repair.deltas = DOMAIN repair.from
    BY <1>2 DEF DeltasIn
  <2> QED BY <1>1, <2>1 DEF Put
<1> HIDE DEF deltas, from
<1>11. DeltasIn(keyPoly, refreshes, doubtful, H, x, deltas, from)
  <2>1. DOMAIN deltas = DOMAIN from /\ DOMAIN deltas \subseteq H
    BY <1>1, <1>2, <1>9, <1>10 DEF DeltasIn
  <2>2. ASSUME NEW j \in DOMAIN deltas
        PROVE  /\ deltas[j] \in [H -> Scalar]
               /\ TimesIn(refreshes, from[j])
               /\ j \notin doubtful =>
                    SSum(deltas[j]) = Contribution(keyPoly, refreshes, H, x, from[j], j)
    <3>1. CASE j = h
      BY <1>3, <1>6, <1>8, <1>9, <1>10, <3>1
    <3>2. CASE j \in DOMAIN repair.deltas
      BY <1>2, <1>9, <1>10, <3>2 DEF DeltasIn
    <3> QED BY <1>9, <3>1, <3>2
  <2> QED BY <2>1, <2>2 DEF DeltasIn
<1>12. SigmasIn(H, deltas, repair.sigmas)
  <2>1. DOMAIN repair.sigmas = {}
    BY <1>1, <1>2 DEF SigmasIn
  <2> QED BY <1>2, <2>1 DEF SigmasIn
<1>13. repair' = [helpers |-> repair.helpers, target |-> repair.target,
                  deltas |-> deltas, from |-> from, sigmas |-> repair.sigmas]
  BY <1>1, <1>2 DEF TeamIn
<1>14. TeamIn(repair')
  BY <1>1, <1>2, <1>13 DEF TeamIn, H
<1>15. RepairIn(keyPoly, refreshes, doubtful, repair')
  BY <1>11, <1>12, <1>13, <1>14 DEF RepairIn, H, x
<1> QED
  BY <1>1, <1>15 DEF MaintenanceInv, HistoryOK, AppliedOK, PackagesOK, PublicOK, RepairOK

\* A sigma is the sum of the deltas for one helper.
LEMMA RepairShareStep2Keeps ==
  ASSUME MaintenanceInv, NEW h \in Ids, RepairShareStep2(h)
  PROVE  MaintenanceInv'
<1> DEFINE H == ToSet(repair.helpers)
           v == SSum([j \in H |-> repair.deltas[j][h]])
           sigmas == Put(repair.sigmas, h, v)
<1>1. /\ h \in H /\ DOMAIN repair.deltas = H
      /\ repair' = [repair EXCEPT !.sigmas = sigmas]
      /\ keyPoly' = keyPoly /\ refreshes' = refreshes /\ public' = public
      /\ doubtful' = doubtful /\ applied' = applied /\ packages' = packages
  BY DEF RepairShareStep2
<1>2. /\ TeamIn(repair) /\ SigmasIn(H, repair.deltas, repair.sigmas)
      /\ DeltasIn(keyPoly, refreshes, doubtful, H, repair.target, repair.deltas, repair.from)
  BY DEF MaintenanceInv, RepairOK, RepairIn
<1> HIDE DEF H
<1>3. SigmasIn(H, repair.deltas, sigmas)
  <2>1. /\ DOMAIN sigmas = DOMAIN repair.sigmas \cup {h} /\ sigmas[h] = v
        /\ \A j \in DOMAIN repair.sigmas \ {h} : sigmas[j] = repair.sigmas[j]
        /\ sigmas = [j \in DOMAIN sigmas |-> sigmas[j]]
    BY DEF Put
  <2>2. DOMAIN sigmas \subseteq H
    BY <1>1, <1>2, <2>1 DEF SigmasIn
  <2>3. ASSUME NEW j \in DOMAIN sigmas
        PROVE  sigmas[j] = SSum([k \in H |-> repair.deltas[k][j]])
    <3>1. CASE j = h
      BY <2>1, <3>1
    <3>2. CASE j \in DOMAIN repair.sigmas \ {h}
      BY <1>2, <2>1, <3>2 DEF SigmasIn
    <3> QED BY <2>1, <3>1, <3>2
  <2> HIDE DEF sigmas
  <2> QED BY <1>1, <2>1, <2>2, <2>3 DEF SigmasIn
<1> HIDE DEF sigmas
<1>4. repair' = [helpers |-> repair.helpers, target |-> repair.target,
                 deltas |-> repair.deltas, from |-> repair.from, sigmas |-> sigmas]
  BY <1>1, <1>2 DEF TeamIn
<1>5. TeamIn(repair')
  BY <1>2, <1>4 DEF TeamIn
<1>6. RepairIn(keyPoly, refreshes, doubtful, repair')
  BY <1>2, <1>3, <1>4, <1>5 DEF RepairIn, H
<1> QED
  BY <1>1, <1>6 DEF MaintenanceInv, HistoryOK, AppliedOK, PackagesOK, PublicOK, RepairOK

\* The recovered package: either nothing backs it, or the share is the one of
\* the polynomial.
LEMMA RecoverKeeps ==
  ASSUME MaintenanceInv, repair.target \in Ids, RecoveredShare \in Scalar,
         NEW times, TimesIn(refreshes, times), NEW doubt,
         doubt \/ RecoveredShare = ShareIn(keyPoly, refreshes, times, repair.target),
         Recover(times, doubt)
  PROVE  MaintenanceInv'
<1> DEFINE x == repair.target
           package == [secretShare |-> RecoveredShare, verificationShares |-> <<>>,
                       lost |-> FALSE]
<1>1. /\ packages' = [packages EXCEPT ![x] = package]
      /\ applied' = [applied EXCEPT ![x] = times]
      /\ doubtful' = IF doubt THEN doubtful \cup {x} ELSE doubtful \ {x}
      /\ repair' = NoRepair
      /\ keyPoly' = keyPoly /\ refreshes' = refreshes /\ public' = public
  BY DEF Recover
<1>2. DOMAIN packages = Ids /\ DOMAIN applied = Ids
  BY DEF MaintenanceInv, PackagesOK, AppliedOK
<1>3. /\ packages'[x] = package /\ DOMAIN packages' = Ids
      /\ \A j \in Ids \ {x} : packages'[j] = packages[j]
      /\ applied'[x] = times /\ DOMAIN applied' = Ids
      /\ \A j \in Ids \ {x} : applied'[j] = applied[j]
  BY <1>1, <1>2
<1>4. /\ x \notin doubtful' => ~doubt
      /\ \A j \in Ids \ {x} : j \notin doubtful' <=> j \notin doubtful
  BY <1>1
<1>5. AppliedOK'
  BY <1>1, <1>3 DEF MaintenanceInv, AppliedOK
<1>6. PackageIn(keyPoly, refreshes, times, doubtful', x, package)
  BY <1>4 DEF PackageIn
<1>7. ASSUME NEW j \in Ids \ {x}
      PROVE  PackageIn(keyPoly, refreshes, applied[j], doubtful', j, packages[j])
  <2>1. PackageIn(keyPoly, refreshes, applied[j], doubtful, j, packages[j])
    BY DEF MaintenanceInv, PackagesOK
  <2> QED BY <1>4, <2>1 DEF PackageIn
<1> HIDE DEF package
<1>8. PackagesOK'
  BY <1>1, <1>3, <1>6, <1>7 DEF PackagesOK
<1>9. RepairOK'
  BY <1>1, NoRepairOK DEF RepairOK
<1> QED BY <1>1, <1>5, <1>8, <1>9 DEF MaintenanceInv, HistoryOK, PublicOK

\* A checked recovery keeps the invariant.
LEMMA RepairShareStep3Keeps ==
  ASSUME MaintenanceInv, NEW times \in {Original} \cup {applied[i] : i \in Ids},
         RepairShareStep3(times)
  PROVE  MaintenanceInv'
<1>1. AllSigmas /\ CommitmentFits(times) /\ Recover(times, FALSE)
  BY DEF RepairShareStep3
<1>2. HistoryOK /\ RepairOK /\ AppliedOK
  BY DEF MaintenanceInv
<1>3. repair.target \in Ids /\ RecoveredShare \in Scalar /\ repair.target \in Scalar
  BY <1>1, <1>2, Recovered, Constants
<1>4. TimesIn(refreshes, times)
  <2>1. TimesIn(refreshes, Original)
    BY DEF TimesIn, Original
  <2> QED BY <1>2, <2>1 DEF AppliedOK
<1>5. RecoveredShare = ShareIn(keyPoly, refreshes, times, repair.target)
  BY <1>1, <1>2, <1>3, <1>4, CheckedShare DEF CommitmentFits
<1> QED BY <1>1, <1>3, <1>4, <1>5, RecoverKeeps

\* An unchecked recovery keeps the invariant, or is in doubt.
LEMMA RepairShareStep3UncheckedKeeps ==
  ASSUME MaintenanceInv, RepairShareStep3Unchecked
  PROVE  MaintenanceInv'
<1> DEFINE times == repair.from[repair.helpers[1]]
<1>1. AllSigmas /\ Recover(times, ~ProperHelpers)
  BY DEF RepairShareStep3Unchecked
<1>2. HistoryOK /\ RepairOK
  BY DEF MaintenanceInv
<1>3. /\ repair.target \in Ids /\ RecoveredShare \in Scalar /\ TimesIn(refreshes, times)
      /\ ProperHelpers => RecoveredShare = ShareIn(keyPoly, refreshes, times, repair.target)
  BY <1>1, <1>2, Recovered
<1> HIDE DEF times
<1>4. ~ProperHelpers \/ RecoveredShare = ShareIn(keyPoly, refreshes, times, repair.target)
  BY <1>3
<1> QED BY <1>1, <1>3, <1>4, RecoverKeeps

\* A repair that starts over keeps the invariant.
LEMMA RepairShareStep3FailsKeeps ==
  ASSUME MaintenanceInv, NEW times, RepairShareStep3Fails(times)
  PROVE  MaintenanceInv'
<1>1. /\ repair' = [repair EXCEPT !.deltas = <<>>, !.from = <<>>, !.sigmas = <<>>]
      /\ keyPoly' = keyPoly /\ refreshes' = refreshes /\ public' = public
      /\ doubtful' = doubtful /\ applied' = applied /\ packages' = packages
  BY DEF RepairShareStep3Fails
<1>2. TeamIn(repair)
  BY DEF MaintenanceInv, RepairOK, RepairIn
<1>3. /\ repair' = [helpers |-> repair.helpers, target |-> repair.target, deltas |-> <<>>,
                    from |-> <<>>, sigmas |-> <<>>]
      /\ repair.helpers \in Seq(Ids)
      /\ ToSet(repair.helpers) # {} => repair.target \in Ids
  BY <1>1, <1>2 DEF TeamIn
<1>4. RepairIn(keyPoly, refreshes, doubtful, repair')
  BY <1>3, RepairBegins
<1> QED
  BY <1>1, <1>4 DEF MaintenanceInv, HistoryOK, AppliedOK, PackagesOK, PublicOK, RepairOK

\* MaintenanceInv is inductive.
LEMMA MaintenanceStep ==
  ASSUME MaintenanceInv, [MaintenanceNext]_maintenanceVars
  PROVE  MaintenanceInv'
<1>1. CASE UNCHANGED maintenanceVars
  <2>1. /\ keyPoly' = keyPoly /\ refreshes' = refreshes /\ public' = public
        /\ doubtful' = doubtful /\ applied' = applied /\ packages' = packages
        /\ repair' = repair
    BY <1>1 DEF maintenanceVars
  <2> QED
    BY <2>1 DEF MaintenanceInv, HistoryOK, AppliedOK, PackagesOK, PublicOK, RepairOK
<1>2. CASE MaintenanceNext
  <2>1. ASSUME NEW ids \in RefreshIds, NEW p \in RefreshPolynomials,
               ComputeRefreshingShares(ids, p)
        PROVE  MaintenanceInv'
    BY <2>1, ComputeRefreshingSharesKeeps
  <2>2. ASSUME NEW i \in Ids, NEW e \in DOMAIN refreshes, NEW share \in Scalar,
               ApplyRefreshShare(i, e, share)
        PROVE  MaintenanceInv'
    BY <2>2, ApplyRefreshShareKeeps
  <2>3. ASSUME NEW i \in Ids, NEW helpers \in Helpers, Lose(i, helpers)
        PROVE  MaintenanceInv'
    BY <2>3, LoseKeeps
  <2>4. ASSUME NEW h \in Ids, NEW random \in Maps(Deltas), RepairShareStep1(h, random)
        PROVE  MaintenanceInv'
    BY <2>4, RepairShareStep1Keeps
  <2>5. ASSUME NEW h \in Ids, RepairShareStep2(h)
        PROVE  MaintenanceInv'
    BY <2>5, RepairShareStep2Keeps
  <2>6. ASSUME RepairShareStep3Unchecked PROVE MaintenanceInv'
    BY <2>6, RepairShareStep3UncheckedKeeps
  <2>7. ASSUME NEW times \in {Original} \cup {applied[i] : i \in Ids},
               RepairShareStep3(times) \/ RepairShareStep3Fails(times)
        PROVE  MaintenanceInv'
    BY <2>7, RepairShareStep3Keeps, RepairShareStep3FailsKeeps
  <2> QED BY <1>2, <2>7, <2>6, <2>5, <2>1, <2>2, <2>3, <2>4 DEF MaintenanceNext
<1> QED BY <1>1, <1>2

\* MaintenanceInv is an invariant.
LEMMA MaintenanceInvariant == MaintenanceSpec => []MaintenanceInv
<1>1. MaintenanceInit => MaintenanceInv
  BY MaintenanceBegins
<1>2. MaintenanceInv /\ [MaintenanceNext]_maintenanceVars => MaintenanceInv'
  BY MaintenanceStep
<1> QED BY <1>1, <1>2, PTL DEF MaintenanceSpec

\* What the invariant says of a participant that holds a proper share.
LEMMA HolderShare ==
  ASSUME MaintenanceInv, NEW i \in Holders
  PROVE  /\ i \in Ids /\ i \in Scalar \ {0}
         /\ TimesIn(refreshes, applied[i])
         /\ packages[i].secretShare = ShareIn(keyPoly, refreshes, applied[i], i)
<1>1. i \in Ids /\ ~packages[i].lost /\ i \notin doubtful
  BY DEF Holders
<1>2. PackageIn(keyPoly, refreshes, applied[i], doubtful, i, packages[i])
  BY <1>1 DEF MaintenanceInv, PackagesOK
<1> QED BY <1>1, <1>2, Constants DEF MaintenanceInv, AppliedOK, PackageIn

\* MinSigners proper shares with the same refreshes in them lie on one
\* polynomial, whose constant term is the secret of key generation.
LEMMA SecretReconstructed ==
  ASSUME MaintenanceInv
  PROVE  SecretSurvives
<1>1. SUFFICES ASSUME NEW S \in SUBSET Holders, Cardinality(S) >= MinSigners,
                      \A i, j \in S : applied[i] = applied[j]
               PROVE  VerifyReconstruction(Reconstruct(S))
  BY DEF SecretSurvives
<1>2. HistoryIn(keyPoly, refreshes)
  BY DEF MaintenanceInv, HistoryOK
<1>3. S \in SUBSET (Scalar \ {0}) /\ S \subseteq Ids
  BY HolderShare
<1>4. IsFiniteSet(S)
  BY <1>3, Constants, FS_Subset
<1>5. PICK a \in S : TRUE
  <2>1. S # {}
    <3>1. SUFFICES ASSUME S = {} PROVE FALSE
      OBVIOUS
    <3>2. Cardinality(S) = 0 /\ MinSigners >= 2 /\ MinSigners \in Nat
      BY <3>1, FS_EmptySet, Constants
    <3> QED BY <1>1, <3>2
  <2> QED BY <2>1
<1> DEFINE b == Blend(keyPoly, refreshes, applied[a])
           D == [i \in S |-> packages[i].secretShare]
<1>6. b \in [1 .. MinSigners -> Scalar] /\ b[1] = keyPoly[1]
  <2>1. TimesIn(refreshes, applied[a])
    BY <1>5, HolderShare
  <2> QED BY <1>2, <2>1, ShareType
<1>7. \A i \in S : packages[i].secretShare = Evaluate(b, i)
  BY <1>1, <1>5, HolderShare DEF ShareIn
<1> HIDE DEF b
<1>8. ASSUME NEW i \in S
      PROVE  SMul(D[i], DeriveInterpolatingValue(S, i))
               = SMul(DeriveInterpolatingValue(S, i), Evaluate(b, i))
  <2>1. DeriveInterpolatingValue(S, i) \in Scalar
    BY <1>3, <1>4, DerivedType
  <2>2. Evaluate(b, i) \in Scalar
    BY <1>3, <1>6, Constants, EvaluateAtZero
  <2>3. D[i] = Evaluate(b, i)
    BY <1>7
  <2> QED BY <2>1, <2>2, <2>3, Commute, ScalarInt
<1>9. DOMAIN D = S
  OBVIOUS
<1> HIDE DEF D
<1>10. Interpolate(D)
         = SSum([i \in S |-> SMul(DeriveInterpolatingValue(S, i), Evaluate(b, i))])
  <2>1. [i \in DOMAIN D |-> SMul(D[i], DeriveInterpolatingValue(DOMAIN D, i))]
          = [i \in S |-> SMul(DeriveInterpolatingValue(S, i), Evaluate(b, i))]
    BY <1>8, <1>9
  <2> QED BY <2>1 DEF Interpolate
<1>11. SSum([i \in S |-> SMul(DeriveInterpolatingValue(S, i), Evaluate(b, i))]) = b[1]
  BY <1>1, <1>3, <1>4, <1>6, Constants, InterpolateSecret
<1>12. Reconstruct(S) = keyPoly[1]
  BY <1>6, <1>10, <1>11 DEF Reconstruct, D
<1> QED BY <1>12 DEF VerifyReconstruction

\* The invariant implies PublicSharesCurrent.
LEMMA PublicSharesRight ==
  ASSUME MaintenanceInv
  PROVE  PublicSharesCurrent
<1>1. /\ HistoryIn(keyPoly, refreshes) /\ PublicIn(keyPoly, refreshes, public)
      /\ \A i \in Ids : PackageIn(keyPoly, refreshes, applied[i], doubtful, i, packages[i])
  BY DEF MaintenanceInv, HistoryOK, PublicOK, PackagesOK
<1>2. ASSUME NEW i \in Ids, i \in DOMAIN packages[i].verificationShares
      PROVE  packages[i].verificationShares[i] = ScalarBaseMult(packages[i].secretShare)
  BY <1>1, <1>2 DEF PackageIn
<1>3. ASSUME NEW i \in DOMAIN public \cap Holders,
             \A e \in Epochs : applied[i][e] = IF e <= Len(refreshes) THEN 1 ELSE 0
      PROVE  public[i] = ScalarBaseMult(packages[i].secretShare)
  <2>1. packages[i].secretShare = ShareIn(keyPoly, refreshes, applied[i], i)
        /\ applied[i] \in [Epochs -> Nat]
    BY HolderShare DEF TimesIn
  <2>2. applied[i] = Once(refreshes)
    BY <1>3, <2>1 DEF Once
  <2> QED BY <1>1, <2>1, <2>2 DEF PublicIn
<1>4. ASSUME NEW i \in Ids, NEW j \in Holders,
             j \in DOMAIN packages[i].verificationShares,
             \A e \in Epochs : applied[j][e] = 0
      PROVE  packages[i].verificationShares[j] = ScalarBaseMult(packages[j].secretShare)
  <2>1. CASE i = j
    BY <1>2, <1>4, <2>1
  <2>2. CASE i # j
    <3>1. packages[i].verificationShares[j] = ScalarBaseMult(Evaluate(keyPoly, j))
      BY <1>1, <1>4, <2>2 DEF PackageIn
    <3>2. /\ packages[j].secretShare = ShareIn(keyPoly, refreshes, applied[j], j)
          /\ TimesIn(refreshes, applied[j])
      BY HolderShare
    <3>3. ShareIn(keyPoly, refreshes, applied[j], j) = Evaluate(keyPoly, j)
      BY <1>1, <1>4, <3>2, ShareUnrefreshed
    <3> QED BY <3>1, <3>2, <3>3
  <2> QED BY <2>1, <2>2
<1> QED BY <1>2, <1>3, <1>4 DEF PublicSharesCurrent

\* For every group, threshold, set of polynomials and number of refreshes:
\* whatever was refreshed, lost and repaired, MinSigners holders of proper
\* shares with the same refreshes in them reconstruct the group's secret.
THEOREM SecretSafety == MaintenanceSpec => []SecretSurvives
<1>1. MaintenanceInv => SecretSurvives
  BY SecretReconstructed
<1> QED BY <1>1, MaintenanceInvariant, PTL

\* The verifying shares that ApplyRefreshShare and ComputeRefreshingShares
\* keep up to date are right, for every group and any number of refreshes.
THEOREM PublicSharesSafety == MaintenanceSpec => []PublicSharesCurrent
<1>1. MaintenanceInv => PublicSharesCurrent
  BY PublicSharesRight
<1> QED BY <1>1, MaintenanceInvariant, PTL
=============================================================================
