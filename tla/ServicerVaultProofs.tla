------------------------- MODULE ServicerVaultProofs -------------------------
(***************************************************************************)
(* Theorems about ServicerVault, for all values of its constants: its      *)
(* types and its records, that it implements Settlement, which ids keep    *)
(* the records of two cycles apart, and the ledger it keeps over many      *)
(* cycles: the registry's index, the verifiers' reputation, the snapshots  *)
(* in the receipts and the money.  First, the facts about sums that these  *)
(* rest on.                                                                *)
(***************************************************************************)
EXTENDS VaultRefinement, FiniteSetTheorems, TLAPS

-----------------------------------------------------------------------------
(* Sums of sequences of any length, and sums over finite sets.  The        *)
(* library's induction principles take an operator as a parameter, so they *)
(* are replaced here by one about sets, which follows from the fact that   *)
(* the natural numbers are well ordered.                                   *)

\* The ordering that NatLessThanWellFounded is about, written as a set.
LEMMA LessThanWellFounded ==
  IsWellFoundedOn({ss \in Nat \X Nat : ss[1] < ss[2]}, Nat)
BY NatLessThanWellFounded, Zenon DEF OpToRel

\* A non-empty set of natural numbers has a least element.
LEMMA LeastElement ==
  ASSUME NEW T \in SUBSET Nat, T # {}
  PROVE  \E x \in T : \A y \in T : x <= y
<1> DEFINE R == {ss \in Nat \X Nat : ss[1] < ss[2]}
<1>1. IsWellFoundedOn(R, Nat)
  BY LessThanWellFounded
<1>2. PICK x \in T : \A y \in T : ~(<<y, x>> \in R)
  <2> HIDE DEF R
  <2> QED BY <1>1, WFMin
<1>3. \A y \in T : y < x => <<y, x>> \in R
  OBVIOUS
<1>4. \A y \in T : ~(y < x)
  BY <1>2, <1>3
<1> HIDE DEF R
<1> QED BY <1>4

\* Induction over the natural numbers, for a property given as a set.
LEMMA SetInduction ==
  ASSUME NEW S \in SUBSET Nat, 0 \in S, \A n \in S : n + 1 \in S
  PROVE  S = Nat
<1>1. SUFFICES ASSUME Nat \ S # {} PROVE FALSE
  OBVIOUS
<1>2. PICK x \in Nat \ S : \A y \in Nat \ S : x <= y
  BY <1>1, LeastElement
<1>3. x # 0
  BY <1>2
<1>4. x - 1 \in S
  BY <1>2, <1>3
<1>5. (x - 1) + 1 \in S
  BY <1>4
<1> QED BY <1>5, <1>2

\* g adds up the first n elements of s.
Accumulates(g, s, n) ==
  /\ g \in [0 .. n -> Nat]
  /\ g[0] = 0
  /\ \A i \in 1 .. n : g[i] = g[i - 1] + s[i]

\* Every prefix of a sequence has an accumulator ...
LEMMA AccumulatorExists ==
  ASSUME NEW s \in Seq(Nat)
  PROVE  \E g : Accumulates(g, s, Len(s))
<1> DEFINE S == {m \in Nat : m <= Len(s) => \E g : Accumulates(g, s, m)}
<1>1. Accumulates([i \in 0 .. 0 |-> 0], s, 0)
  BY DEF Accumulates
<1>2. 0 \in S
  BY <1>1
<1>3. ASSUME NEW m \in S, m + 1 <= Len(s)
      PROVE  \E h : Accumulates(h, s, m + 1)
  <2>1. m \in Nat /\ m <= Len(s)
    BY <1>3
  <2>2. PICK g : Accumulates(g, s, m)
    BY <1>3, <2>1
  <2> DEFINE h == [i \in 0 .. (m + 1) |-> IF i = m + 1 THEN g[m] + s[m + 1] ELSE g[i]]
  <2>3. g[m] \in Nat /\ s[m + 1] \in Nat
    BY <2>1, <2>2, <1>3 DEF Accumulates
  <2>4. h \in [0 .. (m + 1) -> Nat]
    BY <2>1, <2>2, <2>3 DEF Accumulates
  <2>5. h[0] = 0
    BY <2>1, <2>2 DEF Accumulates
  <2>6. \A i \in 1 .. m : h[i] = h[i - 1] + s[i]
    BY <2>1, <2>2 DEF Accumulates
  <2>7. h[m + 1] = h[m] + s[m + 1]
    BY <2>1
  <2>8. (m + 1) - 1 = m /\ \A i \in 1 .. (m + 1) : i \in 1 .. m \/ i = m + 1
    BY <2>1
  <2>9. \A i \in 1 .. (m + 1) : h[i] = h[i - 1] + s[i]
    <3> HIDE DEF h
    <3> QED BY <2>6, <2>7, <2>8
  <2> HIDE DEF h
  <2> QED BY <2>4, <2>5, <2>9 DEF Accumulates
<1>4. \A m \in S : m + 1 \in S
  BY <1>3
<1>5. S = Nat
  <2>1. S \in SUBSET Nat
    OBVIOUS
  <2> HIDE DEF S
  <2> QED BY <1>2, <1>4, <2>1, SetInduction
<1>6. Len(s) \in S
  <2>1. Len(s) \in Nat
    OBVIOUS
  <2> HIDE DEF S
  <2> QED BY <1>5, <2>1
<1> QED BY <1>6

\* ... and two accumulators of one sequence agree.
LEMMA AccumulatorUnique ==
  ASSUME NEW s \in Seq(Nat), NEW g, Accumulates(g, s, Len(s)),
         NEW h, h[0] = 0, \A i \in 1 .. Len(s) : h[i] = h[i - 1] + s[i]
  PROVE  \A m \in 0 .. Len(s) : h[m] = g[m]
<1> DEFINE S == {m \in Nat : m <= Len(s) => h[m] = g[m]}
<1>1. 0 \in S
  BY DEF Accumulates
<1>2. ASSUME NEW m \in S, m + 1 <= Len(s)
      PROVE  h[m + 1] = g[m + 1]
  <2>1. m + 1 \in 1 .. Len(s) /\ (m + 1) - 1 = m
    BY <1>2
  <2>2. h[m] = g[m]
    BY <1>2
  <2> QED BY <2>1, <2>2 DEF Accumulates
<1>3. \A m \in S : m + 1 \in S
  BY <1>2
<1>4. S = Nat
  <2>1. S \in SUBSET Nat
    OBVIOUS
  <2> HIDE DEF S
  <2> QED BY <1>1, <1>3, <2>1, SetInduction
<1>5. \A m \in 0 .. Len(s) : m \in S
  BY <1>4
<1> QED BY <1>5

\* The recursive definition of PrefixSum has a solution, so PrefixSum is it.
LEMMA PrefixSumAccumulates ==
  ASSUME NEW s \in Seq(Nat)
  PROVE  Accumulates(PrefixSum(s), s, Len(s))
<1> DEFINE Solves(g) == g = [i \in 0 .. Len(s) |-> IF i = 0 THEN 0 ELSE g[i - 1] + s[i]]
           h == PrefixSum(s)
<1>1. PICK g : Accumulates(g, s, Len(s))
  BY AccumulatorExists
<1>2. Solves(g)
  BY <1>1 DEF Accumulates
<1>3. h = CHOOSE f : Solves(f)
  BY DEF PrefixSum
<1>4. Solves(h)
  <2> HIDE DEF Solves, h
  <2> QED BY <1>2, <1>3, Zenon
<1>5. h[0] = 0 /\ \A i \in 1 .. Len(s) : h[i] = h[i - 1] + s[i]
  <2> HIDE DEF h
  <2> QED BY <1>4
<1>6. \A m \in 0 .. Len(s) : h[m] = g[m]
  <2> HIDE DEF h, Solves
  <2> QED BY <1>1, <1>5, AccumulatorUnique
<1>7. h = g
  <2> HIDE DEF h
  <2> QED BY <1>4, <1>6, <1>1 DEF Accumulates
<1> QED BY <1>7, <1>1

\* A sum of natural numbers is a natural number.
LEMMA TotalType ==
  ASSUME NEW s \in Seq(Nat)
  PROVE  Total(s) \in Nat
BY PrefixSumAccumulates DEF Total, Accumulates

\* Integer division rounds down, by less than the divisor.
LEMMA DivBounds ==
  ASSUME NEW a \in Nat, NEW b \in Nat, b > 0
  PROVE  /\ a \div b \in Nat
         /\ b * (a \div b) <= a
         /\ a < b * (a \div b) + b
OBVIOUS

\* The heart of the pay loop: the rounded pro-rata shares of p do not exceed
\* p, and what they leave is less than one unit per share.
LEMMA ProRataBounds ==
  ASSUME NEW s \in Seq(Nat), NEW p \in Nat, Total(s) > 0
  PROVE  LET t == [i \in DOMAIN s |-> (p * s[i]) \div Total(s)]
         IN  /\ t \in Seq(Nat)
             /\ Total(t) <= p
             /\ p < Total(t) + Len(s)
<1> DEFINE W == Total(s)
           share(i) == (p * s[i]) \div W
           t == [i \in DOMAIN s |-> share(i)]
           A(i) == PrefixSum(s)[i]
           B(i) == PrefixSum(t)[i]
           n == Len(s)
<1>1. W \in Nat /\ n \in Nat
  BY TotalType
<1>2. ASSUME NEW i \in 1 .. n
      PROVE  /\ share(i) \in Nat
             /\ W * share(i) <= p * s[i]
             /\ p * s[i] < W * share(i) + W
  <2>1. s[i] \in Nat
    OBVIOUS
  <2>2. p * s[i] \in Nat
    BY <2>1
  <2> HIDE DEF W
  <2> QED BY <1>1, <2>2, DivBounds DEF W
<1>3. t \in Seq(Nat) /\ Len(t) = n
  <2>1. DOMAIN s = 1 .. n /\ n \in Nat
    OBVIOUS
  <2>2. \A i \in 1 .. n : share(i) \in Nat
    BY <1>2
  <2> HIDE DEF share, n
  <2>3. t \in [1 .. n -> Nat]
    BY <2>1, <2>2
  <2> HIDE DEF t
  <2> QED BY <2>1, <2>3
<1>4. \A i \in 0 .. n : A(i) \in Nat /\ B(i) \in Nat
  BY <1>3, PrefixSumAccumulates DEF Accumulates
<1>5. A(0) = 0 /\ B(0) = 0
  BY <1>3, PrefixSumAccumulates DEF Accumulates
<1>6. \A i \in 1 .. n : A(i) = A(i - 1) + s[i] /\ B(i) = B(i - 1) + share(i)
  <2>1. \A i \in 1 .. n : A(i) = A(i - 1) + s[i]
    BY PrefixSumAccumulates DEF Accumulates
  <2>2. \A i \in 1 .. n : B(i) = B(i - 1) + t[i]
    <3> HIDE DEF t
    <3> QED BY <1>3, PrefixSumAccumulates DEF Accumulates
  <2>3. \A i \in 1 .. n : t[i] = share(i)
    OBVIOUS
  <2> HIDE DEF t, share
  <2> QED BY <2>1, <2>2, <2>3
<1> DEFINE Bounded(i) == /\ W * B(i) <= p * A(i)
                         /\ p * A(i) <= W * B(i) + W * i
                         /\ i > 0 => p * A(i) < W * B(i) + W * i
           S == {i \in Nat : i <= n => Bounded(i)}
<1>7. 0 \in S
  <2> HIDE DEF A, B, W
  <2> QED BY <1>1, <1>5
<1>8. ASSUME NEW i \in S, i + 1 <= n
      PROVE  Bounded(i + 1)
  <2> DEFINE a == A(i)
             b == B(i)
             x == s[i + 1]
             y == share(i + 1)
  <2>1. /\ i \in Nat /\ i + 1 \in 1 .. n /\ (i + 1) - 1 = i
        /\ W * b <= p * a /\ p * a <= W * b + W * i
    <3> HIDE DEF A, B, W
    <3> QED BY <1>1, <1>8
  <2>2. A(i + 1) = a + x /\ B(i + 1) = b + y
    <3> HIDE DEF A, B, share
    <3> QED BY <2>1, <1>6
  <2>3. /\ a \in Nat /\ b \in Nat /\ x \in Nat /\ y \in Nat
        /\ W * y <= p * x /\ p * x < W * y + W
    <3>1. a \in Nat /\ b \in Nat
      <4> HIDE DEF A, B
      <4> QED BY <1>4, <2>1
    <3>2. x \in Nat
      BY <2>1
    <3> HIDE DEF share, A, B, W
    <3> QED BY <3>1, <3>2, <1>2, <2>1
  <2> HIDE DEF a, b, x, y, A, B, W
  <2>4. /\ p * (a + x) = p * a + p * x
        /\ W * (b + y) = W * b + W * y
        /\ W * (i + 1) = W * i + W
    BY <1>1, <2>1, <2>3
  <2>5. /\ p * a \in Nat /\ p * x \in Nat /\ W * b \in Nat
        /\ W * y \in Nat /\ W * i \in Nat
    BY <1>1, <2>1, <2>3
  <2> QED BY <1>1, <2>1, <2>2, <2>3, <2>4, <2>5
<1>9. \A i \in S : i + 1 \in S
  <2> HIDE DEF Bounded
  <2> QED BY <1>8
<1>10. S = Nat
  <2>1. S \in SUBSET Nat
    OBVIOUS
  <2> HIDE DEF S
  <2> QED BY <1>7, <1>9, <2>1, SetInduction
<1>11. Bounded(n)
  <2> HIDE DEF Bounded
  <2> QED BY <1>1, <1>10
<1>12. A(n) = W /\ B(n) = Total(t)
  BY <1>3 DEF Total
<1>13. n > 0
  <2> HIDE DEF A, B, W
  <2> QED BY <1>1, <1>5, <1>12 DEF W
<1>14. B(n) <= p /\ p < B(n) + n
  <2> DEFINE b == B(n)
  <2>1. b \in Nat
    <3> HIDE DEF B
    <3> QED BY <1>1, <1>4
  <2>2. W * b <= p * W /\ p * W < W * b + W * n
    <3> HIDE DEF A, B, W
    <3> QED BY <1>11, <1>12, <1>13
  <2>3. W > 0
    OBVIOUS
  <2> HIDE DEF b, W
  <2>4. b <= p
    BY <1>1, <2>1, <2>2, <2>3
  <2>5. p < b + n
    BY <1>1, <2>1, <2>2, <2>3
  <2> QED BY <2>4, <2>5 DEF b
<1> HIDE DEF W, A, B, n
<1> QED BY <1>3, <1>12, <1>14 DEF n, W

-----------------------------------------------------------------------------
(* Sums over finite sets, SumFunctionOnSet of the community modules.  It   *)
(* takes the elements away in an order of its own; here is what it adds up *)
(* to whatever that order is.                                              *)

\* h adds up f over every set of D, taking away one element at a time.
AddsUp(h, f, D) ==
  h = [s \in D |-> IF s = {} THEN 0
                   ELSE f[CHOOSE x \in s : TRUE] + h[s \ {CHOOSE x \in s : TRUE}]]

\* The community modules' sum is the recursive function of that description.
LEMMA SumUnfolds ==
  ASSUME NEW f, NEW S
  PROVE  SumFunctionOnSet(f, S) = (CHOOSE h : AddsUp(h, f, SUBSET S))[S]
BY DEF SumFunctionOnSet, FoldFunctionOnSet, MapThenFoldSet, AddsUp

\* Over the subsets of a finite set there is such a function ...
LEMMA SumSolvable ==
  ASSUME NEW f, NEW S, IsFiniteSet(S)
  PROVE  \E h : AddsUp(h, f, SUBSET S)
<1> DEFINE Upto(n) == {s \in SUBSET S : Cardinality(s) <= n}
           N == {n \in Nat : \E h : AddsUp(h, f, Upto(n))}
           pick(s) == CHOOSE x \in s : TRUE
<1>1. \A s \in SUBSET S : IsFiniteSet(s) /\ Cardinality(s) \in Nat
  BY FS_Subset, FS_CardinalityType
<1>2. ASSUME NEW s \in SUBSET S, s # {}
      PROVE  /\ pick(s) \in s
             /\ s \ {pick(s)} \in SUBSET S
             /\ Cardinality(s) > 0
             /\ Cardinality(s \ {pick(s)}) = Cardinality(s) - 1
  <2>1. pick(s) \in s
    BY <1>2
  <2>2. Cardinality(s \ {pick(s)}) = Cardinality(s) - 1
    <3> HIDE DEF pick
    <3> QED BY <1>1, <2>1, FS_RemoveElement
  <2>3. Cardinality(s) # 0
    BY <1>1, <1>2, FS_EmptySet
  <2> HIDE DEF pick
  <2> QED BY <1>1, <2>1, <2>2, <2>3
<1>3. 0 \in N
  <2> DEFINE h == [s \in Upto(0) |-> 0]
  <2>1. \A s \in Upto(0) : s = {}
    BY <1>1, FS_EmptySet
  <2>2. AddsUp(h, f, Upto(0))
    <3> HIDE DEF Upto
    <3> QED BY <2>1 DEF AddsUp
  <2> HIDE DEF h, Upto
  <2> QED BY <2>2
<1>4. ASSUME NEW n \in N PROVE n + 1 \in N
  <2>1. PICK h : AddsUp(h, f, Upto(n))
    BY <1>4
  <2> DEFINE g == [s \in Upto(n + 1) |->
                     IF s = {} THEN 0 ELSE f[pick(s)] + h[s \ {pick(s)}]]
  <2>2. n \in Nat
    BY <1>4
  <2>3. \A s \in Upto(n) : s \in Upto(n + 1)
    BY <1>1, <2>2
  <2>4. \A s \in Upto(n + 1) : s # {} => s \ {pick(s)} \in Upto(n)
    <3> HIDE DEF pick
    <3> QED BY <1>1, <1>2, <2>2
  <2> HIDE DEF Upto
  <2>5. \A s \in Upto(n) : g[s] = h[s]
    BY <2>1, <2>3 DEF AddsUp
  <2>6. \A s \in Upto(n + 1) : s # {} => g[s \ {pick(s)}] = h[s \ {pick(s)}]
    <3> HIDE DEF g, pick
    <3> QED BY <2>4, <2>5
  <2>7. \A s \in Upto(n + 1) :
           g[s] = IF s = {} THEN 0 ELSE f[pick(s)] + g[s \ {pick(s)}]
    <3> SUFFICES ASSUME NEW s \in Upto(n + 1)
                 PROVE g[s] = IF s = {} THEN 0 ELSE f[pick(s)] + g[s \ {pick(s)}]
      OBVIOUS
    <3>1. g[s] = IF s = {} THEN 0 ELSE f[pick(s)] + h[s \ {pick(s)}]
      OBVIOUS
    <3> HIDE DEF g, pick
    <3> QED BY <2>6, <3>1
  <2>8. g = [s \in Upto(n + 1) |->
               IF s = {} THEN 0 ELSE f[pick(s)] + g[s \ {pick(s)}]]
    <3>1. g = [s \in Upto(n + 1) |-> g[s]]
      OBVIOUS
    <3> HIDE DEF g, pick
    <3> QED BY <2>7, <3>1
  <2>9. AddsUp(g, f, Upto(n + 1))
    BY <2>8 DEF AddsUp
  <2> HIDE DEF g
  <2> QED BY <2>2, <2>9
<1>5. N = Nat
  <2>1. N \in SUBSET Nat
    OBVIOUS
  <2> HIDE DEF N
  <2> QED BY <1>3, <1>4, <2>1, SetInduction
<1>6. Cardinality(S) \in Nat /\ Upto(Cardinality(S)) = SUBSET S
  BY <1>1, FS_Subset
<1>7. Cardinality(S) \in N
  <2> HIDE DEF N
  <2> QED BY <1>5, <1>6
<1> QED BY <1>6, <1>7

\* ... and only one, on the sets that two of them share.
LEMMA SumUnique ==
  ASSUME NEW f, NEW S, NEW T, NEW g, NEW h, IsFiniteSet(S), T \in SUBSET S,
         AddsUp(g, f, SUBSET S), AddsUp(h, f, SUBSET T)
  PROVE  g[T] = h[T]
<1> DEFINE N == {n \in Nat : \A s \in SUBSET T : Cardinality(s) = n => g[s] = h[s]}
           pick(s) == CHOOSE x \in s : TRUE
<1>1. \A s \in SUBSET T : IsFiniteSet(s) /\ Cardinality(s) \in Nat
  <2>1. IsFiniteSet(T)
    BY FS_Subset
  <2> QED BY <2>1, FS_Subset, FS_CardinalityType
<1>2. /\ \A s \in SUBSET S : g[s] = IF s = {} THEN 0 ELSE f[pick(s)] + g[s \ {pick(s)}]
      /\ \A s \in SUBSET T : h[s] = IF s = {} THEN 0 ELSE f[pick(s)] + h[s \ {pick(s)}]
  BY DEF AddsUp
<1>3. 0 \in N
  BY <1>1, <1>2, FS_EmptySet
<1>4. ASSUME NEW n \in N PROVE n + 1 \in N
  <2>1. n \in Nat
    BY <1>4
  <2>2. SUFFICES ASSUME NEW s \in SUBSET T, Cardinality(s) = n + 1
                 PROVE  g[s] = h[s]
    BY <2>1
  <2>3. s # {}
    BY <1>1, <2>1, <2>2, FS_EmptySet
  <2>4. pick(s) \in s
    BY <2>3
  <2>5. Cardinality(s \ {pick(s)}) = n
    <3> HIDE DEF pick
    <3> QED BY <1>1, <2>1, <2>2, <2>4, FS_RemoveElement
  <2>6. g[s \ {pick(s)}] = h[s \ {pick(s)}]
    <3>1. s \ {pick(s)} \in SUBSET T
      OBVIOUS
    <3> HIDE DEF pick
    <3> QED BY <1>4, <2>5, <3>1
  <2> HIDE DEF pick
  <2> QED BY <1>2, <2>3, <2>6
<1>5. N = Nat
  <2>1. N \in SUBSET Nat
    OBVIOUS
  <2> HIDE DEF N
  <2> QED BY <1>3, <1>4, <2>1, SetInduction
<1>6. Cardinality(T) \in N
  <2>1. Cardinality(T) \in Nat
    BY <1>1
  <2> HIDE DEF N
  <2> QED BY <2>1, <1>5
<1> QED BY <1>6

\* What the recursive definition says of a finite set.
LEMMA SumStep ==
  ASSUME NEW f, NEW S, IsFiniteSet(S)
  PROVE  SumFunctionOnSet(f, S) =
           IF S = {} THEN 0
           ELSE f[CHOOSE x \in S : TRUE]
                  + SumFunctionOnSet(f, S \ {CHOOSE x \in S : TRUE})
<1> DEFINE T == S \ {CHOOSE x \in S : TRUE}
           Solution(D) == CHOOSE h : AddsUp(h, f, SUBSET D)
<1>1. T \in SUBSET S /\ IsFiniteSet(T)
  BY FS_Subset
<1>2. AddsUp(Solution(S), f, SUBSET S)
  BY SumSolvable
<1>3. AddsUp(Solution(T), f, SUBSET T)
  <2> HIDE DEF T
  <2> QED BY <1>1, SumSolvable
<1>4. SumFunctionOnSet(f, S) = Solution(S)[S]
  BY SumUnfolds
<1>5. SumFunctionOnSet(f, T) = Solution(T)[T]
  <2> HIDE DEF T
  <2> QED BY SumUnfolds
<1>6. Solution(S)[T] = Solution(T)[T]
  <2> DEFINE g == Solution(S)
             h == Solution(T)
  <2>1. AddsUp(g, f, SUBSET S) /\ AddsUp(h, f, SUBSET T)
    BY <1>2, <1>3
  <2> HIDE DEF T, g, h
  <2>2. g[T] = h[T]
    BY <1>1, <2>1, SumUnique
  <2> QED BY <2>2 DEF g, h
<1>7. Solution(S)[S] = IF S = {} THEN 0 ELSE f[CHOOSE x \in S : TRUE] + Solution(S)[T]
  <2> HIDE DEF Solution
  <2> QED BY <1>2 DEF AddsUp
<1> HIDE DEF Solution
<1> QED BY <1>4, <1>5, <1>6, <1>7

\* The sum of integers is one.
LEMMA SumType ==
  ASSUME NEW S, IsFiniteSet(S), NEW f, \A x \in S : f[x] \in Int
  PROVE  \A s \in SUBSET S : SumFunctionOnSet(f, s) \in Int
<1> DEFINE N == {n \in Nat : \A s \in SUBSET S :
                   Cardinality(s) = n => SumFunctionOnSet(f, s) \in Int}
<1>1. \A s \in SUBSET S : IsFiniteSet(s) /\ Cardinality(s) \in Nat
  BY FS_Subset, FS_CardinalityType
<1>2. 0 \in N
  <2>1. \A s \in SUBSET S : Cardinality(s) = 0 => s = {}
    BY <1>1, FS_EmptySet
  <2>2. SumFunctionOnSet(f, {}) = 0
    BY SumStep, FS_EmptySet
  <2> QED BY <2>1, <2>2
<1>3. ASSUME NEW n \in N PROVE n + 1 \in N
  <2>1. n \in Nat
    BY <1>3
  <2>2. SUFFICES ASSUME NEW s \in SUBSET S, Cardinality(s) = n + 1
                 PROVE  SumFunctionOnSet(f, s) \in Int
    BY <2>1
  <2>3. s # {} /\ IsFiniteSet(s)
    BY <1>1, <2>1, <2>2, FS_EmptySet
  <2>4. PICK x \in s : SumFunctionOnSet(f, s) = f[x] + SumFunctionOnSet(f, s \ {x})
    <3>1. (CHOOSE x \in s : TRUE) \in s
      BY <2>3
    <3> QED BY <2>3, <3>1, SumStep
  <2>5. Cardinality(s \ {x}) = n /\ s \ {x} \in SUBSET S
    BY <1>1, <2>1, <2>2, <2>3, FS_RemoveElement
  <2>6. SumFunctionOnSet(f, s \ {x}) \in Int
    BY <1>3, <2>5
  <2>7. f[x] \in Int
    OBVIOUS
  <2> QED BY <2>4, <2>6, <2>7
<1>4. N = Nat
  <2>1. N \in SUBSET Nat
    OBVIOUS
  <2> HIDE DEF N
  <2> QED BY <1>2, <1>3, <2>1, SetInduction
<1>5. \A s \in SUBSET S : Cardinality(s) \in N
  <2> HIDE DEF N
  <2> QED BY <1>1, <1>4
<1> QED BY <1>5

\* The element that is taken away first makes no difference.
LEMMA SumRemove ==
  ASSUME NEW S, IsFiniteSet(S), NEW f, \A x \in S : f[x] \in Int, NEW y \in S
  PROVE  SumFunctionOnSet(f, S) = f[y] + SumFunctionOnSet(f, S \ {y})
<1> DEFINE Sum(s) == SumFunctionOnSet(f, s)
           AnyFirst(s) == \A z \in s : Sum(s) = f[z] + Sum(s \ {z})
           N == {n \in Nat : \A s \in SUBSET S : Cardinality(s) = n => AnyFirst(s)}
<1>1. \A s \in SUBSET S : IsFiniteSet(s) /\ Cardinality(s) \in Nat
  BY FS_Subset, FS_CardinalityType
<1>2. \A s \in SUBSET S : Sum(s) \in Int
  BY SumType
<1>3. 0 \in N
  <2>1. \A s \in SUBSET S : Cardinality(s) = 0 => s = {}
    BY <1>1, FS_EmptySet
  <2> QED BY <2>1
<1>4. ASSUME NEW n \in N PROVE n + 1 \in N
  <2>1. n \in Nat
    BY <1>4
  <2>2. SUFFICES ASSUME NEW s \in SUBSET S, Cardinality(s) = n + 1
                 PROVE  AnyFirst(s)
    BY <2>1
  <2>3. s # {} /\ IsFiniteSet(s)
    BY <1>1, <2>1, <2>2, FS_EmptySet
  <2>4. PICK x \in s : Sum(s) = f[x] + Sum(s \ {x})
    <3>1. (CHOOSE x \in s : TRUE) \in s
      BY <2>3
    <3> QED BY <2>3, <3>1, SumStep
  <2>5. \A z \in s : Cardinality(s \ {z}) = n /\ s \ {z} \in SUBSET S
    <3> SUFFICES ASSUME NEW z \in s PROVE Cardinality(s \ {z}) = n
      OBVIOUS
    <3>1. Cardinality(s \ {z}) = Cardinality(s) - 1
      BY <2>3, FS_RemoveElement
    <3> QED BY <2>1, <2>2, <3>1
  <2>6. \A z \in s : AnyFirst(s \ {z})
    <3> HIDE DEF AnyFirst
    <3> QED BY <1>4, <2>5
  <2>7. ASSUME NEW z \in s PROVE Sum(s) = f[z] + Sum(s \ {z})
    <3>1. CASE z = x
      BY <3>1, <2>4
    <3>2. CASE z # x
      <4>1. z \in s \ {x} /\ x \in s \ {z}
        BY <3>2
      <4> DEFINE rest == (s \ {x}) \ {z}
      <4>2. Sum(s \ {x}) = f[z] + Sum(rest)
        BY <2>6, <4>1
      <4>3. (s \ {z}) \ {x} = rest
        OBVIOUS
      <4>4. Sum(s \ {z}) = f[x] + Sum(rest)
        <5>1. Sum(s \ {z}) = f[x] + Sum((s \ {z}) \ {x})
          BY <2>6, <4>1
        <5> HIDE DEF Sum, rest
        <5> QED BY <4>3, <5>1
      <4>5. f[x] \in Int /\ f[z] \in Int /\ rest \in SUBSET S
        OBVIOUS
      <4>6. Sum(rest) \in Int
        <5> HIDE DEF Sum, rest
        <5> QED BY <1>2, <4>5
      <4>7. Sum(s) = f[x] + Sum(s \ {x})
        BY <2>4
      <4> HIDE DEF Sum, rest
      <4>8. f[x] + (f[z] + Sum(rest)) = f[z] + (f[x] + Sum(rest))
        BY <4>5, <4>6
      <4> QED BY <4>2, <4>4, <4>7, <4>8
    <3> QED BY <3>1, <3>2
  <2> QED BY <2>7
<1>5. N = Nat
  <2>1. N \in SUBSET Nat
    OBVIOUS
  <2> HIDE DEF N
  <2> QED BY <1>3, <1>4, <2>1, SetInduction
<1>6. AnyFirst(S)
  <2>1. Cardinality(S) \in Nat
    BY <1>1
  <2>2. Cardinality(S) \in N
    <3> HIDE DEF N
    <3> QED BY <2>1, <1>5
  <2> QED BY <2>2
<1> QED BY <1>6

\* One more element adds its value.
LEMMA SumInsert ==
  ASSUME NEW S, NEW f, NEW y, IsFiniteSet(S), y \notin S,
         \A x \in S \cup {y} : f[x] \in Int
  PROVE  SumFunctionOnSet(f, S \cup {y}) = f[y] + SumFunctionOnSet(f, S)
<1> DEFINE T == S \cup {y}
<1>1. IsFiniteSet(T) /\ y \in T /\ T \ {y} = S /\ \A x \in T : f[x] \in Int
  BY FS_AddElement
<1>2. SumFunctionOnSet(f, T) = f[y] + SumFunctionOnSet(f, T \ {y})
  <2> HIDE DEF T
  <2> QED BY <1>1, SumRemove
<1> QED BY <1>1, <1>2

\* A function of the subsets that obeys the definition is the sum.
LEMMA SumIs ==
  ASSUME NEW f, NEW S, NEW h, IsFiniteSet(S), AddsUp(h, f, SUBSET S)
  PROVE  SumFunctionOnSet(f, S) = h[S]
<1> DEFINE g == CHOOSE u : AddsUp(u, f, SUBSET S)
<1>1. AddsUp(g, f, SUBSET S)
  OBVIOUS
<1>2. SumFunctionOnSet(f, S) = g[S]
  BY SumUnfolds
<1> HIDE DEF g
<1>3. S \in SUBSET S
  OBVIOUS
<1>4. g[S] = h[S]
  BY <1>1, <1>3, SumUnique
<1> QED BY <1>2, <1>4

\* Only the values on the set count.
LEMMA SumSame ==
  ASSUME NEW S, NEW f, NEW g, IsFiniteSet(S), \A x \in S : f[x] = g[x]
  PROVE  SumFunctionOnSet(f, S) = SumFunctionOnSet(g, S)
<1> DEFINE pick(s) == CHOOSE x \in s : TRUE
           h == CHOOSE u : AddsUp(u, g, SUBSET S)
<1>1. AddsUp(h, g, SUBSET S)
  BY SumSolvable
<1>2. SumFunctionOnSet(g, S) = h[S]
  BY SumUnfolds
<1> HIDE DEF h
<1>3. \A s \in SUBSET S : s # {} => f[pick(s)] = g[pick(s)]
  <2> SUFFICES ASSUME NEW s \in SUBSET S, s # {} PROVE f[pick(s)] = g[pick(s)]
    OBVIOUS
  <2>1. pick(s) \in S
    OBVIOUS
  <2> HIDE DEF pick
  <2> QED BY <2>1
<1>4. AddsUp(h, f, SUBSET S)
  <2>1. h = [s \in SUBSET S |-> IF s = {} THEN 0 ELSE g[pick(s)] + h[s \ {pick(s)}]]
    BY <1>1 DEF AddsUp
  <2>2. h = [s \in SUBSET S |-> IF s = {} THEN 0 ELSE f[pick(s)] + h[s \ {pick(s)}]]
    <3> HIDE DEF pick
    <3> QED BY <1>3, <2>1
  <2> QED BY <2>2 DEF AddsUp
<1>5. SumFunctionOnSet(f, S) = h[S]
  BY <1>4, SumIs
<1> QED BY <1>2, <1>5

\* Nothing adds up to nothing.
LEMMA SumZero ==
  ASSUME NEW S, NEW f, IsFiniteSet(S), \A x \in S : f[x] = 0
  PROVE  SumFunctionOnSet(f, S) = 0
<1> DEFINE h == [s \in SUBSET S |-> 0]
           pick(s) == CHOOSE x \in s : TRUE
<1>1. \A s \in SUBSET S : s # {} => f[pick(s)] = 0 /\ s \ {pick(s)} \in SUBSET S
  <2> SUFFICES ASSUME NEW s \in SUBSET S, s # {} PROVE f[pick(s)] = 0
    OBVIOUS
  <2>1. pick(s) \in S
    OBVIOUS
  <2> HIDE DEF pick
  <2> QED BY <2>1
<1>2. h = [s \in SUBSET S |-> IF s = {} THEN 0 ELSE f[pick(s)] + h[s \ {pick(s)}]]
  <2> HIDE DEF pick
  <2> QED BY <1>1
<1>3. AddsUp(h, f, SUBSET S)
  BY <1>2 DEF AddsUp
<1>4. h[S] = 0
  OBVIOUS
<1> HIDE DEF h
<1> QED BY <1>3, <1>4, SumIs

\* The sum of sums.
LEMMA SumPlus ==
  ASSUME NEW S, NEW f, NEW g, NEW e, IsFiniteSet(S),
         \A x \in S : f[x] \in Int /\ g[x] \in Int /\ e[x] = f[x] + g[x]
  PROVE  SumFunctionOnSet(e, S) = SumFunctionOnSet(f, S) + SumFunctionOnSet(g, S)
<1> DEFINE F(s) == SumFunctionOnSet(f, s)
           G(s) == SumFunctionOnSet(g, s)
           h == [s \in SUBSET S |-> F(s) + G(s)]
           pick(s) == CHOOSE x \in s : TRUE
<1>1. \A s \in SUBSET S : F(s) \in Int /\ G(s) \in Int
  BY SumType
<1>2. ASSUME NEW s \in SUBSET S, s # {}
      PROVE  F(s) + G(s) = e[pick(s)] + (F(s \ {pick(s)}) + G(s \ {pick(s)}))
  <2>1. pick(s) \in S /\ s \ {pick(s)} \in SUBSET S /\ IsFiniteSet(s)
    BY <1>2, FS_Subset
  <2>2. F(s) = f[pick(s)] + F(s \ {pick(s)}) /\ G(s) = g[pick(s)] + G(s \ {pick(s)})
    BY <1>2, <2>1, SumStep
  <2> HIDE DEF pick, F, G
  <2>3. F(s \ {pick(s)}) \in Int /\ G(s \ {pick(s)}) \in Int
    BY <1>1, <2>1
  <2>4. e[pick(s)] = f[pick(s)] + g[pick(s)] /\ f[pick(s)] \in Int /\ g[pick(s)] \in Int
    BY <2>1
  <2> QED BY <2>2, <2>3, <2>4
<1>3. F({}) + G({}) = 0
  <2>1. IsFiniteSet({})
    BY FS_EmptySet
  <2>2. F({}) = 0 /\ G({}) = 0
    BY <2>1, SumStep
  <2> QED BY <2>2
<1>4. h = [s \in SUBSET S |-> IF s = {} THEN 0 ELSE e[pick(s)] + h[s \ {pick(s)}]]
  <2> HIDE DEF pick, F, G
  <2>1. \A s \in SUBSET S : s \ {pick(s)} \in SUBSET S
    OBVIOUS
  <2> QED BY <1>2, <1>3, <2>1
<1>5. AddsUp(h, e, SUBSET S)
  BY <1>4 DEF AddsUp
<1>6. h[S] = F(S) + G(S)
  OBVIOUS
<1> HIDE DEF h
<1> QED BY <1>5, <1>6, SumIs

\* What one changed value does to the sum.
LEMMA SumUpdate ==
  ASSUME NEW S, NEW f, NEW g, NEW y, NEW d, IsFiniteSet(S), y \in S,
         \A x \in S : f[x] \in Int, d \in Int,
         \A x \in S : g[x] = IF x = y THEN f[x] + d ELSE f[x]
  PROVE  SumFunctionOnSet(g, S) = SumFunctionOnSet(f, S) + d
<1>1. IsFiniteSet(S \ {y}) /\ \A x \in S \ {y} : g[x] = f[x]
  BY FS_RemoveElement
<1>2. SumFunctionOnSet(g, S \ {y}) = SumFunctionOnSet(f, S \ {y})
  BY <1>1, SumSame
<1>3. \A x \in S : g[x] \in Int
  OBVIOUS
<1>4. SumFunctionOnSet(f, S) = f[y] + SumFunctionOnSet(f, S \ {y})
  BY SumRemove
<1>5. SumFunctionOnSet(g, S) = g[y] + SumFunctionOnSet(g, S \ {y})
  BY <1>3, SumRemove
<1>6. SumFunctionOnSet(f, S \ {y}) \in Int
  BY SumType
<1>7. g[y] = f[y] + d /\ f[y] \in Int
  OBVIOUS
<1> QED BY <1>2, <1>4, <1>5, <1>6, <1>7

\* If each entry of a sequence is handed to one of the recipients of H, what
\* they have received adds up to the sum of the sequence.
LEMMA SumOfParts ==
  ASSUME NEW H, NEW t, NEW to, IsFiniteSet(H), t \in Seq(Nat),
         \A i \in DOMAIN t : to[i] \in H
  PROVE  SumFunctionOnSet(
           [h \in H |-> Total([i \in DOMAIN t |-> IF to[i] = h THEN t[i] ELSE 0])], H)
             = Total(t)
<1> DEFINE part(h) == [i \in DOMAIN t |-> IF to[i] = h THEN t[i] ELSE 0]
           n == Len(t)
           col(i) == [h \in H |-> PrefixSum(part(h))[i]]
           B(i) == PrefixSum(t)[i]
           S == {i \in Nat : i <= n => SumFunctionOnSet(col(i), H) = B(i)}
<1>1. n \in Nat /\ DOMAIN t = 1 .. n /\ \A i \in 1 .. n : t[i] \in Nat
  OBVIOUS
<1>2. \A h \in H : part(h) \in Seq(Nat) /\ Len(part(h)) = n
  <2> SUFFICES ASSUME NEW h \in H PROVE part(h) \in Seq(Nat) /\ Len(part(h)) = n
    OBVIOUS
  <2>1. part(h) \in [1 .. n -> Nat]
    BY <1>1
  <2> HIDE DEF part, n
  <2> QED BY <1>1, <2>1
<1>3. \A h \in H : Accumulates(PrefixSum(part(h)), part(h), n)
  <2> HIDE DEF part, n
  <2> QED BY <1>2, PrefixSumAccumulates
<1>4. Accumulates(PrefixSum(t), t, n)
  BY PrefixSumAccumulates
<1>5. \A i \in 0 .. n : \A h \in H : col(i)[h] \in Nat
  <2> HIDE DEF part, n
  <2> QED BY <1>3 DEF Accumulates
<1>6. 0 \in S
  <2>1. \A h \in H : col(0)[h] = 0
    <3> HIDE DEF part, n
    <3> QED BY <1>3 DEF Accumulates
  <2>2. SumFunctionOnSet(col(0), H) = 0
    <3> HIDE DEF col
    <3> QED BY <2>1, SumZero
  <2>3. B(0) = 0
    BY <1>4 DEF Accumulates
  <2> HIDE DEF col, B
  <2> QED BY <2>2, <2>3
<1>7. ASSUME NEW i \in S, i + 1 <= n
      PROVE  SumFunctionOnSet(col(i + 1), H) = B(i + 1)
  <2>1. /\ i \in Nat /\ i + 1 \in 1 .. n /\ (i + 1) - 1 = i /\ i \in 0 .. n
        /\ SumFunctionOnSet(col(i), H) = B(i)
    <3> HIDE DEF col, B, n
    <3> QED BY <1>1, <1>7
  <2> DEFINE y == to[i + 1]
             d == t[i + 1]
  <2>2. y \in H /\ d \in Int
    BY <1>1, <2>1
  <2>3. \A h \in H : col(i + 1)[h] = IF h = y THEN col(i)[h] + d ELSE col(i)[h]
    <3> SUFFICES ASSUME NEW h \in H
                 PROVE  col(i + 1)[h] = IF h = y THEN col(i)[h] + d ELSE col(i)[h]
      OBVIOUS
    <3>1. PrefixSum(part(h))[i + 1] = PrefixSum(part(h))[i] + part(h)[i + 1]
      <4> HIDE DEF part, n
      <4> QED BY <1>3, <2>1 DEF Accumulates
    <3>2. part(h)[i + 1] = IF h = y THEN d ELSE 0
      BY <1>1, <2>1
    <3>3. PrefixSum(part(h))[i] \in Nat
      <4> HIDE DEF part, n
      <4> QED BY <1>3, <2>1 DEF Accumulates
    <3> HIDE DEF part, d, y
    <3> QED BY <3>1, <3>2, <3>3
  <2>4. \A h \in H : col(i)[h] \in Int
    <3> HIDE DEF col, n
    <3> QED BY <1>5, <2>1
  <2> DEFINE f == col(i)
             g == col(i + 1)
  <2>5. SumFunctionOnSet(g, H) = SumFunctionOnSet(f, H) + d
    <3>1. /\ \A h \in H : f[h] \in Int
          /\ \A h \in H : g[h] = IF h = y THEN f[h] + d ELSE f[h]
      <4> HIDE DEF col, y, d
      <4> QED BY <2>3, <2>4
    <3> HIDE DEF f, g, y, d
    <3> QED BY <2>2, <3>1, SumUpdate
  <2>6. B(i + 1) = B(i) + d
    <3> HIDE DEF n
    <3> QED BY <1>4, <2>1 DEF Accumulates
  <2> HIDE DEF col, B, d
  <2> QED BY <2>1, <2>5, <2>6 DEF f, g
<1>8. \A i \in S : i + 1 \in S
  <2> HIDE DEF col, B, n
  <2>1. SUFFICES ASSUME NEW i \in S PROVE i + 1 \in S
    OBVIOUS
  <2>2. i \in Nat
    OBVIOUS
  <2> QED BY <1>7, <2>1, <2>2
<1>9. S = Nat
  <2>1. S \in SUBSET Nat
    OBVIOUS
  <2> HIDE DEF S
  <2> QED BY <1>6, <1>8, <2>1, SetInduction
<1>10. SumFunctionOnSet(col(n), H) = B(n)
  <2>1. n \in S
    <3> HIDE DEF S
    <3> QED BY <1>1, <1>9
  <2> HIDE DEF col, B
  <2> QED BY <1>1, <2>1
<1>11. col(n) = [h \in H |-> Total(part(h))]
  <2>1. \A h \in H : Total(part(h)) = PrefixSum(part(h))[n]
    <3> HIDE DEF part, n
    <3> QED BY <1>2 DEF Total
  <2> HIDE DEF part, n
  <2> QED BY <2>1
<1>12. B(n) = Total(t)
  BY DEF Total
<1> HIDE DEF col, B, n
<1> QED BY <1>10, <1>11, <1>12

-----------------------------------------------------------------------------
(* The operators the entrypoints are built from. *)

\* The weights of a configuration are a sequence of natural numbers.
LEMMA WeightsType ==
  ASSUME NEW cfg \in Configs
  PROVE  /\ HolderWeights(cfg) \in Seq(Nat)
         /\ DOMAIN HolderWeights(cfg) = DOMAIN cfg.holders
         /\ Len(HolderWeights(cfg)) = Len(cfg.holders)
         /\ TotalWeight(cfg) \in Nat
<1>1. cfg.holders \in Seq([to : Holder, weight : Weights])
  BY DEF Configs
<1>2. \A i \in 1 .. Len(cfg.holders) : cfg.holders[i].weight \in Nat
  <2> TAKE i \in 1 .. Len(cfg.holders)
  <2>1. cfg.holders[i] \in [to : Holder, weight : Weights]
    <3> DEFINE hs == cfg.holders
               entry == [to : Holder, weight : Weights]
    <3>1. hs \in Seq(entry) /\ i \in 1 .. Len(hs)
      BY <1>1
    <3> HIDE DEF hs, entry
    <3>2. hs[i] \in entry
      BY <3>1
    <3> QED BY <3>2 DEF hs, entry
  <2>2. cfg.holders[i].weight \in 0 .. MaxWeight
    BY <2>1 DEF Weights
  <2> QED BY <2>2, InputAssumption
<1>3. HolderWeights(cfg) \in [1 .. Len(cfg.holders) -> Nat]
  BY <1>1, <1>2 DEF HolderWeights
<1>4. Len(cfg.holders) \in Nat /\ DOMAIN cfg.holders = 1 .. Len(cfg.holders)
  BY <1>1
<1>5. HolderWeights(cfg) \in Seq(Nat)
  BY <1>3, <1>4
<1>6. Len(HolderWeights(cfg)) = Len(cfg.holders)
  BY <1>3, <1>4, <1>5
<1> QED BY <1>3, <1>4, <1>5, <1>6, TotalType DEF TotalWeight

\* distribute never pays out more than the pool, and leaves less than one
\* unit per holder.
LEMMA PaidBounds ==
  ASSUME NEW cfg \in Configs, NEW pool \in Nat, TotalWeight(cfg) > 0
  PROVE  /\ Shares(cfg, pool) \in Seq(Nat)
         /\ DOMAIN Shares(cfg, pool) = DOMAIN cfg.holders
         /\ Paid(cfg, pool) \in Nat
         /\ Paid(cfg, pool) <= pool
         /\ pool < Paid(cfg, pool) + Len(cfg.holders)
<1> DEFINE s == HolderWeights(cfg)
           t == [i \in DOMAIN s |-> (pool * s[i]) \div Total(s)]
<1>1. /\ s \in Seq(Nat) /\ DOMAIN s = DOMAIN cfg.holders
      /\ Len(s) = Len(cfg.holders) /\ Total(s) > 0
  BY WeightsType DEF TotalWeight
<1>2. t \in Seq(Nat) /\ Total(t) <= pool /\ pool < Total(t) + Len(s)
  <2> HIDE DEF s
  <2> QED BY <1>1, ProRataBounds
<1>3. \A i \in DOMAIN cfg.holders : s[i] = cfg.holders[i].weight
  BY DEF HolderWeights
<1>4. Shares(cfg, pool) = t
  <2> HIDE DEF s
  <2> QED BY <1>1, <1>3 DEF Shares, TotalWeight, s
<1>5. DOMAIN t = DOMAIN s
  OBVIOUS
<1> HIDE DEF s, t
<1> QED BY <1>1, <1>2, <1>4, <1>5, TotalType DEF Paid

\* What one holder is paid is an amount.
LEMMA PaidToType ==
  ASSUME NEW cfg \in Configs, NEW pool \in Nat, TotalWeight(cfg) > 0, NEW h \in Holder
  PROVE  PaidTo(cfg, pool, h) \in Nat
<1> DEFINE u == [i \in DOMAIN cfg.holders |->
                   IF cfg.holders[i].to = h THEN Shares(cfg, pool)[i] ELSE 0]
<1>1. cfg.holders \in Seq([to : Holder, weight : Weights])
  BY DEF Configs
<1>2. Len(cfg.holders) \in Nat /\ DOMAIN cfg.holders = 1 .. Len(cfg.holders)
  BY <1>1
<1>3. \A i \in DOMAIN cfg.holders : Shares(cfg, pool)[i] \in Nat
  <2> DEFINE t == Shares(cfg, pool)
  <2>1. t \in Seq(Nat) /\ DOMAIN t = DOMAIN cfg.holders
    BY PaidBounds
  <2> HIDE DEF t
  <2>2. \A i \in DOMAIN t : t[i] \in Nat
    BY <2>1
  <2> QED BY <2>1, <2>2 DEF t
<1>4. u \in [1 .. Len(cfg.holders) -> Nat]
  BY <1>2, <1>3
<1>5. u \in Seq(Nat)
  <2> HIDE DEF u
  <2> QED BY <1>2, <1>4
<1>6. Total(u) \in Nat
  <2> HIDE DEF u
  <2> QED BY <1>5, TotalType
<1>7. PaidTo(cfg, pool, h) = Total(u)
  BY DEF PaidTo
<1> QED BY <1>6, <1>7

\* The fresh positions are finitely many, and ranked 1, 2, ...
LEMMA RankSurjective ==
  ASSUME NEW F, IsFiniteSet(F), F \subseteq Nat, NEW n \in 1 .. Cardinality(F)
  PROVE  \E i \in F : Cardinality({j \in F : j <= i}) = n
<1> DEFINE below(i) == {j \in F : j <= i}
           rank == [i \in F |-> Cardinality(below(i))]
           m == Cardinality(F)
<1>1. m \in Nat
  BY FS_CardinalityType
<1>2. ASSUME NEW i \in F
      PROVE  IsFiniteSet(below(i)) /\ rank[i] \in 1 .. m
  <2>1. below(i) \in SUBSET F /\ i \in below(i)
    BY <1>2
  <2>2. IsFiniteSet(below(i)) /\ Cardinality(below(i)) <= m
    BY <2>1, FS_Subset
  <2>3. Cardinality(below(i)) \in Nat /\ Cardinality(below(i)) # 0
    BY <2>1, <2>2, FS_CardinalityType, FS_EmptySet
  <2> HIDE DEF below
  <2> QED BY <1>1, <2>2, <2>3
<1>3. ASSUME NEW i \in F, NEW k \in F, i < k
      PROVE  rank[i] # rank[k]
  <2>1. below(i) \in SUBSET below(k) /\ k \in below(k) /\ k \notin below(i)
    <3>1. i \in Nat /\ k \in Nat /\ F \subseteq Nat
      OBVIOUS
    <3>2. \A j \in F : j <= i => j <= k
      BY <1>3, <3>1
    <3>3. k <= k /\ ~(k <= i)
      BY <1>3, <3>1
    <3> QED BY <3>2, <3>3
  <2>2. IsFiniteSet(below(k))
    BY <1>2
  <2> HIDE DEF below
  <2>3. Cardinality(below(i)) # Cardinality(below(k))
    BY <2>1, <2>2, FS_Subset
  <2> QED BY <2>3
<1>4. rank \in [F -> 1 .. m]
  BY <1>2
<1>5. \A i, k \in F : rank[i] = rank[k] => i = k
  <2> SUFFICES ASSUME NEW i \in F, NEW k \in F, rank[i] = rank[k], i # k PROVE FALSE
    OBVIOUS
  <2>1. i < k \/ k < i
    OBVIOUS
  <2> HIDE DEF rank
  <2> QED BY <2>1, <1>3
<1>6. rank \in Injection(F, 1 .. m)
  <2> HIDE DEF rank
  <2> QED BY <1>4, <1>5 DEF Injection, IsInjective
<1>7. IsFiniteSet(1 .. m) /\ Cardinality(1 .. m) = m
  <2>1. 1 \in Int /\ m \in Int
    BY <1>1
  <2>2. /\ IsFiniteSet(1 .. m)
        /\ Cardinality(1 .. m) = IF 1 > m THEN 0 ELSE m - 1 + 1
    <3> HIDE DEF m
    <3> QED BY <2>1, FS_Interval
  <2> HIDE DEF m
  <2> QED BY <2>2, <1>1
<1>8. rank \in Surjection(F, 1 .. m)
  <2> HIDE DEF rank
  <2> QED BY <1>6, <1>7, FS_Injection
<1>9. PICK i \in F : rank[i] = n
  <2> HIDE DEF rank
  <2> QED BY <1>8 DEF Surjection
<1> QED BY <1>9

\* The verifiers pushed on the registry index are a sequence of verifiers.
LEMMA FreshVerifiersType ==
  ASSUME NEW vs \in Seq(Verifier)
  PROVE  FreshVerifiers(vs) \in Seq(Verifier)
<1> DEFINE F == FreshPositions(vs)
           m == Cardinality(F)
           pos(n) == CHOOSE i \in F : Cardinality({j \in F : j <= i}) = n
<1>1. DOMAIN vs = 1 .. Len(vs) /\ Len(vs) \in Nat
  OBVIOUS
<1>2. F \in SUBSET (1 .. Len(vs)) /\ F \subseteq Nat
  BY <1>1 DEF FreshPositions
<1>3. IsFiniteSet(F)
  <2>1. IsFiniteSet(1 .. Len(vs))
    BY <1>1, FS_Interval
  <2> QED BY <1>2, <2>1, FS_Subset
<1>4. m \in Nat
  BY <1>3, FS_CardinalityType
<1>5. ASSUME NEW n \in 1 .. m
      PROVE  vs[pos(n)] \in Verifier
  <2>1. \E i \in F : Cardinality({j \in F : j <= i}) = n
    <3> HIDE DEF F
    <3> QED BY <1>2, <1>3, RankSurjective
  <2>2. pos(n) \in F
    <3> HIDE DEF F
    <3> QED BY <2>1
  <2> HIDE DEF pos, F
  <2>3. pos(n) \in 1 .. Len(vs)
    BY <1>2, <2>2
  <2> QED BY <1>1, <2>3
<1>6. FreshVerifiers(vs) = [n \in 1 .. m |-> vs[pos(n)]]
  BY DEF FreshVerifiers
<1> HIDE DEF pos, m
<1>7. [n \in 1 .. m |-> vs[pos(n)]] \in Seq(Verifier)
  BY <1>4, <1>5
<1> QED BY <1>6, <1>7

\* The counted votes of an evidence: positions of its arrays, finitely many,
\* no two of one signer.
LEMMA CountedVotesFacts ==
  ASSUME NEW cfg, NEW a, NEW c, NEW e \in EvidenceArrays
  PROVE  /\ CountedVotes(cfg, a, c, e) \subseteq DOMAIN e.signers
         /\ YesVotes(cfg, a, c, e) \subseteq CountedVotes(cfg, a, c, e)
         /\ IsFiniteSet(YesVotes(cfg, a, c, e))
         /\ \A i, j \in CountedVotes(cfg, a, c, e) :
              e.signers[i] = e.signers[j] => i = j
<1> DEFINE valid == ValidVotes(cfg, a, c, e)
           counted == CountedVotes(cfg, a, c, e)
<1>1. e.signers \in Seq(Verifier)
  BY DEF EvidenceArrays
<1>2. DOMAIN e.signers = 1 .. Len(e.signers) /\ Len(e.signers) \in Nat
  BY <1>1
<1>3. valid \subseteq DOMAIN e.signers
  BY DEF ValidVotes
<1>4. counted \subseteq valid /\ \A i \in counted : \A j \in valid : j < i => e.signers[j] # e.signers[i]
  BY DEF CountedVotes
<1>5. YesVotes(cfg, a, c, e) \subseteq counted
  BY DEF YesVotes
<1> HIDE DEF valid, counted
<1>6. IsFiniteSet(1 .. Len(e.signers))
  BY <1>2, FS_Interval
<1>7. YesVotes(cfg, a, c, e) \in SUBSET (1 .. Len(e.signers))
  BY <1>2, <1>3, <1>4, <1>5
<1>8. IsFiniteSet(YesVotes(cfg, a, c, e))
  BY <1>6, <1>7, FS_Subset
<1>9. \A i, j \in counted : e.signers[i] = e.signers[j] => i = j
  <2> SUFFICES ASSUME NEW i \in counted, NEW j \in counted,
                      e.signers[i] = e.signers[j], i # j
               PROVE  FALSE
    OBVIOUS
  <2>1. i < j \/ j < i
    BY <1>2, <1>3, <1>4
  <2> QED BY <2>1, <1>4
<1> QED BY <1>3, <1>4, <1>5, <1>8, <1>9 DEF counted

\* As many distinct signers are recorded as the quorum test has counted.
LEMMA DistinctSigners ==
  ASSUME NEW cfg, NEW a, NEW c, NEW e \in EvidenceArrays
  PROVE  Cardinality({e.signers[i] : i \in YesVotes(cfg, a, c, e)})
           = Cardinality(YesVotes(cfg, a, c, e))
<1> DEFINE yes == YesVotes(cfg, a, c, e)
           img == {e.signers[i] : i \in yes}
           f == [i \in yes |-> e.signers[i]]
<1>1. IsFiniteSet(yes) /\ \A i, j \in yes : e.signers[i] = e.signers[j] => i = j
  BY CountedVotesFacts
<1> HIDE DEF yes
<1>2. f \in Bijection(yes, img)
  BY <1>1 DEF Bijection, Injection, Surjection, IsInjective
<1>3. ExistsBijection(yes, img)
  BY <1>2 DEF ExistsBijection
<1> QED BY <1>1, <1>3, FS_Bijection DEF yes

-----------------------------------------------------------------------------
(* Type correctness. *)

\* A registry entry stays one when a cycle is scored.
LEMMA ScoredType ==
  ASSUME TypeOK, NEW v \in Verifier, NEW k \in Keys, NEW e \in EvidenceArrays,
         ParallelArrays(e), NEW counted \in SUBSET (DOMAIN e.signers)
  PROVE  Scored(v, k, e, counted) \in Reputations
<1> DEFINE rep == ReputationOf(v)
           votes == {i \in counted : e.signers[i] = v}
           vote == CHOOSE i \in votes : TRUE
           seen == [rep EXCEPT !.score.seen = @ + 1]
<1>1. rep \in Reputations
  BY DEF TypeOK, ReputationOf, NewReputation, Reputations, Scores
<1>2. seen \in Reputations
  <2> HIDE DEF rep
  <2> QED BY <1>1 DEF Reputations, Scores
<1>3. ASSUME votes # {}
      PROVE  e.verdicts[vote] \in BOOLEAN
  <2>1. vote \in votes
    BY <1>3
  <2>2. /\ e.signers \in Seq(Verifier) /\ e.verdicts \in Seq(BOOLEAN)
        /\ Len(e.verdicts) = Len(e.signers)
    BY DEF EvidenceArrays, ParallelArrays
  <2>3. DOMAIN e.signers = DOMAIN e.verdicts
    BY <2>2
  <2> HIDE DEF vote
  <2>4. vote \in DOMAIN e.verdicts
    BY <2>1, <2>3
  <2> QED BY <2>2, <2>4
<1> DEFINE yes == e.verdicts[vote]
           scored == [score |-> [seen   |-> rep.score.seen + 1,
                                 voted  |-> rep.score.voted + 1,
                                 agreed |-> rep.score.agreed + IF yes THEN 1 ELSE 0],
                      lastVerdict |-> yes,
                      lastCycle   |-> k]
<1>4. ASSUME votes # {}
      PROVE  scored \in Reputations
  <2>1. yes \in BOOLEAN
    BY <1>3, <1>4
  <2> HIDE DEF yes, rep
  <2> QED BY <1>1, <2>1 DEF Reputations, Scores
<1>5. Scored(v, k, e, counted) = IF votes = {} THEN seen ELSE scored
  BY DEF Scored
<1> HIDE DEF votes, seen, scored
<1> QED BY <1>2, <1>4, <1>5

\* What a Distribute step has established about its evidence and its asset.
LEMMA DistributeFacts ==
  ASSUME TypeOK, RulesValid,
         NEW a \in Asset, NEW c \in Cycle, NEW e \in EvidenceArrays, Distribute(a, c, e)
  PROVE  /\ e \in EvidenceArrays /\ ParallelArrays(e)
         /\ assets[a] \in Configs /\ assets[a] # None
         /\ TotalWeight(assets[a]) > 0
         /\ Key(a, c) \in Keys /\ Key(a, c) \notin distributed
         /\ ~(Cardinality(YesVotes(assets[a], a, c, e)) < assets[a].quorum)
         /\ pools[a] \in Nat
         /\ Paid(assets[a], pools[a]) \in Nat
         /\ Paid(assets[a], pools[a]) <= pools[a]
         /\ pools[a] < Paid(assets[a], pools[a]) + Len(assets[a].holders)
         /\ ~(Paid(assets[a], pools[a]) > purse)
<1>1. e \in EvidenceArrays
  OBVIOUS
<1>2. DistributeError(a, c, e) = "ok"
  BY DEF Distribute
<1>3. /\ ParallelArrays(e)
      /\ assets[a] # None
      /\ Key(a, c) \notin distributed
      /\ ~(Cardinality(YesVotes(assets[a], a, c, e)) < assets[a].quorum)
      /\ ~(Paid(assets[a], pools[a]) > purse)
  BY <1>2 DEF DistributeError, AlreadyDistributed
<1>4. assets[a] \in Configs /\ TotalWeight(assets[a]) > 0 /\ pools[a] \in Nat
  BY <1>3 DEF TypeOK, RulesValid
<1>5. Key(a, c) \in Keys
  BY DEF Keys
<1> QED BY <1>1, <1>3, <1>4, <1>5, PaidBounds

\* The receipt a Distribute step stores.
LEMMA ReceiptType ==
  ASSUME TypeOK, RulesValid,
         NEW a \in Asset, NEW c \in Cycle, NEW e \in EvidenceArrays, Distribute(a, c, e)
  PROVE  NewReceipt(a, c, e) \in Receipts
<1> DEFINE cfg == assets[a]
           yes == YesVotes(cfg, a, c, e)
           snapshot == [v \in Verifier |-> IF v \in Range(cfg.verifiers)
                                            THEN ReputationOf(v).score ELSE None]
<1>1. /\ e \in EvidenceArrays /\ ParallelArrays(e) /\ cfg \in Configs
      /\ pools[a] \in Nat /\ Paid(cfg, pools[a]) \in Nat
      /\ Paid(cfg, pools[a]) <= pools[a]
  BY DistributeFacts
<1>2. yes \subseteq DOMAIN e.signers
  BY <1>1, CountedVotesFacts
<1>3. /\ e.signers \in Seq(Verifier)
      /\ e.signatures \in Seq(Signatures \cup {Forged})
      /\ Len(e.signatures) = Len(e.signers)
  BY <1>1 DEF EvidenceArrays, ParallelArrays
<1>4. {e.signers[i] : i \in yes} \subseteq Verifier
  <2> HIDE DEF yes
  <2> QED BY <1>2, <1>3
<1>5. {e.signatures[i] : i \in yes} \subseteq Signatures
  <2> SUFFICES ASSUME NEW i \in yes PROVE e.signatures[i] \in Signatures
    OBVIOUS
  <2>1. i \in ValidVotes(cfg, a, c, e)
    BY DEF YesVotes, CountedVotes
  <2>2. e.signatures[i] = [signer |-> e.signers[i],
                           message |-> <<a, c, e.verdicts[i], e.details[i]>>]
    BY <2>1 DEF ValidVotes, VerifySignature, Message
  <2>3. i \in DOMAIN e.signers /\ i \in DOMAIN e.verdicts /\ i \in DOMAIN e.details
    BY <1>1, <1>2 DEF EvidenceArrays, ParallelArrays
  <2>4. e.signers[i] \in Verifier /\ e.verdicts[i] \in BOOLEAN /\ e.details[i] \in Detail
    BY <1>1, <2>3 DEF EvidenceArrays
  <2> QED BY <2>2, <2>4 DEF Signatures, Messages
<1>6. snapshot \in [Verifier -> Scores \cup {None}]
  BY DEF TypeOK, ReputationOf, NewReputation, Reputations, Scores
<1>7. cfg.quorum \in Nat /\ Len(cfg.holders) \in Nat
  BY <1>1 DEF Configs
<1>8. pools[a] - Paid(cfg, pools[a]) \in Nat
  BY <1>1
<1>9. NewReceipt(a, c, e) =
       [asset |-> a, cycle |-> c, total |-> Paid(cfg, pools[a]),
        dust |-> pools[a] - Paid(cfg, pools[a]),
        holderCount |-> Len(cfg.holders), quorum |-> cfg.quorum,
        signers    |-> {e.signers[i] : i \in yes},
        signatures |-> {e.signatures[i] : i \in yes},
        snapshot   |-> snapshot]
  BY DEF NewReceipt
<1> HIDE DEF cfg, yes, snapshot
<1> QED BY <1>1, <1>4, <1>5, <1>6, <1>7, <1>8, <1>9 DEF Receipts

\* The inductive invariant for types: with RulesValid a settlement divides by
\* a positive weight and pays no more than the pool.
TypeInv == TypeOK /\ RulesValid

\* Before anything is called the types are as stated.
LEMMA InitTypeInv == Init => TypeInv
BY InputAssumption DEF Init, TypeInv, TypeOK, RulesValid

\* A registration that passes its checks stores a configuration.
LEMMA RegisterAssetTypeInv ==
  ASSUME TypeInv, NEW caller \in Account, NEW a \in Asset, NEW cfg \in Registration,
         RegisterAsset(caller, a, cfg)
  PROVE  TypeInv'
<1>1. cfg \in Configs
  BY InputAssumption
<1>2. /\ cfg.holders # <<>> /\ TotalWeight(cfg) # 0
      /\ cfg.quorum # 0 /\ ~(cfg.quorum > Len(cfg.verifiers))
  BY DEF RegisterAsset, RegisterError
<1>3. assets' \in [Asset -> Configs \cup {None}]
  BY <1>1 DEF RegisterAsset, TypeInv, TypeOK
<1>4. verifierRegistry' \in [Verifier -> Reputations \cup {None}]
  <2>1. NewReputation \in Reputations
    BY DEF NewReputation, Reputations, Scores
  <2> QED BY <2>1 DEF RegisterAsset, TypeInv, TypeOK
<1>5. verifierKeys' \in Seq(Verifier)
  <2>1. cfg.verifiers \in Seq(Verifier)
    BY <1>1 DEF Configs
  <2>2. FreshVerifiers(cfg.verifiers) \in Seq(Verifier)
    BY <2>1, FreshVerifiersType
  <2>3. verifierKeys \in Seq(Verifier)
    BY DEF TypeInv, TypeOK
  <2> QED BY <2>2, <2>3 DEF RegisterAsset
<1>6. servicerKey' \in Account \cup {None}
  BY DEF RegisterAsset, TypeInv, TypeOK
<1>7. TypeOK'
  BY <1>3, <1>4, <1>5, <1>6 DEF RegisterAsset, TypeInv, TypeOK
<1>8. RulesValid'
  <2> SUFFICES ASSUME NEW x \in Asset, assets'[x] # None
               PROVE  /\ assets'[x].holders # <<>>
                      /\ TotalWeight(assets'[x]) > 0
                      /\ assets'[x].quorum \in 1 .. Len(assets'[x].verifiers)
    BY DEF RulesValid
  <2>1. CASE x = a
    <3>1. assets'[x] = cfg
      BY <2>1 DEF RegisterAsset, TypeInv, TypeOK
    <3>2. TotalWeight(cfg) > 0
      BY <1>1, <1>2, WeightsType
    <3>3. cfg.quorum \in 1 .. Len(cfg.verifiers)
      BY <1>1, <1>2 DEF Configs
    <3> QED BY <3>1, <3>2, <3>3, <1>2
  <2>2. CASE x # a
    <3>1. assets'[x] = assets[x]
      BY <2>2 DEF RegisterAsset, TypeInv, TypeOK
    <3> QED BY <3>1 DEF TypeInv, RulesValid
  <2> QED BY <2>1, <2>2
<1> QED BY <1>7, <1>8 DEF TypeInv

\* A distribution leaves balances, pools and receipts of their types.
LEMMA DistributeTypeInv ==
  ASSUME TypeInv, NEW a \in Asset, NEW c \in Cycle, NEW e \in EvidenceArrays,
         Distribute(a, c, e)
  PROVE  TypeInv'
<1> DEFINE cfg == assets[a]
           k == Key(a, c)
           paid == Paid(cfg, pools[a])
           receipt == NewReceipt(a, c, e)
<1> USE DEF TypeInv
<1>1. /\ e \in EvidenceArrays /\ ParallelArrays(e) /\ cfg \in Configs
      /\ TotalWeight(cfg) > 0 /\ k \in Keys /\ pools[a] \in Nat
      /\ paid \in Nat /\ paid <= pools[a] /\ ~(paid > purse)
  BY DistributeFacts
<1>2. receipt \in Receipts
  BY ReceiptType
<1>3. pools' \in [Asset -> Nat]
  <2>1. pools' = [pools EXCEPT ![a] = pools[a] - paid]
    BY DEF Distribute
  <2> HIDE DEF paid
  <2> QED BY <1>1, <2>1 DEF TypeOK
<1>4. purse' \in Nat
  <2>1. purse' = purse - paid
    BY DEF Distribute
  <2> HIDE DEF paid
  <2> QED BY <1>1, <2>1 DEF TypeOK
<1>5. balance' \in [Holder -> Nat]
  <2>1. balance' = [h \in Holder |-> balance[h] + PaidTo(cfg, pools[a], h)]
    BY DEF Distribute
  <2>2. \A h \in Holder : PaidTo(cfg, pools[a], h) \in Nat
    BY <1>1, PaidToType
  <2> QED BY <2>1, <2>2 DEF TypeOK
<1>6. distributed' \subseteq Keys
  BY <1>1 DEF Distribute, TypeOK
<1>7. verifierRegistry' \in [Verifier -> Reputations \cup {None}]
  <2> DEFINE counted == CountedVotes(cfg, a, c, e)
  <2>1. counted \in SUBSET (DOMAIN e.signers)
    BY <1>1, CountedVotesFacts
  <2>2. \A v \in Verifier : Scored(v, k, e, counted) \in Reputations
    <3> HIDE DEF counted, k
    <3> QED BY <1>1, <2>1, ScoredType
  <2>3. verifierRegistry' = [v \in Verifier |-> IF v \in Range(cfg.verifiers)
                                                THEN Scored(v, k, e, counted)
                                                ELSE verifierRegistry[v]]
    BY DEF Distribute
  <2> HIDE DEF counted, k, cfg
  <2> QED BY <2>2, <2>3 DEF TypeOK
<1>8. receipts' \in [Keys -> Receipts \cup {None}]
  <2>1. receipts' = [receipts EXCEPT ![k] = receipt]
    BY DEF Distribute
  <2> HIDE DEF receipt, k
  <2> QED BY <1>1, <1>2, <2>1 DEF TypeOK
<1>9. events' \in Seq([asset : Asset, cycle : Cycle, total : Nat,
                      signers : SUBSET Verifier])
  <2>1. events' = Append(events, EventOf(receipt))
    BY DEF Distribute
  <2> HIDE DEF receipt
  <2>2. EventOf(receipt) \in [asset : Asset, cycle : Cycle, total : Nat,
                              signers : SUBSET Verifier]
    BY <1>2 DEF Receipts, EventOf
  <2> QED BY <2>1, <2>2 DEF TypeOK
<1>10. UNCHANGED <<assets, verifierKeys, briefs, servicerKey, signed, funded>>
  BY DEF Distribute
<1>11. TypeOK'
  BY <1>3, <1>4, <1>5, <1>6, <1>7, <1>8, <1>9, <1>10 DEF TypeOK
<1>12. RulesValid'
  BY <1>10 DEF RulesValid
<1> QED BY <1>11, <1>12

\* The verifiers sign signatures, not forged bytes.
LEMMA SignableType ==
  ASSUME NEW s \in Signable
  PROVE  s \in Signatures
<1>1. PICK e \in Evidence : s \in Range(e.signatures) \ {Forged}
  BY DEF Signable
<1>2. e.signatures \in Seq(Signatures \cup {Forged})
  BY InputAssumption DEF EvidenceArrays
<1> QED BY <1>1, <1>2 DEF Range

\* A verifier issues a signature.
Issue(s) ==
  /\ signed' = signed \cup {s}
  /\ UNCHANGED <<contractVars, events, purse, balance, funded>>

\* A transaction or a signature on any arguments of the right types: all that
\* the components around the contract can make it do.
VaultStep ==
  \/ \E s \in Signatures : Issue(s)
  \/ \E caller \in Account, a \in Asset, cfg \in Registration :
       RegisterAsset(caller, a, cfg)
  \/ \E a \in Asset, attached \in Attached : Fund(a, attached)
  \/ \E a \in Asset, c \in Cycle, e \in EvidenceArrays : Distribute(a, c, e)
  \/ \E caller \in Account, a \in Asset, c \in Cycle, b \in Brief :
       RecordBrief(caller, a, c, b)

\* The vault on the submissions of its own specification is one instance.
LEMMA NextIsVaultStep == [Next]_vars => [VaultStep]_vars
<1>1. \A s \in Signable : Sign(s) => Issue(s)
  BY DEF Sign, Issue
<1> QED BY <1>1, SignableType, InputAssumption DEF Next, VaultStep

\* So does every step.
LEMMA NextTypeInv == TypeInv /\ [VaultStep]_vars => TypeInv'
<1> SUFFICES ASSUME TypeInv, [VaultStep]_vars PROVE TypeInv'
  OBVIOUS
<1>1. ASSUME NEW s \in Signatures, Issue(s)
      PROVE  TypeInv'
  <2> QED BY <1>1 DEF Issue, contractVars, TypeInv, TypeOK, RulesValid
<1>2. ASSUME NEW a \in Asset, NEW attached \in Attached, Fund(a, attached)
      PROVE  TypeInv'
  <2>1. attached \in Nat
    BY InputAssumption
  <2>2. pools' \in [Asset -> Nat] /\ funded' \in [Asset -> Nat] /\ purse' \in Nat
    BY <1>2, <2>1 DEF Fund, TypeInv, TypeOK
  <2>3. UNCHANGED <<assets, distributed, receipts, verifierRegistry, verifierKeys,
                    briefs, servicerKey, events, signed, balance>>
    BY <1>2 DEF Fund
  <2> QED BY <2>2, <2>3 DEF TypeInv, TypeOK, RulesValid
<1>3. ASSUME NEW caller \in Account, NEW a \in Asset, NEW c \in Cycle, NEW b \in Brief,
             RecordBrief(caller, a, c, b)
      PROVE  TypeInv'
  <2>1. briefs' \in [Keys -> Brief \cup {None}]
    BY <1>3 DEF RecordBrief, TypeInv, TypeOK
  <2> QED BY <1>3, <2>1 DEF RecordBrief, TypeInv, TypeOK, RulesValid
<1>4. CASE UNCHANGED vars
  BY <1>4 DEF vars, contractVars, TypeInv, TypeOK, RulesValid
<1> QED BY <1>1, <1>2, <1>3, <1>4, RegisterAssetTypeInv, DistributeTypeInv DEF VaultStep

\* The storage and the environment of the vault are well typed in every
\* reachable state, and registered rules stay runnable.
THEOREM TypeCorrect == Spec => [](TypeOK /\ RulesValid)
<1>1. Spec => []TypeInv
  BY InitTypeInv, NextIsVaultStep, NextTypeInv, PTL DEF Spec
<1> QED BY <1>1, PTL DEF TypeInv

-----------------------------------------------------------------------------
(* Safety. *)

\* The inductive invariant of the vault's records.  RecordsAgree is what makes
\* it inductive: that a key has no flag means that it has no receipt yet.
SafetyInv ==
  /\ TypeInv
  /\ IsFiniteSet(distributed)
  /\ RecordsAgree
  /\ SettledByQuorum
  /\ DustBounded

\* The records agree before there are any.
LEMMA InitSafetyInv == Init => SafetyInv
<1> SUFFICES ASSUME Init PROVE SafetyInv
  OBVIOUS
<1>1. TypeInv
  BY InitTypeInv
<1>2. Settled = {} /\ distributed = {} /\ events = <<>>
  BY DEF Init, Settled
<1>3. IsFiniteSet(distributed) /\ Cardinality(distributed) = 0
  BY <1>2, FS_EmptySet
<1>4. RecordsAgree
  BY <1>2, <1>3 DEF RecordsAgree
<1>5. SettledByQuorum /\ DustBounded
  BY <1>2 DEF SettledByQuorum, DustBounded
<1> QED BY <1>1, <1>3, <1>4, <1>5 DEF SafetyInv

\* How a Distribute step changes the records.
LEMMA DistributeRecords ==
  ASSUME SafetyInv, NEW a \in Asset, NEW c \in Cycle, NEW e \in EvidenceArrays,
         Distribute(a, c, e)
  PROVE  LET k == Key(a, c)
             receipt == NewReceipt(a, c, e)
         IN  /\ k \in Keys /\ k \notin Settled
             /\ receipts' = [receipts EXCEPT ![k] = receipt]
             /\ receipt \in Receipts /\ receipt # None
             /\ Settled' = Settled \cup {k}
             /\ distributed' = distributed \cup {k}
             /\ \A x \in Settled : receipts'[x] = receipts[x]
             /\ receipts'[k] = receipt
             /\ assets' = assets /\ signed' = signed
<1> DEFINE k == Key(a, c)
           receipt == NewReceipt(a, c, e)
<1>1. k \in Keys /\ k \notin distributed
  BY DistributeFacts DEF SafetyInv, TypeInv
<1>2. k \notin Settled
  BY <1>1 DEF SafetyInv, RecordsAgree
<1>3. /\ receipts' = [receipts EXCEPT ![k] = receipt]
      /\ distributed' = distributed \cup {k}
      /\ assets' = assets /\ signed' = signed
  BY DEF Distribute
<1>4. receipt \in Receipts /\ receipt # None
  <2>1. receipt \in Receipts
    BY ReceiptType DEF SafetyInv, TypeInv
  <2> HIDE DEF receipt
  <2> QED BY <2>1, NoneAssumption
<1>5. DOMAIN receipts = Keys
  BY DEF SafetyInv, TypeInv, TypeOK
<1> HIDE DEF k, receipt
<1>6. receipts'[k] = receipt /\ \A x \in Keys \ {k} : receipts'[x] = receipts[x]
  BY <1>1, <1>3, <1>5
<1>7. Settled' = Settled \cup {k}
  BY <1>1, <1>4, <1>6 DEF Settled
<1> QED BY <1>1, <1>2, <1>3, <1>4, <1>6, <1>7 DEF k, receipt, Settled

\* A distribution writes the flag, the receipt, the reputation and the event of
\* one key, on a quorum of registered signers.
LEMMA DistributeSafetyInv ==
  ASSUME SafetyInv, NEW a \in Asset, NEW c \in Cycle, NEW e \in EvidenceArrays,
         Distribute(a, c, e)
  PROVE  SafetyInv'
<1> DEFINE cfg == assets[a]
           k == Key(a, c)
           receipt == NewReceipt(a, c, e)
           yes == YesVotes(cfg, a, c, e)
           paid == Paid(cfg, pools[a])
<1>1. TypeInv'
  BY DistributeTypeInv DEF SafetyInv
<1>2. /\ k \in Keys /\ k \notin Settled
      /\ Settled' = Settled \cup {k}
      /\ distributed' = distributed \cup {k}
      /\ \A x \in Settled : receipts'[x] = receipts[x]
      /\ receipts'[k] = receipt
      /\ assets' = assets /\ signed' = signed
  BY DistributeRecords
<1>3. /\ receipt.asset = a /\ receipt.cycle = c
      /\ receipt.signers = {e.signers[i] : i \in yes}
      /\ receipt.total = paid
      /\ receipt.dust = pools[a] - paid
      /\ receipt.holderCount = Len(cfg.holders)
  BY DEF NewReceipt
<1>4. /\ e \in EvidenceArrays /\ ParallelArrays(e) /\ cfg \in Configs /\ cfg # None
      /\ ~(Cardinality(yes) < cfg.quorum)
      /\ pools[a] \in Nat /\ paid \in Nat /\ paid <= pools[a]
      /\ pools[a] < paid + Len(cfg.holders)
  BY DistributeFacts DEF SafetyInv, TypeInv
<1>5. IsFiniteSet(distributed')
      /\ Cardinality(distributed') = Cardinality(distributed) + 1
  <2>1. k \notin distributed
    BY <1>2 DEF SafetyInv, RecordsAgree
  <2> HIDE DEF k
  <2> QED BY <1>2, <2>1, FS_AddElement DEF SafetyInv
<1>6. RecordsAgree'
  <2> DEFINE entry == EventOf(receipt)
  <2>1. events' = Append(events, entry)
    BY DEF Distribute
  <2>2. events \in Seq([asset : Asset, cycle : Cycle, total : Nat, signers : SUBSET Verifier])
    BY DEF SafetyInv, TypeInv, TypeOK
  <2>3. Len(events) \in Nat /\ DOMAIN events = 1 .. Len(events)
    BY <2>2
  <2> HIDE DEF entry
  <2>4. /\ Len(events') = Len(events) + 1
        /\ DOMAIN events' = 1 .. Len(events) + 1
        /\ \A n \in 1 .. Len(events) : events'[n] = events[n]
        /\ events'[Len(events) + 1] = entry
    BY <2>1, <2>2, <2>3
  <2>5. distributed' = Settled'
    BY <1>2 DEF SafetyInv, RecordsAgree
  <2>6. Len(events') = Cardinality(distributed')
    BY <1>5, <2>4 DEF SafetyInv, RecordsAgree
  <2>7. ASSUME NEW x \in distributed'
        PROVE  /\ Key(receipts'[x].asset, receipts'[x].cycle) = x
               /\ \E n \in DOMAIN events' : events'[n] = EventOf(receipts'[x])
    <3>1. CASE x = k
      <4>1. Key(receipt.asset, receipt.cycle) = k
        BY <1>3
      <4>2. Len(events) + 1 \in DOMAIN events'
        BY <2>3, <2>4
      <4> HIDE DEF receipt, k
      <4> QED BY <3>1, <1>2, <2>4, <4>1, <4>2 DEF entry
    <3>2. CASE x \in distributed
      <4>1. x \in Settled
        BY <3>2 DEF SafetyInv, RecordsAgree
      <4>2. Key(receipts[x].asset, receipts[x].cycle) = x
        BY <3>2 DEF SafetyInv, RecordsAgree
      <4>3. PICK n \in DOMAIN events : events[n] = EventOf(receipts[x])
        BY <3>2 DEF SafetyInv, RecordsAgree
      <4>4. n \in DOMAIN events' /\ events'[n] = events[n]
        BY <2>3, <2>4, <4>3
      <4>5. receipts'[x] = receipts[x]
        BY <1>2, <4>1
      <4> QED BY <4>2, <4>3, <4>4, <4>5
    <3> QED BY <3>1, <3>2, <1>2
  <2> QED BY <2>5, <2>6, <2>7 DEF RecordsAgree
<1>7. /\ receipt.signers \subseteq Range(cfg.verifiers)
      /\ \A v \in receipt.signers : \E d \in Detail :
           [signer |-> v, message |-> Message(a, c, TRUE, d)] \in signed
  <2> SUFFICES ASSUME NEW i \in yes
               PROVE  /\ e.signers[i] \in Range(cfg.verifiers)
                      /\ \E d \in Detail :
                          [signer |-> e.signers[i], message |-> Message(a, c, TRUE, d)] \in signed
    BY <1>3
  <2>1. i \in ValidVotes(cfg, a, c, e) /\ e.verdicts[i]
    BY DEF YesVotes, CountedVotes
  <2>2. /\ i \in DOMAIN e.signers
        /\ e.signers[i] \in Range(cfg.verifiers)
        /\ e.signatures[i] = [signer |-> e.signers[i],
                              message |-> Message(a, c, e.verdicts[i], e.details[i])]
    BY <2>1 DEF ValidVotes, VerifySignature
  <2>3. /\ i \in DOMAIN e.verdicts /\ i \in DOMAIN e.signatures /\ i \in DOMAIN e.details
    BY <1>4, <2>2 DEF EvidenceArrays, ParallelArrays
  <2>4. e.verdicts[i] = TRUE
    <3>1. e.verdicts \in Seq(BOOLEAN)
      BY <1>4 DEF EvidenceArrays
    <3>2. e.verdicts[i] \in BOOLEAN
      BY <2>3, <3>1
    <3> QED BY <2>1, <3>2
  <2>5. e.details[i] \in Detail
    BY <1>4, <2>3 DEF EvidenceArrays
  <2>6. e.signatures[i] \in signed
    <3>1. e.signatures[i] \in signed \cup {Forged}
      BY <2>3 DEF Distribute, Range
    <3>2. e.signatures[i] \in Signatures
      <4>1. e.signers[i] \in Verifier
        BY <1>4, <2>2 DEF EvidenceArrays
      <4>2. e.signatures[i] = [signer |-> e.signers[i],
                               message |-> <<a, c, e.verdicts[i], e.details[i]>>]
        BY <2>2 DEF Message
      <4>3. e.verdicts[i] \in BOOLEAN
        BY <1>4, <2>3 DEF EvidenceArrays
      <4> QED BY <2>5, <4>1, <4>2, <4>3 DEF Signatures, Messages
    <3> QED BY <3>1, <3>2, NoneAssumption
  <2> QED BY <2>2, <2>4, <2>5, <2>6
<1>8. Cardinality(receipt.signers) >= cfg.quorum
  <2>1. Cardinality(receipt.signers) = Cardinality(yes)
    BY <1>3, <1>4, DistinctSigners
  <2>2. Cardinality(yes) \in Nat
    BY <1>4, CountedVotesFacts, FS_CardinalityType
  <2>3. cfg.quorum \in Nat
    BY <1>4 DEF Configs
  <2> HIDE DEF yes, cfg, receipt
  <2> QED BY <1>4, <2>1, <2>2, <2>3
<1>9. SettledByQuorum'
  <2> SUFFICES ASSUME NEW x \in Settled'
               PROVE  LET r == receipts'[x]
                      IN  /\ assets'[r.asset] # None
                          /\ r.signers \subseteq Range(assets'[r.asset].verifiers)
                          /\ Cardinality(r.signers) >= assets'[r.asset].quorum
                          /\ \A v \in r.signers : \E d \in Detail :
                               [signer |-> v, message |-> Message(r.asset, r.cycle, TRUE, d)]
                                 \in signed'
    BY DEF SettledByQuorum
  <2>1. CASE x = k
    <3>1. receipts'[x] = receipt /\ assets'[receipt.asset] = cfg
      BY <2>1, <1>2, <1>3
    <3> HIDE DEF receipt, cfg
    <3> QED BY <3>1, <1>2, <1>3, <1>4, <1>7, <1>8
  <2>2. CASE x \in Settled
    BY <2>2, <1>2 DEF SafetyInv, SettledByQuorum
  <2> QED BY <2>1, <2>2, <1>2
<1>10. DustBounded'
  <2> SUFFICES ASSUME NEW x \in Settled'
               PROVE  receipts'[x].dust < receipts'[x].holderCount
    BY DEF DustBounded
  <2>1. CASE x = k
    <3>1. Len(cfg.holders) \in Nat
      BY <1>4 DEF Configs
    <3>2. pools[a] - paid < Len(cfg.holders)
      <4> HIDE DEF paid, cfg
      <4> QED BY <1>4, <3>1
    <3> QED BY <2>1, <1>2, <1>3, <3>2
  <2>2. CASE x \in Settled
    BY <2>2, <1>2 DEF SafetyInv, DustBounded
  <2> QED BY <2>1, <2>2, <1>2
<1> QED BY <1>1, <1>5, <1>6, <1>9, <1>10 DEF SafetyInv

\* Every step keeps the records in agreement.
LEMMA NextSafetyInv == SafetyInv /\ [VaultStep]_vars => SafetyInv'
<1> SUFFICES ASSUME SafetyInv, [VaultStep]_vars PROVE SafetyInv'
  OBVIOUS
<1>1. TypeInv /\ TypeInv'
  BY NextTypeInv DEF SafetyInv
<1>2. ASSUME UNCHANGED <<receipts, distributed, events, signed>>,
             \A a \in Asset : assets[a] # None => assets'[a] = assets[a]
      PROVE  SafetyInv'
  <2>1. Settled' = Settled
    BY <1>2 DEF Settled
  <2>2. RecordsAgree' /\ IsFiniteSet(distributed') /\ DustBounded'
    BY <1>2, <2>1 DEF SafetyInv, RecordsAgree, DustBounded
  <2>3. ASSUME NEW k \in Settled
        PROVE  receipts[k].asset \in Asset /\ assets[receipts[k].asset] # None
    <3>1. receipts[k] \in Receipts
      BY <1>1 DEF TypeInv, TypeOK, Settled
    <3>2. receipts[k].asset \in Asset
      BY <3>1 DEF Receipts
    <3> QED BY <3>2 DEF SafetyInv, SettledByQuorum
  <2>4. SettledByQuorum'
    BY <1>2, <2>1, <2>3 DEF SafetyInv, SettledByQuorum
  <2> QED BY <1>1, <2>2, <2>4 DEF SafetyInv
<1>3. ASSUME NEW s \in Signatures, Issue(s)
      PROVE  SafetyInv'
  <2>1. UNCHANGED <<receipts, distributed, events, assets>> /\ signed \subseteq signed'
    BY <1>3 DEF Issue, contractVars
  <2>2. Settled' = Settled
    BY <2>1 DEF Settled
  <2>3. RecordsAgree' /\ IsFiniteSet(distributed') /\ DustBounded'
    BY <2>1, <2>2 DEF SafetyInv, RecordsAgree, DustBounded
  <2>4. SettledByQuorum'
    BY <2>1, <2>2 DEF SafetyInv, SettledByQuorum
  <2> QED BY <1>1, <2>3, <2>4 DEF SafetyInv
<1>4. ASSUME NEW caller \in Account, NEW a \in Asset, NEW cfg \in Registration,
             RegisterAsset(caller, a, cfg)
      PROVE  SafetyInv'
  <2>1. assets[a] = None
    BY <1>4 DEF RegisterAsset, RegisterError
  <2>2. \A x \in Asset : assets[x] # None => assets'[x] = assets[x]
    BY <1>1, <1>4, <2>1 DEF RegisterAsset, TypeInv, TypeOK
  <2>3. UNCHANGED <<receipts, distributed, events, signed>>
    BY <1>4 DEF RegisterAsset
  <2> QED BY <1>2, <2>2, <2>3
<1>5. ASSUME NEW a \in Asset, NEW attached \in Attached, Fund(a, attached)
      PROVE  SafetyInv'
  BY <1>2, <1>5 DEF Fund
<1>6. ASSUME NEW caller \in Account, NEW a \in Asset, NEW c \in Cycle, NEW b \in Brief,
             RecordBrief(caller, a, c, b)
      PROVE  SafetyInv'
  BY <1>2, <1>6 DEF RecordBrief
<1>7. CASE UNCHANGED vars
  BY <1>2, <1>7 DEF vars, contractVars
<1> QED BY <1>3, <1>4, <1>5, <1>6, <1>7, DistributeSafetyInv DEF VaultStep

\* SafetyInv holds throughout.
LEMMA SafetyInvariant == Spec => []SafetyInv
BY InitSafetyInv, NextIsVaultStep, NextSafetyInv, PTL DEF Spec

\* Money moves for a cycle only on the signed "yes" of a quorum of distinct
\* verifiers registered for that asset (distribute, step 3).
THEOREM SettlementNeedsQuorum == Spec => []SettledByQuorum
BY SafetyInvariant, PTL DEF SafetyInv

\* Flag, receipt and event of a settlement come together (distribute, steps
\* 7 to 8): a key settles at most once and its record is in the log.
THEOREM RecordsAlwaysAgree == Spec => []RecordsAgree
BY SafetyInvariant, PTL DEF SafetyInv

\* The dust a settlement leaves is less than one unit per holder (distribute,
\* steps 5 and 6), for all weights and pools.
THEOREM DustIsBounded == Spec => []DustBounded
BY SafetyInvariant, PTL DEF SafetyInv

\* What a step must leave as it is.
Final ==
  /\ \A k \in Keys :
       /\ receipts[k] # None => receipts'[k] = receipts[k]
       /\ briefs[k] # None => briefs'[k] = briefs[k]
       /\ briefs'[k] # briefs[k] => receipts[k] # None
  /\ \A a \in Asset : assets[a] # None => assets'[a] = assets[a]
  /\ servicerKey # None => servicerKey' = servicerKey

\* No transaction and no signature changes what is final.
LEMMA StepsAreFinal == SafetyInv /\ [VaultStep]_vars => [Final]_vars
<1> SUFFICES ASSUME SafetyInv, [VaultStep]_vars PROVE [Final]_vars
  OBVIOUS
<1>0. TypeOK
  BY DEF SafetyInv, TypeInv
<1>1. ASSUME NEW s \in Signatures, Issue(s)
      PROVE  Final
  BY <1>1 DEF Issue, contractVars, Final
<1>2. ASSUME NEW caller \in Account, NEW a \in Asset, NEW cfg \in Registration,
             RegisterAsset(caller, a, cfg)
      PROVE  Final
  <2>1. assets[a] = None
    BY <1>2 DEF RegisterAsset, RegisterError
  <2>2. \A x \in Asset : assets[x] # None => assets'[x] = assets[x]
    BY <1>0, <1>2, <2>1 DEF RegisterAsset, TypeOK
  <2>3. servicerKey # None => servicerKey' = servicerKey
    BY <1>2 DEF RegisterAsset
  <2>4. UNCHANGED <<receipts, briefs>>
    BY <1>2 DEF RegisterAsset
  <2> QED BY <2>2, <2>3, <2>4 DEF Final
<1>3. ASSUME NEW a \in Asset, NEW attached \in Attached, Fund(a, attached)
      PROVE  Final
  BY <1>3 DEF Fund, Final
<1>4. ASSUME NEW a \in Asset, NEW c \in Cycle, NEW e \in EvidenceArrays,
             Distribute(a, c, e)
      PROVE  Final
  <2>1. \A x \in Settled : receipts'[x] = receipts[x]
    BY <1>4, DistributeRecords
  <2>2. \A x \in Keys : receipts[x] # None => receipts'[x] = receipts[x]
    BY <2>1 DEF Settled
  <2>3. UNCHANGED <<assets, briefs, servicerKey>>
    BY <1>4 DEF Distribute
  <2> QED BY <2>2, <2>3 DEF Final
<1>5. ASSUME NEW caller \in Account, NEW a \in Asset, NEW c \in Cycle, NEW b \in Brief,
             RecordBrief(caller, a, c, b)
      PROVE  Final
  <2>1. receipts[Key(a, c)] # None /\ briefs[Key(a, c)] = None
    BY <1>5 DEF RecordBrief, BriefError
  <2>2. briefs' = [briefs EXCEPT ![Key(a, c)] = b]
    BY <1>5 DEF RecordBrief
  <2>3. \A k \in Keys :
          /\ briefs[k] # None => briefs'[k] = briefs[k]
          /\ briefs'[k] # briefs[k] => receipts[k] # None
    BY <1>0, <2>1, <2>2 DEF TypeOK
  <2>4. assets' = assets /\ receipts' = receipts /\ servicerKey' = servicerKey
    BY <1>5 DEF RecordBrief
  <2>5. \A k \in Keys : receipts[k] # None => receipts'[k] = receipts[k]
    BY <2>4
  <2>6. \A x \in Asset : assets[x] # None => assets'[x] = assets[x]
    BY <2>4
  <2> QED BY <2>3, <2>4, <2>5, <2>6 DEF Final
<1>6. CASE UNCHANGED vars
  BY <1>6
<1> QED BY <1>1, <1>2, <1>3, <1>4, <1>5, <1>6 DEF VaultStep

\* Receipts, briefs, rules and the servicer key are written once.  For a
\* receipt this needs RecordsAgree: distribute looks at the flag alone.
THEOREM RecordsStayFinal == Spec => RecordsAreFinal
<1>1. Spec => [][Final]_vars
  BY SafetyInvariant, NextIsVaultStep, StepsAreFinal, PTL DEF Spec
<1> QED BY <1>1 DEF RecordsAreFinal, Final

-----------------------------------------------------------------------------
(* The vault implements Settlement: the mapped variables. *)

mappedRules == [a \in Asset |-> RulesOf(assets[a])]
mappedSettlements == {SettlementOf(receipts[k]) : k \in Settled}

\* An asset has rules in the escrow exactly when it is registered.
LEMMA RegisteredRules ==
  ASSUME NEW a \in Asset
  PROVE  /\ mappedRules[a].agreed <=> assets[a] # None
         /\ assets[a] # None => mappedRules[a].quorums = QuorumsOf(assets[a])
BY DEF mappedRules, RulesOf

\* The initial states are initial states of Settlement.
LEMMA MapInit == Init => Escrow!Init
<1> SUFFICES ASSUME Init PROVE Escrow!Init
  OBVIOUS
<1>1. Settled = {} /\ VotesIssued = {}
  BY DEF Init, Settled, VotesIssued
<1> QED BY <1>1 DEF Init, Escrow!Init, Escrow!NoRules, RulesOf

\* A signature is a vote if its verdict is "yes" and nothing otherwise.
LEMMA MapSign ==
  ASSUME TypeInv, NEW s \in Signable, s \in Signatures, Sign(s)
  PROVE  [Escrow!Next]_(Escrow!escrowVars)
<1>1. UNCHANGED <<assets, pools, receipts>> /\ signed' = signed \cup {s}
  BY DEF Sign, contractVars
<1>2. mappedRules' = mappedRules /\ mappedSettlements' = mappedSettlements
  BY <1>1 DEF mappedRules, mappedSettlements, Settled
<1>3. CASE s.message[3]
  <2>1. VotesIssued' = VotesIssued \cup {<<s.signer, s.message[1], s.message[2]>>}
    BY <1>1, <1>3 DEF VotesIssued
  <2>2. s.signer \in Verifier /\ s.message[1] \in Asset /\ s.message[2] \in Cycle
    BY DEF Signatures, Messages
  <2>3. Escrow!Vote(s.signer, s.message[1], s.message[2])
    BY <1>1, <1>2, <2>1 DEF Escrow!Vote, mappedRules, mappedSettlements
  <2> QED BY <2>2, <2>3 DEF Escrow!Next
<1>4. CASE ~s.message[3]
  <2>1. VotesIssued' = VotesIssued
    BY <1>1, <1>4 DEF VotesIssued
  <2> QED BY <1>1, <1>2, <2>1 DEF Escrow!escrowVars, mappedRules, mappedSettlements
<1> QED BY <1>3, <1>4

\* A registration registers the asset's rules there.
LEMMA MapRegister ==
  ASSUME TypeInv, NEW caller \in Account, NEW a \in Asset, NEW cfg \in Registration,
         RegisterAsset(caller, a, cfg)
  PROVE  Escrow!Register(a)
<1>1. cfg \in Configs /\ cfg # None
  BY InputAssumption, NoneAssumption
<1>2. assets[a] = None /\ assets' = [assets EXCEPT ![a] = cfg] /\ cfg.quorum # 0
  BY DEF RegisterAsset, RegisterError
<1>3. {} \notin RulesOf(cfg).quorums
  <2>1. Cardinality({}) = 0
    BY FS_EmptySet
  <2>2. cfg.quorum \in Nat /\ ~(0 >= cfg.quorum)
    BY <1>1, <1>2 DEF Configs
  <2> QED BY <1>1, <2>1, <2>2 DEF RulesOf, QuorumsOf
<1>4. ~mappedRules[a].agreed
  BY <1>2, RegisteredRules
<1>5. mappedRules' = [mappedRules EXCEPT ![a] = RulesOf(cfg)]
  BY <1>1, <1>2 DEF mappedRules, TypeInv, TypeOK
<1>6. UNCHANGED <<VotesIssued, pools, mappedSettlements>>
  BY DEF RegisterAsset, VotesIssued, mappedSettlements, Settled
<1> QED BY <1>3, <1>4, <1>5, <1>6 DEF Escrow!Register, mappedRules, mappedSettlements

\* An attached payment is a deposit there.
LEMMA MapFund ==
  ASSUME TypeInv, NEW a \in Asset, NEW attached \in Attached, Fund(a, attached)
  PROVE  Escrow!Deposit(a)
<1>1. assets[a] # None
  BY DEF Fund, FundError
<1>2. mappedRules[a].agreed
  BY <1>1, RegisteredRules
<1>3. pools' = [pools EXCEPT ![a] = pools[a] + attached]
  BY DEF Fund
<1>4. UNCHANGED <<mappedRules, VotesIssued, mappedSettlements>>
  BY DEF Fund, mappedRules, VotesIssued, mappedSettlements, Settled
<1> QED BY <1>2, <1>3, <1>4 DEF Escrow!Deposit, mappedRules, mappedSettlements

\* A distribution settles a cycle that had no settlement, on the votes of a
\* quorum of the panel, for the amount it pays.
LEMMA MapDistribute ==
  ASSUME SafetyInv, NEW a \in Asset, NEW c \in Cycle, NEW e \in EvidenceArrays,
         Distribute(a, c, e)
  PROVE  Escrow!Settle(a, c)
<1> DEFINE k == Key(a, c)
           receipt == NewReceipt(a, c, e)
           cfg == assets[a]
           paid == Paid(cfg, pools[a])
<1>1. /\ k \in Keys /\ k \notin Settled
      /\ Settled' = Settled \cup {k}
      /\ \A x \in Settled : receipts'[x] = receipts[x]
      /\ receipts'[k] = receipt
      /\ assets' = assets /\ signed' = signed
  BY DistributeRecords
<1>2. receipt.asset = a /\ receipt.cycle = c /\ receipt.total = paid
  BY DEF NewReceipt
<1>3. /\ cfg \in Configs /\ cfg # None
      /\ pools[a] \in Nat /\ paid \in 0 .. pools[a]
  BY DistributeFacts DEF SafetyInv, TypeInv
<1>4. pools[a] > 0
  BY <1>3 DEF Distribute, DistributeError
<1>6. mappedRules[a].agreed
  BY <1>3, RegisteredRules
<1>7. ~ \E s \in mappedSettlements : s.asset = a /\ s.cycle = c
  <2> SUFFICES ASSUME NEW x \in Settled, receipts[x].asset = a, receipts[x].cycle = c
               PROVE  FALSE
    BY DEF mappedSettlements, SettlementOf
  <2>1. Key(receipts[x].asset, receipts[x].cycle) = x
    BY DEF SafetyInv, RecordsAgree
  <2> QED BY <1>1, <2>1
<1>8. \E Q \in mappedRules[a].quorums : \A v \in Q : <<v, a, c>> \in VotesIssued
  <2>1. SettledByQuorum'
    BY DistributeSafetyInv DEF SafetyInv
  <2>2. /\ receipt.signers \subseteq Range(cfg.verifiers)
        /\ Cardinality(receipt.signers) >= cfg.quorum
        /\ \A v \in receipt.signers : \E d \in Detail :
             [signer |-> v, message |-> Message(a, c, TRUE, d)] \in signed
    <3> HIDE DEF receipt
    <3> QED BY <1>1, <1>2, <2>1 DEF SettledByQuorum
  <2>3. \A v \in receipt.signers : <<v, a, c>> \in VotesIssued
    <3> SUFFICES ASSUME NEW v \in receipt.signers PROVE <<v, a, c>> \in VotesIssued
      OBVIOUS
    <3>1. PICK d \in Detail :
            [signer |-> v, message |-> <<a, c, TRUE, d>>] \in signed
      BY <2>2 DEF Message
    <3> DEFINE s == [signer |-> v, message |-> <<a, c, TRUE, d>>]
    <3>2. s \in signed /\ s.message[3] /\ s.signer = v
          /\ s.message[1] = a /\ s.message[2] = c
      BY <3>1
    <3> HIDE DEF s
    <3> QED BY <3>2 DEF VotesIssued
  <2>4. receipt.signers \in QuorumsOf(cfg)
    BY <2>2 DEF QuorumsOf
  <2>5. receipt.signers \in mappedRules[a].quorums
    BY <1>3, <2>4, RegisteredRules
  <2> QED BY <2>3, <2>5
<1>9. pools' = [pools EXCEPT ![a] = pools[a] - paid]
  BY DEF Distribute
<1>10. mappedSettlements' =
         mappedSettlements \cup {[asset |-> a, cycle |-> c, amount |-> paid]}
  <2>1. SettlementOf(receipt) = [asset |-> a, cycle |-> c, amount |-> paid]
    BY <1>2 DEF SettlementOf
  <2>2. mappedSettlements' = {SettlementOf(receipts'[x]) : x \in Settled \cup {k}}
    BY <1>1 DEF mappedSettlements
  <2> HIDE DEF receipt, k, paid
  <2>3. mappedSettlements' = {SettlementOf(receipts[x]) : x \in Settled} \cup {SettlementOf(receipt)}
    BY <1>1, <2>2
  <2> QED BY <2>1, <2>3 DEF mappedSettlements
<1>11. mappedRules' = mappedRules /\ VotesIssued' = VotesIssued
  BY <1>1 DEF mappedRules, VotesIssued
<1>12. Escrow!InFavour(a, c)
  BY <1>8 DEF Escrow!InFavour, mappedRules
<1>13. ~Escrow!IsSettled(a, c)
  BY <1>7 DEF Escrow!IsSettled, mappedSettlements
<1> HIDE DEF paid
<1> QED BY <1>3, <1>4, <1>6, <1>9, <1>10, <1>11, <1>12, <1>13
        DEF Escrow!Settle, mappedRules, mappedSettlements

\* Every step is a step of Settlement or none.
LEMMA MapNext == SafetyInv /\ [Next]_vars => [Escrow!Next]_(Escrow!escrowVars)
<1> SUFFICES ASSUME SafetyInv, [Next]_vars PROVE [Escrow!Next]_(Escrow!escrowVars)
  OBVIOUS
<1>0. TypeInv
  BY DEF SafetyInv
<1>1. ASSUME NEW s \in Signable, Sign(s)
      PROVE  [Escrow!Next]_(Escrow!escrowVars)
  BY <1>0, <1>1, SignableType, MapSign
<1>2. ASSUME NEW caller \in Account, NEW a \in Asset, NEW cfg \in Registration,
             RegisterAsset(caller, a, cfg)
      PROVE  Escrow!Next
  BY <1>0, <1>2, MapRegister DEF Escrow!Next
<1>3. ASSUME NEW a \in Asset, NEW attached \in Attached, Fund(a, attached)
      PROVE  Escrow!Next
  BY <1>0, <1>3, MapFund DEF Escrow!Next
<1>4. ASSUME NEW a \in Asset, NEW c \in Cycle, NEW e \in Evidence, Distribute(a, c, e)
      PROVE  Escrow!Next
  <2>1. e \in EvidenceArrays
    BY InputAssumption
  <2> QED BY <1>4, <2>1, MapDistribute DEF Escrow!Next
<1>5. ASSUME UNCHANGED <<assets, signed, pools, receipts>>
      PROVE  UNCHANGED Escrow!escrowVars
  BY <1>5 DEF Escrow!escrowVars, VotesIssued, Settled
<1>6. ASSUME NEW caller \in Account, NEW a \in Asset, NEW c \in Cycle, NEW b \in Brief,
             RecordBrief(caller, a, c, b)
      PROVE  UNCHANGED Escrow!escrowVars
  BY <1>5, <1>6 DEF RecordBrief
<1>7. CASE UNCHANGED vars
  BY <1>5, <1>7 DEF vars, contractVars
<1> QED BY <1>1, <1>2, <1>3, <1>4, <1>6, <1>7 DEF Next

\* The vault is an escrow: every behaviour of the contract, seen through the
\* mapping of VaultRefinement, is one of Settlement.
THEOREM VaultImplementsSettlement == Spec => ImplementsSettlement
<1>1. Spec => [][Escrow!Next]_(Escrow!escrowVars)
  BY SafetyInvariant, MapNext, PTL DEF Spec
<1>2. Spec => Escrow!Init
  BY MapInit DEF Spec
<1> QED BY <1>1, <1>2, PTL DEF ImplementsSettlement, Escrow!Spec

-----------------------------------------------------------------------------
(* Which ids the keys keep apart. *)

\* If no asset id contains the separator, a key has one reading, whatever the
\* cycle ids contain.
LEMMA KeyInjective ==
  ASSUME \A a \in Asset : \A i \in DOMAIN a : a[i] # ":",
         NEW a \in Asset, NEW b \in Asset, NEW c \in Cycle, NEW d \in Cycle,
         Key(a, c) = Key(b, d)
  PROVE  a = b /\ c = d
<1>1. /\ a \in Seq(STRING) /\ b \in Seq(STRING) /\ c \in Seq(STRING) /\ d \in Seq(STRING)
      /\ ":" \in STRING
  BY IdAssumption
<1> DEFINE k == a \o <<":">> \o c
           l == b \o <<":">> \o d
<1>2. k = l
  BY DEF Key
<1>3. /\ \A i \in 1 .. Len(a) : k[i] = a[i]
      /\ k[Len(a) + 1] = ":"
      /\ \A i \in 1 .. Len(c) : k[Len(a) + 1 + i] = c[i]
      /\ Len(k) = Len(a) + 1 + Len(c)
  BY <1>1
<1>4. /\ \A i \in 1 .. Len(b) : l[i] = b[i]
      /\ l[Len(b) + 1] = ":"
      /\ \A i \in 1 .. Len(d) : l[Len(b) + 1 + i] = d[i]
      /\ Len(l) = Len(b) + 1 + Len(d)
  BY <1>1
<1> HIDE DEF k, l
<1>5. Len(a) \in Nat /\ Len(b) \in Nat /\ Len(c) \in Nat /\ Len(d) \in Nat
  BY <1>1
<1>6. Len(a) = Len(b)
  <2>1. \A i \in 1 .. Len(a) : a[i] # ":"
    BY <1>1
  <2>2. \A i \in 1 .. Len(b) : b[i] # ":"
    BY <1>1
  <2>3. ~(Len(b) < Len(a))
    <3> SUFFICES ASSUME Len(b) < Len(a) PROVE FALSE
      OBVIOUS
    <3>1. Len(b) + 1 \in 1 .. Len(a)
      BY <1>5
    <3> QED BY <1>2, <1>3, <1>4, <2>1, <3>1
  <2>4. ~(Len(a) < Len(b))
    <3> SUFFICES ASSUME Len(a) < Len(b) PROVE FALSE
      OBVIOUS
    <3>1. Len(a) + 1 \in 1 .. Len(b)
      BY <1>5
    <3> QED BY <1>2, <1>3, <1>4, <2>2, <3>1
  <2> QED BY <1>5, <2>3, <2>4
<1>7. a = b
  <2>1. \A i \in 1 .. Len(a) : a[i] = b[i]
    BY <1>2, <1>3, <1>4, <1>6
  <2> QED BY <1>1, <1>6, <2>1
<1>8. c = d
  <2>1. Len(c) = Len(d)
    BY <1>2, <1>3, <1>4, <1>5, <1>6
  <2>2. \A i \in 1 .. Len(c) : c[i] = d[i]
    BY <1>2, <1>3, <1>4, <1>6, <2>1
  <2> QED BY <1>1, <2>1, <2>2
<1> QED BY <1>7, <1>8

\* get_receipt answers for its own asset and cycle if asset ids are free of
\* colons; the run of MCVaultColon shows that they have to be.
THEOREM ReceiptLookup ==
  ASSUME \A a \in Asset : \A i \in DOMAIN a : a[i] # ":"
  PROVE  Spec => []ReceiptIsForItsCycle
<1>1. ASSUME SafetyInv
      PROVE  ReceiptIsForItsCycle
  <2> SUFFICES ASSUME NEW a \in Asset, NEW c \in Cycle, receipts[Key(a, c)] # None
               PROVE  receipts[Key(a, c)].asset = a /\ receipts[Key(a, c)].cycle = c
    BY DEF ReceiptIsForItsCycle
  <2> DEFINE k == Key(a, c)
             r == receipts[k]
  <2>1. k \in Keys
    BY DEF Keys
  <2>2. k \in Settled /\ r \in Receipts
    <3> HIDE DEF k
    <3> QED BY <1>1, <2>1 DEF k, r, Settled, SafetyInv, TypeInv, TypeOK
  <2>3. Key(r.asset, r.cycle) = k
    BY <1>1, <2>2 DEF SafetyInv, RecordsAgree
  <2>4. r.asset \in Asset /\ r.cycle \in Cycle
    BY <2>2 DEF Receipts
  <2> HIDE DEF r
  <2>5. r.asset = a /\ r.cycle = c
    BY <2>3, <2>4, KeyInjective
  <2> QED BY <2>5 DEF r
<1>2. SafetyInv => ReceiptIsForItsCycle
  BY <1>1
<1> QED BY <1>2, SafetyInvariant, PTL

-----------------------------------------------------------------------------
(* The registry's index. *)

\* Two lists without repetitions that have nothing in common make one.
LEMMA JoinedIndex ==
  ASSUME NEW X, NEW s \in Seq(X), NEW t \in Seq(X), IsInjective(s), IsInjective(t),
         Range(s) \cap Range(t) = {}
  PROVE  IsInjective(s \o t) /\ Range(s \o t) = Range(s) \cup Range(t)
<1> DEFINE u == s \o t
           m == Len(s)
           n == Len(t)
<1>1. /\ m \in Nat /\ n \in Nat /\ DOMAIN s = 1 .. m /\ DOMAIN t = 1 .. n
      /\ DOMAIN u = 1 .. (m + n)
      /\ \A i \in 1 .. m : u[i] = s[i]
      /\ \A i \in 1 .. n : u[m + i] = t[i]
  OBVIOUS
<1> HIDE DEF u, m, n
<1>2. \A i \in 1 .. (m + n) :
        \/ i \in DOMAIN s /\ u[i] = s[i]
        \/ i - m \in DOMAIN t /\ u[i] = t[i - m]
  <2> SUFFICES ASSUME NEW i \in 1 .. (m + n), i \notin 1 .. m
               PROVE  i - m \in 1 .. n /\ u[i] = t[i - m]
    BY <1>1
  <2>1. i - m \in 1 .. n /\ i = m + (i - m)
    BY <1>1
  <2> QED BY <1>1, <2>1
<1>3. \A j \in 1 .. n : m + j \in 1 .. (m + n)
  BY <1>1
<1>4. \A i \in 1 .. m : i \in 1 .. (m + n)
  BY <1>1
<1>5. Range(u) = Range(s) \cup Range(t)
  <2>1. \A i \in DOMAIN u : u[i] \in Range(s) \cup Range(t)
    BY <1>1, <1>2 DEF Range
  <2>2. \A i \in DOMAIN s : s[i] \in Range(u)
    BY <1>1, <1>4 DEF Range
  <2>3. \A j \in DOMAIN t : t[j] \in Range(u)
    BY <1>1, <1>3 DEF Range
  <2> QED BY <2>1, <2>2, <2>3 DEF Range
<1>6. ASSUME NEW i \in DOMAIN u, NEW k \in DOMAIN u, u[i] = u[k]
      PROVE  i = k
  <2>0. i \in Int /\ k \in Int /\ i \in 1 .. (m + n) /\ k \in 1 .. (m + n)
    BY <1>1
  <2>1. CASE (i \in DOMAIN s /\ u[i] = s[i]) /\ (k \in DOMAIN s /\ u[k] = s[k])
    BY <1>6, <2>1 DEF IsInjective
  <2>2. CASE (i - m \in DOMAIN t /\ u[i] = t[i - m]) /\ (k - m \in DOMAIN t /\ u[k] = t[k - m])
    <3>1. i - m = k - m
      BY <1>6, <2>2 DEF IsInjective
    <3> QED BY <1>1, <2>0, <3>1
  <2>3. CASE (i \in DOMAIN s /\ u[i] = s[i]) /\ (k - m \in DOMAIN t /\ u[k] = t[k - m])
    <3>1. u[i] \in Range(s) /\ u[k] \in Range(t)
      BY <2>3 DEF Range
    <3> QED BY <1>6, <3>1
  <2>4. CASE (i - m \in DOMAIN t /\ u[i] = t[i - m]) /\ (k \in DOMAIN s /\ u[k] = s[k])
    <3>1. u[k] \in Range(s) /\ u[i] \in Range(t)
      BY <2>4 DEF Range
    <3> QED BY <1>6, <3>1
  <2> QED BY <1>2, <2>0, <2>1, <2>2, <2>3, <2>4
<1>7. IsInjective(u)
  BY <1>6 DEF IsInjective
<1> QED BY <1>5, <1>7 DEF u

\* register_asset pushes each verifier it has not met before, once.
LEMMA FreshVerifiersFacts ==
  ASSUME NEW vs \in Seq(Verifier)
  PROVE  /\ FreshVerifiers(vs) \in Seq(Verifier)
         /\ IsInjective(FreshVerifiers(vs))
         /\ Range(FreshVerifiers(vs)) = {v \in Range(vs) : verifierRegistry[v] = None}
<1> DEFINE F == FreshPositions(vs)
           m == Cardinality(F)
           rank(i) == Cardinality({j \in F : j <= i})
           pos(n) == CHOOSE i \in F : rank(i) = n
           fv == [n \in 1 .. m |-> vs[pos(n)]]
           at == [n \in 1 .. m |-> pos(n)]
<1>1. DOMAIN vs = 1 .. Len(vs) /\ Len(vs) \in Nat
  OBVIOUS
<1>2. /\ F \in SUBSET (1 .. Len(vs)) /\ F \subseteq Nat
      /\ \A i \in F : verifierRegistry[vs[i]] = None
      /\ \A i \in F : \A j \in DOMAIN vs : j < i => vs[j] # vs[i]
  BY <1>1 DEF FreshPositions
<1>3. IsFiniteSet(F)
  <2>1. IsFiniteSet(1 .. Len(vs))
    BY <1>1, FS_Interval
  <2> QED BY <1>2, <2>1, FS_Subset
<1>4. m \in Nat
  BY <1>3, FS_CardinalityType
<1>5. \A n \in 1 .. m : pos(n) \in F /\ rank(pos(n)) = n
  <2> SUFFICES ASSUME NEW n \in 1 .. m PROVE pos(n) \in F /\ rank(pos(n)) = n
    OBVIOUS
  <2>1. \E i \in F : rank(i) = n
    <3> HIDE DEF F
    <3> QED BY <1>2, <1>3, RankSurjective
  <2> HIDE DEF F, rank
  <2> QED BY <2>1
<1>6. \A i, j \in F : vs[i] = vs[j] => i = j
  <2> SUFFICES ASSUME NEW i \in F, NEW j \in F, vs[i] = vs[j], i # j PROVE FALSE
    OBVIOUS
  <2>1. i < j \/ j < i
    BY <1>2
  <2>2. i \in DOMAIN vs /\ j \in DOMAIN vs
    BY <1>1, <1>2
  <2> QED BY <1>2, <2>1, <2>2
<1>7. FreshVerifiers(vs) = fv
  BY DEF FreshVerifiers
<1>8. at \in Injection(1 .. m, F)
  <2>1. at \in [1 .. m -> F]
    <3> HIDE DEF pos, F, m
    <3> QED BY <1>5
  <2>2. \A n, k \in 1 .. m : at[n] = at[k] => n = k
    <3>1. \A n \in 1 .. m : at[n] = pos(n)
      OBVIOUS
    <3> HIDE DEF pos, rank, m, at
    <3> QED BY <1>5, <3>1
  <2> HIDE DEF at, m, F
  <2> QED BY <2>1, <2>2 DEF Injection, IsInjective
<1>9. at \in Surjection(1 .. m, F)
  <2>1. 1 \in Int /\ m \in Int
    BY <1>4
  <2>2. IsFiniteSet(1 .. m) /\ Cardinality(1 .. m) = IF 1 > m THEN 0 ELSE m - 1 + 1
    <3> HIDE DEF m
    <3> QED BY <2>1, FS_Interval
  <2>3. Cardinality(1 .. m) = m
    <3> HIDE DEF m
    <3> QED BY <2>2, <1>4
  <2> HIDE DEF at, F
  <2> QED BY <1>3, <1>8, <2>2, <2>3, FS_Injection
<1>10. \A i \in F : \E n \in 1 .. m : pos(n) = i
  <2>1. \A i \in F : \E n \in 1 .. m : at[n] = i
    <3> HIDE DEF at, F, m
    <3> QED BY <1>9 DEF Surjection
  <2> HIDE DEF pos, F, m
  <2> QED BY <2>1
<1>11. fv \in Seq(Verifier)
  BY <1>7, FreshVerifiersType
<1>12. DOMAIN fv = 1 .. m /\ \A n \in 1 .. m : fv[n] = vs[pos(n)]
  OBVIOUS
<1>13. IsInjective(fv)
  <2>1. ASSUME NEW n \in 1 .. m, NEW k \in 1 .. m, fv[n] = fv[k]
        PROVE  n = k
    <3>1. pos(n) \in F /\ pos(k) \in F /\ vs[pos(n)] = vs[pos(k)]
      <4> HIDE DEF pos, F, m, fv
      <4> QED BY <1>5, <1>12, <2>1
    <3>2. pos(n) = pos(k)
      <4> HIDE DEF pos, F
      <4> QED BY <3>1, <1>6
    <3> HIDE DEF rank, pos
    <3> QED BY <1>5, <3>2
  <2> HIDE DEF fv, m
  <2> QED BY <1>12, <2>1 DEF IsInjective
<1>14. ASSUME NEW v, v \in Range(fv)
       PROVE  v \in Range(vs) /\ verifierRegistry[v] = None
  <2>1. PICK n \in 1 .. m : v = vs[pos(n)]
    <3> HIDE DEF fv, m, pos
    <3> QED BY <1>12, <1>14 DEF Range
  <2>2. pos(n) \in F /\ pos(n) \in DOMAIN vs
    <3> HIDE DEF pos, F, m
    <3> QED BY <1>1, <1>2, <1>5
  <2> HIDE DEF pos, F
  <2> QED BY <1>2, <2>1, <2>2 DEF Range
<1>15. ASSUME NEW v \in Range(vs), verifierRegistry[v] = None
       PROVE  v \in Range(fv)
  <2> DEFINE T == {i \in 1 .. Len(vs) : vs[i] = v}
  <2>1. T \in SUBSET Nat /\ T # {}
    BY <1>1 DEF Range
  <2>2. PICK i \in T : \A j \in T : i <= j
    <3> HIDE DEF T
    <3> QED BY <2>1, LeastElement
  <2>3. i \in F
    <3>1. \A j \in DOMAIN vs : j < i => vs[j] # vs[i]
      BY <1>1, <2>2
    <3> QED BY <1>1, <1>15, <2>2, <3>1 DEF FreshPositions
  <2>4. PICK n \in 1 .. m : pos(n) = i
    <3> HIDE DEF F, m, pos
    <3> QED BY <1>10, <2>3
  <2>5. fv[n] = v
    <3> HIDE DEF F, m, pos, fv
    <3> QED BY <1>12, <2>2, <2>4
  <2> HIDE DEF fv, m
  <2> QED BY <1>12, <2>5 DEF Range
<1> HIDE DEF fv
<1> QED BY <1>7, <1>11, <1>13, <1>14, <1>15

\* register_asset appends to the index just the verifiers it has seeded.
LEMMA RegisterAssetIndex ==
  ASSUME TypeInv, RegistryIndexed, NEW caller \in Account, NEW a \in Asset,
         NEW cfg \in Registration, RegisterAsset(caller, a, cfg)
  PROVE  RegistryIndexed'
<1> DEFINE listed == {v \in Verifier : verifierRegistry[v] # None}
           vs == cfg.verifiers
           fv == FreshVerifiers(vs)
<1>1. vs \in Seq(Verifier)
  BY InputAssumption DEF Configs
<1>2. /\ fv \in Seq(Verifier) /\ IsInjective(fv)
      /\ Range(fv) = {v \in Range(vs) : verifierRegistry[v] = None}
  <2> HIDE DEF vs
  <2> QED BY <1>1, FreshVerifiersFacts
<1>3. /\ verifierKeys \in Seq(Verifier) /\ IsInjective(verifierKeys)
      /\ Range(verifierKeys) = listed
  BY DEF TypeInv, TypeOK, RegistryIndexed
<1>4. verifierKeys' = verifierKeys \o fv
  BY DEF RegisterAsset
<1>5. Range(vs) \subseteq Verifier
  BY <1>1 DEF Range
<1>6. Range(verifierKeys) \cap Range(fv) = {}
  <2> HIDE DEF fv, vs
  <2> QED BY <1>2, <1>3
<1>7. IsInjective(verifierKeys') /\ Range(verifierKeys') = listed \cup Range(fv)
  <2> DEFINE keys == verifierKeys
  <2>1. keys \in Seq(Verifier) /\ IsInjective(keys) /\ Range(keys) \cap Range(fv) = {}
    BY <1>3, <1>6
  <2>2. IsInjective(keys \o fv) /\ Range(keys \o fv) = Range(keys) \cup Range(fv)
    <3> HIDE DEF fv, keys
    <3> QED BY <1>2, <2>1, JoinedIndex
  <2> HIDE DEF fv, listed
  <2> QED BY <1>3, <1>4, <2>2
<1>8. {v \in Verifier : verifierRegistry'[v] # None} = listed \cup Range(fv)
  <2>1. verifierRegistry' =
          [v \in Verifier |-> IF v \in Range(vs) /\ verifierRegistry[v] = None
                              THEN NewReputation ELSE verifierRegistry[v]]
    BY DEF RegisterAsset
  <2>2. NewReputation # None
    <3>1. NewReputation \in Reputations
      BY DEF NewReputation, Reputations, Scores
    <3> QED BY <3>1, NoneAssumption
  <2> HIDE DEF vs, fv
  <2> QED BY <1>2, <1>5, <2>1, <2>2
<1>9. ASSUME NEW x \in Asset, assets'[x] # None
      PROVE  Range(assets'[x].verifiers) \subseteq Range(verifierKeys')
  <2>1. CASE x = a
    <3>1. assets'[x] = cfg
      BY <2>1 DEF RegisterAsset, TypeInv, TypeOK
    <3>2. Range(vs) \subseteq listed \cup Range(fv)
      <4> HIDE DEF vs, fv
      <4> QED BY <1>2, <1>5
    <3> QED BY <1>7, <3>1, <3>2
  <2>2. CASE x # a
    <3>1. assets'[x] = assets[x]
      BY <2>2 DEF RegisterAsset, TypeInv, TypeOK
    <3>2. Range(assets[x].verifiers) \subseteq Range(verifierKeys)
      BY <1>9, <3>1 DEF RegistryIndexed
    <3> HIDE DEF fv, listed
    <3> QED BY <1>3, <1>7, <3>1, <3>2
  <2> QED BY <2>1, <2>2
<1> QED BY <1>7, <1>8, <1>9 DEF RegistryIndexed

\* distribute finds every verifier it scores in the registry already, and so
\* neither lists nor delists one.
LEMMA DistributeIndex ==
  ASSUME TypeInv, RegistryIndexed, NEW a \in Asset, NEW c \in Cycle,
         NEW e \in EvidenceArrays, Distribute(a, c, e)
  PROVE  /\ RegistryIndexed'
         /\ \A v \in Range(assets[a].verifiers) :
              v \in Verifier /\ verifierRegistry[v] \in Reputations /\ verifierRegistry[v] # None
<1> DEFINE cfg == assets[a]
           k == Key(a, c)
           counted == CountedVotes(cfg, a, c, e)
           scored(v) == Scored(v, k, e, counted)
<1>1. /\ e \in EvidenceArrays /\ ParallelArrays(e) /\ cfg \in Configs /\ cfg # None
      /\ k \in Keys
  BY DistributeFacts DEF TypeInv
<1>2. \A v \in Range(cfg.verifiers) :
        v \in Verifier /\ verifierRegistry[v] \in Reputations /\ verifierRegistry[v] # None
  BY <1>1 DEF RegistryIndexed, TypeInv, TypeOK
<1>3. \A v \in Verifier : scored(v) # None
  <2>1. counted \in SUBSET (DOMAIN e.signers)
    BY <1>1, CountedVotesFacts
  <2>2. \A v \in Verifier : scored(v) \in Reputations
    <3> HIDE DEF counted, k
    <3> QED BY <1>1, <2>1, ScoredType DEF TypeInv
  <2> HIDE DEF scored
  <2> QED BY <2>2, NoneAssumption
<1>4. verifierRegistry' = [v \in Verifier |-> IF v \in Range(cfg.verifiers)
                                              THEN scored(v) ELSE verifierRegistry[v]]
  BY DEF Distribute
<1>5. UNCHANGED <<assets, verifierKeys>>
  BY DEF Distribute
<1> HIDE DEF scored, cfg
<1>6. {v \in Verifier : verifierRegistry'[v] # None}
        = {v \in Verifier : verifierRegistry[v] # None}
  BY <1>2, <1>3, <1>4
<1> QED BY <1>2, <1>5, <1>6 DEF RegistryIndexed, cfg

\* The index and the registry go together from the first registration on.
LEMMA NextRegistryIndexed == TypeInv /\ RegistryIndexed /\ [VaultStep]_vars => RegistryIndexed'
<1> SUFFICES ASSUME TypeInv, RegistryIndexed, [VaultStep]_vars PROVE RegistryIndexed'
  OBVIOUS
<1>1. ASSUME UNCHANGED <<assets, verifierRegistry, verifierKeys>>
      PROVE  RegistryIndexed'
  BY <1>1 DEF RegistryIndexed
<1>2. ASSUME NEW s \in Signatures, Issue(s) PROVE RegistryIndexed'
  BY <1>1, <1>2 DEF Issue, contractVars
<1>3. ASSUME NEW a \in Asset, NEW attached \in Attached, Fund(a, attached)
      PROVE  RegistryIndexed'
  BY <1>1, <1>3 DEF Fund
<1>4. ASSUME NEW caller \in Account, NEW a \in Asset, NEW c \in Cycle, NEW b \in Brief,
             RecordBrief(caller, a, c, b)
      PROVE  RegistryIndexed'
  BY <1>1, <1>4 DEF RecordBrief
<1>5. CASE UNCHANGED vars
  BY <1>1, <1>5 DEF vars, contractVars
<1> QED BY <1>2, <1>3, <1>4, <1>5, RegisterAssetIndex, DistributeIndex DEF VaultStep

\* An empty index lists an empty registry.
LEMMA InitRegistryIndexed == Init => RegistryIndexed
<1> SUFFICES ASSUME Init PROVE RegistryIndexed
  OBVIOUS
<1>1. verifierKeys = <<>> /\ \A v \in Verifier : verifierRegistry[v] = None
  BY DEF Init
<1>2. Range(verifierKeys) = {} /\ IsInjective(verifierKeys)
  BY <1>1 DEF Range, IsInjective
<1>3. \A a \in Asset : assets[a] = None
  BY DEF Init
<1> QED BY <1>1, <1>2, <1>3 DEF RegistryIndexed

-----------------------------------------------------------------------------
(* Reputation. *)

\* The settled cycles that saw v, and those of them it signed.
Judged(v) == {k \in Settled : receipts[k].snapshot[v] # None}
Agreed(v) == {k \in Judged(v) : v \in receipts[k].signers}

\* ReputationMatchesReceipts for one registered verifier.
RecordIsTrue(v) ==
  LET rep == verifierRegistry[v]
  IN  /\ rep.score.seen = Cardinality(Judged(v))
      /\ rep.score.agreed = Cardinality(Agreed(v))
      /\ rep.score.agreed <= rep.score.voted
      /\ rep.score.voted <= rep.score.seen
      /\ rep.lastVerdict = None <=> rep.score.voted = 0
      /\ rep.lastCycle = None <=> rep.score.voted = 0
      /\ rep.lastCycle # None =>
           /\ rep.lastCycle \in Judged(v)
           /\ (rep.lastVerdict = TRUE) <=> v \in receipts[rep.lastCycle].signers

\* Who is not in the registry has not been seen: without it a verifier could
\* be registered late and start from a record that is not its own.
UnlistedUnseen ==
  \A v \in Verifier : verifierRegistry[v] = None => Judged(v) = {}

\* ReputationMatchesReceipts, verifier by verifier.
LEMMA RecordsAreTrue ==
  ReputationMatchesReceipts <=>
    \A v \in Verifier : verifierRegistry[v] # None => RecordIsTrue(v)
BY DEF ReputationMatchesReceipts, RecordIsTrue, Judged, Agreed

\* The cycles of a verifier are finitely many.
LEMMA JudgedFinite ==
  ASSUME SafetyInv, NEW v
  PROVE  /\ Judged(v) \in SUBSET Settled /\ Agreed(v) \in SUBSET Judged(v)
         /\ IsFiniteSet(Judged(v)) /\ IsFiniteSet(Agreed(v))
         /\ Cardinality(Judged(v)) \in Nat /\ Cardinality(Agreed(v)) \in Nat
<1>1. IsFiniteSet(Settled)
  BY DEF SafetyInv, RecordsAgree
<1>2. Judged(v) \in SUBSET Settled /\ Agreed(v) \in SUBSET Judged(v)
  BY DEF Judged, Agreed
<1> QED BY <1>1, <1>2, FS_Subset, FS_CardinalityType

\* The snapshot in a new receipt is the verifier's record at that time.
LEMMA ReceiptSnapshot ==
  ASSUME NEW a \in Asset, NEW c \in Cycle, NEW e \in EvidenceArrays, NEW v \in Verifier
  PROVE  NewReceipt(a, c, e).snapshot[v] =
           IF v \in Range(assets[a].verifiers) THEN ReputationOf(v).score ELSE None
BY DEF NewReceipt

\* What the receipt of a settlement says of a verifier, next to the vote that
\* the contract has counted for it.
LEMMA ReceiptSigners ==
  ASSUME NEW a \in Asset, NEW c \in Cycle, NEW e \in EvidenceArrays, NEW v \in Verifier,
         TypeOK, RulesValid, Distribute(a, c, e)
  PROVE  LET signers == NewReceipt(a, c, e).signers
             counted == CountedVotes(assets[a], a, c, e)
         IN  /\ v \notin Range(assets[a].verifiers) => v \notin signers
             /\ (\A i \in counted : e.signers[i] # v) => v \notin signers
             /\ \A i \in counted : e.signers[i] = v =>
                  e.verdicts[i] \in BOOLEAN /\ (e.verdicts[i] <=> v \in signers)
<1> DEFINE cfg == assets[a]
           counted == CountedVotes(cfg, a, c, e)
           yes == YesVotes(cfg, a, c, e)
           receipt == NewReceipt(a, c, e)
<1>1. /\ e \in EvidenceArrays /\ ParallelArrays(e) /\ cfg \in Configs
  BY DistributeFacts
<1>2. receipt.signers = {e.signers[i] : i \in yes}
  BY DEF NewReceipt
<1>3. /\ counted \subseteq DOMAIN e.signers
      /\ \A i, j \in counted : e.signers[i] = e.signers[j] => i = j
  BY <1>1, CountedVotesFacts
<1>4. \A i : i \in yes <=> i \in counted /\ e.verdicts[i]
  BY DEF YesVotes
<1>5. \A i \in counted : e.signers[i] \in Range(cfg.verifiers)
  BY DEF CountedVotes, ValidVotes
<1>6. \A i \in counted : e.verdicts[i] \in BOOLEAN
  <2>1. e.verdicts \in Seq(BOOLEAN) /\ DOMAIN e.verdicts = DOMAIN e.signers
    BY <1>1 DEF EvidenceArrays, ParallelArrays
  <2> HIDE DEF counted
  <2> QED BY <1>3, <2>1
<1> HIDE DEF counted, yes, receipt, cfg
<1>7. v \in receipt.signers <=> \E i \in counted : e.signers[i] = v /\ e.verdicts[i]
  BY <1>2, <1>4
<1>8. v \notin Range(cfg.verifiers) => v \notin receipt.signers
  BY <1>5, <1>7
<1>9. (\A i \in counted : e.signers[i] # v) => v \notin receipt.signers
  BY <1>7
<1>10. ASSUME NEW i \in counted, e.signers[i] = v
       PROVE  e.verdicts[i] \in BOOLEAN /\ (e.verdicts[i] <=> v \in receipt.signers)
  <2>1. \A j \in counted : e.signers[j] = v => j = i
    BY <1>3, <1>10
  <2>2. v \in receipt.signers <=> e.verdicts[i]
    BY <1>7, <1>10, <2>1
  <2> QED BY <1>6, <2>2
<1> QED BY <1>8, <1>9, <1>10 DEF cfg, receipt, counted

\* How a settlement changes what the receipts say of a verifier.
LEMMA DistributeJudged ==
  ASSUME NEW a \in Asset, NEW c \in Cycle, NEW e \in EvidenceArrays, NEW v \in Verifier,
         SafetyInv, Distribute(a, c, e)
  PROVE  LET k == Key(a, c)
         IN  /\ Judged(v)' = IF v \in Range(assets[a].verifiers)
                             THEN Judged(v) \cup {k} ELSE Judged(v)
             /\ Agreed(v)' = IF v \in NewReceipt(a, c, e).signers
                             THEN Agreed(v) \cup {k} ELSE Agreed(v)
<1> DEFINE k == Key(a, c)
           receipt == NewReceipt(a, c, e)
<1>1. /\ k \notin Settled /\ Settled' = Settled \cup {k}
      /\ \A x \in Settled : receipts'[x] = receipts[x]
      /\ receipts'[k] = receipt
  BY DistributeRecords
<1>2. receipt.snapshot[v] = IF v \in Range(assets[a].verifiers)
                            THEN ReputationOf(v).score ELSE None
  BY ReceiptSnapshot
<1>6. v \notin Range(assets[a].verifiers) => v \notin receipt.signers
  <2>1. TypeOK /\ RulesValid
    BY DEF SafetyInv, TypeInv
  <2> QED BY <2>1, ReceiptSigners
<1>3. ReputationOf(v).score # None
  <2>1. ReputationOf(v).score \in Scores
    BY DEF SafetyInv, TypeInv, TypeOK, ReputationOf, NewReputation, Reputations, Scores
  <2> QED BY <2>1, NoneAssumption
<1> HIDE DEF k, receipt
<1>4. Judged(v)' = IF v \in Range(assets[a].verifiers)
                   THEN Judged(v) \cup {k} ELSE Judged(v)
  BY <1>1, <1>2, <1>3 DEF Judged
<1>5. Agreed(v)' = IF v \in receipt.signers THEN Agreed(v) \cup {k} ELSE Agreed(v)
  <2>1. Agreed(v)' = {x \in Judged(v)' : v \in receipts'[x].signers}
    BY DEF Agreed
  <2>2. \A x \in Judged(v) : x \in Settled
    BY DEF Judged
  <2> QED BY <1>1, <1>4, <1>6, <2>1, <2>2 DEF Agreed
<1> QED BY <1>4, <1>5 DEF k, receipt

\* A settlement scores the verifiers of its asset and leaves the others alone.
LEMMA DistributeReputation ==
  ASSUME SafetyInv, RegistryIndexed, ReputationMatchesReceipts, UnlistedUnseen,
         NEW a \in Asset, NEW c \in Cycle, NEW e \in EvidenceArrays, Distribute(a, c, e)
  PROVE  (ReputationMatchesReceipts /\ UnlistedUnseen)'
<1> DEFINE cfg == assets[a]
           k == Key(a, c)
           receipt == NewReceipt(a, c, e)
           counted == CountedVotes(cfg, a, c, e)
<1>1. /\ k \in Keys /\ k \notin Settled
      /\ \A x \in Settled : receipts'[x] = receipts[x]
      /\ receipts'[k] = receipt
  BY DistributeRecords
<1>2. \A v \in Range(cfg.verifiers) :
        v \in Verifier /\ verifierRegistry[v] \in Reputations /\ verifierRegistry[v] # None
  BY DistributeIndex DEF SafetyInv
<1>3. verifierRegistry' = [v \in Verifier |-> IF v \in Range(cfg.verifiers)
                                              THEN Scored(v, k, e, counted)
                                              ELSE verifierRegistry[v]]
  BY DEF Distribute
<1>4. TypeOK /\ RulesValid
  BY DEF SafetyInv, TypeInv
<1>5. ASSUME NEW v \in Verifier
      PROVE  /\ Judged(v)' = IF v \in Range(cfg.verifiers) THEN Judged(v) \cup {k} ELSE Judged(v)
             /\ Agreed(v)' = IF v \in receipt.signers THEN Agreed(v) \cup {k} ELSE Agreed(v)
             /\ v \notin Range(cfg.verifiers) => v \notin receipt.signers
  <2>1. v \notin Range(cfg.verifiers) => v \notin receipt.signers
    BY <1>4, ReceiptSigners
  <2> QED BY <2>1, DistributeJudged
<1>6. ASSUME NEW v \in Verifier, v \notin Range(cfg.verifiers)
      PROVE  /\ verifierRegistry'[v] = verifierRegistry[v]
             /\ Judged(v)' = Judged(v) /\ Agreed(v)' = Agreed(v)
             /\ \A x \in Judged(v) : receipts'[x] = receipts[x]
  <2> HIDE DEF cfg, k, receipt, counted
  <2>1. \A x \in Judged(v) : x \in Settled
    BY DEF Judged
  <2> QED BY <1>1, <1>3, <1>5, <1>6, <2>1
<1>7. ASSUME NEW v \in Verifier, v \in Range(cfg.verifiers)
      PROVE  RecordIsTrue(v)'
  <2> DEFINE rep == verifierRegistry[v]
             new == verifierRegistry'[v]
             votes == {i \in counted : e.signers[i] = v}
             vote == CHOOSE i \in votes : TRUE
             yes == e.verdicts[vote]
  <2>1. rep \in Reputations /\ rep # None /\ ReputationOf(v) = rep
    BY <1>2, <1>7 DEF ReputationOf
  <2>2. RecordIsTrue(v)
    BY <2>1, RecordsAreTrue
  <2>3. new = Scored(v, k, e, counted)
    BY <1>3, <1>7
  <2>4. /\ IsFiniteSet(Judged(v)) /\ IsFiniteSet(Agreed(v))
        /\ Cardinality(Judged(v)) \in Nat /\ Cardinality(Agreed(v)) \in Nat
        /\ k \notin Judged(v) /\ k \notin Agreed(v)
        /\ \A x \in Judged(v) : receipts'[x] = receipts[x]
    <3>1. \A x \in Judged(v) : x \in Settled
      BY DEF Judged
    <3>2. \A x \in Agreed(v) : x \in Judged(v)
      BY DEF Agreed
    <3> HIDE DEF k, receipt
    <3> QED BY <1>1, <3>1, <3>2, JudgedFinite
  <2>5. Judged(v)' = Judged(v) \cup {k}
        /\ Cardinality(Judged(v)') = Cardinality(Judged(v)) + 1
    <3>1. Judged(v)' = Judged(v) \cup {k}
      BY <1>5, <1>7
    <3> HIDE DEF k
    <3> QED BY <2>4, <3>1, FS_AddElement
  <2>6. Cardinality(Agreed(v)') = Cardinality(Agreed(v))
                                    + IF v \in receipt.signers THEN 1 ELSE 0
    <3>1. CASE v \in receipt.signers
      <4>1. Agreed(v)' = Agreed(v) \cup {k}
        BY <1>5, <3>1
      <4> HIDE DEF k, receipt
      <4> QED BY <2>4, <3>1, <4>1, FS_AddElement
    <3>2. CASE v \notin receipt.signers
      <4>1. Agreed(v)' = Agreed(v)
        BY <1>5, <3>2
      <4> HIDE DEF receipt
      <4> QED BY <2>4, <3>2, <4>1
    <3> QED BY <3>1, <3>2
  <2>7. /\ rep.score.seen = Cardinality(Judged(v))
        /\ rep.score.agreed = Cardinality(Agreed(v))
        /\ rep.score.seen \in Nat /\ rep.score.voted \in Nat /\ rep.score.agreed \in Nat
        /\ rep.score.agreed <= rep.score.voted /\ rep.score.voted <= rep.score.seen
    BY <2>1, <2>2 DEF RecordIsTrue, Reputations, Scores
  <2>8. CASE votes = {}
    <3>1. new = [rep EXCEPT !.score.seen = rep.score.seen + 1]
      BY <2>1, <2>3, <2>8 DEF Scored
    <3>2. v \notin receipt.signers
      <4>1. \A i \in counted : e.signers[i] # v
        BY <2>8
      <4> QED BY <1>4, <4>1, ReceiptSigners
    <3> HIDE DEF rep, receipt, votes, k, new
    <3>3. /\ new.score.seen = rep.score.seen + 1
          /\ new.score.voted = rep.score.voted
          /\ new.score.agreed = rep.score.agreed
          /\ new.lastVerdict = rep.lastVerdict
          /\ new.lastCycle = rep.lastCycle
      BY <2>1, <3>1 DEF Reputations, Scores
    <3>4. /\ new.score.seen = Cardinality(Judged(v)')
          /\ new.score.agreed = Cardinality(Agreed(v)')
          /\ new.score.agreed <= new.score.voted
          /\ new.score.voted <= new.score.seen
      BY <2>5, <2>6, <2>7, <3>2, <3>3
    <3>5. /\ rep.lastVerdict = None <=> rep.score.voted = 0
          /\ rep.lastCycle = None <=> rep.score.voted = 0
          /\ rep.lastCycle # None => rep.lastCycle \in Judged(v)
      BY <2>2 DEF RecordIsTrue, rep
    <3>6. rep.lastCycle # None =>
            ((rep.lastVerdict = TRUE) <=> v \in receipts[rep.lastCycle].signers)
      BY <2>2 DEF RecordIsTrue, rep
    <3>7. new.lastCycle # None =>
            /\ new.lastCycle \in Judged(v)'
            /\ (new.lastVerdict = TRUE) <=> v \in receipts'[new.lastCycle].signers
      BY <2>4, <2>5, <3>3, <3>5, <3>6
    <3>8. /\ new.lastVerdict = None <=> new.score.voted = 0
          /\ new.lastCycle = None <=> new.score.voted = 0
      BY <3>3, <3>5
    <3> QED BY <3>4, <3>7, <3>8 DEF RecordIsTrue, new
  <2>9. CASE votes # {}
    <3>1. new = [score |-> [seen   |-> rep.score.seen + 1,
                            voted  |-> rep.score.voted + 1,
                            agreed |-> rep.score.agreed + IF yes THEN 1 ELSE 0],
                 lastVerdict |-> yes,
                 lastCycle   |-> k]
      <4>1. Scored(v, k, e, counted) =
              IF votes = {} THEN [ReputationOf(v) EXCEPT !.score.seen = @ + 1]
              ELSE [score |-> [seen   |-> ReputationOf(v).score.seen + 1,
                               voted  |-> ReputationOf(v).score.voted + 1,
                               agreed |-> ReputationOf(v).score.agreed
                                            + IF yes THEN 1 ELSE 0],
                    lastVerdict |-> yes,
                    lastCycle   |-> k]
        BY DEF Scored
      <4> HIDE DEF rep, yes, k, votes, counted, new
      <4> QED BY <2>1, <2>3, <2>9, <4>1
    <3>2. yes \in BOOLEAN /\ ((yes = TRUE) <=> v \in receipt.signers)
      <4>1. vote \in counted /\ e.signers[vote] = v
        <5> HIDE DEF counted
        <5> QED BY <2>9
      <4>2. \A i \in counted : e.signers[i] = v =>
              e.verdicts[i] \in BOOLEAN /\ (e.verdicts[i] <=> v \in receipt.signers)
        BY <1>4, ReceiptSigners
      <4> HIDE DEF counted, vote, receipt
      <4>3. yes \in BOOLEAN /\ (yes <=> v \in receipt.signers)
        BY <4>1, <4>2
      <4> HIDE DEF yes
      <4> QED BY <4>3
    <3> HIDE DEF rep, receipt, votes, k, new, yes
    <3>3. /\ new.score.seen = rep.score.seen + 1
          /\ new.score.voted = rep.score.voted + 1
          /\ new.score.agreed = rep.score.agreed + IF v \in receipt.signers THEN 1 ELSE 0
          /\ new.lastVerdict = yes /\ new.lastCycle = k
      BY <3>1, <3>2
    <3>4. /\ new.score.seen = Cardinality(Judged(v)')
          /\ new.score.agreed = Cardinality(Agreed(v)')
          /\ new.score.agreed <= new.score.voted
          /\ new.score.voted <= new.score.seen
          /\ new.score.voted # 0
      BY <2>5, <2>6, <2>7, <3>3
    <3>5. new.lastVerdict # None /\ new.lastCycle # None
      BY <1>1, <3>2, <3>3, NoneAssumption
    <3>6. /\ new.lastCycle \in Judged(v)'
          /\ (new.lastVerdict = TRUE) <=> v \in receipts'[new.lastCycle].signers
      BY <1>1, <2>5, <3>2, <3>3
    <3> QED BY <3>4, <3>5, <3>6 DEF RecordIsTrue, new
  <2> QED BY <2>8, <2>9
<1>8. ASSUME NEW v \in Verifier, v \notin Range(cfg.verifiers), verifierRegistry[v] # None
      PROVE  RecordIsTrue(v)'
  <2>1. RecordIsTrue(v)
    BY <1>8, RecordsAreTrue
  <2> HIDE DEF cfg
  <2> QED BY <1>6, <1>8, <2>1 DEF RecordIsTrue
<1>9. ReputationMatchesReceipts'
  <2>1. ASSUME NEW v \in Verifier, verifierRegistry'[v] # None
        PROVE  RecordIsTrue(v)'
    <3> HIDE DEF cfg
    <3> QED BY <1>6, <1>7, <1>8, <2>1
  <2>2. \A v \in Verifier : verifierRegistry'[v] # None => RecordIsTrue(v)'
    BY <2>1
  <2> QED BY <2>2 DEF ReputationMatchesReceipts, RecordIsTrue, Judged, Agreed
<1>10. UnlistedUnseen'
  <2> SUFFICES ASSUME NEW v \in Verifier, verifierRegistry'[v] = None
               PROVE  Judged(v)' = {}
    BY DEF UnlistedUnseen
  <2>1. v \notin Range(cfg.verifiers)
    <3>1. counted \in SUBSET (DOMAIN e.signers) /\ e \in EvidenceArrays /\ ParallelArrays(e)
      BY <1>4, DistributeFacts, CountedVotesFacts
    <3>2. Scored(v, k, e, counted) \in Reputations
      <4> HIDE DEF k, counted
      <4> QED BY <1>1, <1>4, <3>1, ScoredType
    <3> HIDE DEF k, counted, cfg
    <3> QED BY <1>3, <3>2, NoneAssumption
  <2> HIDE DEF cfg
  <2> QED BY <1>6, <2>1 DEF UnlistedUnseen
<1> QED BY <1>9, <1>10

\* A newly registered verifier starts from a record that no receipt speaks of.
LEMMA RegisterReputation ==
  ASSUME TypeInv, ReputationMatchesReceipts, UnlistedUnseen,
         NEW caller \in Account, NEW a \in Asset, NEW cfg \in Registration,
         RegisterAsset(caller, a, cfg)
  PROVE  (ReputationMatchesReceipts /\ UnlistedUnseen)'
<1>1. receipts' = receipts
  BY DEF RegisterAsset
<1>2. \A v \in Verifier : Judged(v)' = Judged(v) /\ Agreed(v)' = Agreed(v)
  BY <1>1 DEF Judged, Agreed, Settled
<1>3. ASSUME NEW v \in Verifier
      PROVE  \/ verifierRegistry'[v] = verifierRegistry[v]
             \/ verifierRegistry[v] = None /\ verifierRegistry'[v] = NewReputation
  BY DEF RegisterAsset
<1>4. ASSUME NEW v \in Verifier, verifierRegistry'[v] # None
      PROVE  RecordIsTrue(v)'
  <2>1. CASE verifierRegistry'[v] = verifierRegistry[v]
    <3>1. RecordIsTrue(v)
      BY <1>4, <2>1, RecordsAreTrue
    <3> QED BY <1>1, <1>2, <2>1, <3>1 DEF RecordIsTrue
  <2>2. CASE verifierRegistry[v] = None /\ verifierRegistry'[v] = NewReputation
    <3>1. Judged(v) = {} /\ Agreed(v) = {}
      BY <2>2 DEF UnlistedUnseen, Agreed
    <3>2. Cardinality(Judged(v)') = 0 /\ Cardinality(Agreed(v)') = 0
      BY <1>2, <3>1, FS_EmptySet
    <3> QED BY <2>2, <3>2 DEF RecordIsTrue, NewReputation
  <2> QED BY <1>3, <2>1, <2>2
<1>5. \A v \in Verifier : verifierRegistry'[v] # None => RecordIsTrue(v)'
  BY <1>4
<1>6. ReputationMatchesReceipts'
  BY <1>5 DEF ReputationMatchesReceipts, RecordIsTrue, Judged, Agreed
<1>7. NewReputation # None
  <2>1. NewReputation \in Reputations
    BY DEF NewReputation, Reputations, Scores
  <2> QED BY <2>1, NoneAssumption
<1>8. UnlistedUnseen'
  BY <1>2, <1>3, <1>7 DEF UnlistedUnseen
<1> QED BY <1>6, <1>8

\* The registry's records stay true to the receipts in every step.
LEMMA NextReputation ==
  SafetyInv /\ RegistryIndexed /\ ReputationMatchesReceipts /\ UnlistedUnseen /\ [VaultStep]_vars
    => (ReputationMatchesReceipts /\ UnlistedUnseen)'
<1> SUFFICES ASSUME SafetyInv, RegistryIndexed, ReputationMatchesReceipts, UnlistedUnseen,
                    [VaultStep]_vars
             PROVE  (ReputationMatchesReceipts /\ UnlistedUnseen)'
  OBVIOUS
<1>1. ASSUME UNCHANGED <<receipts, verifierRegistry>>
      PROVE  (ReputationMatchesReceipts /\ UnlistedUnseen)'
  <2>1. Settled' = Settled
    BY <1>1 DEF Settled
  <2> QED BY <1>1, <2>1 DEF ReputationMatchesReceipts, UnlistedUnseen, Judged
<1>2. ASSUME NEW s \in Signatures, Issue(s)
      PROVE  (ReputationMatchesReceipts /\ UnlistedUnseen)'
  BY <1>1, <1>2 DEF Issue, contractVars
<1>3. ASSUME NEW a \in Asset, NEW attached \in Attached, Fund(a, attached)
      PROVE  (ReputationMatchesReceipts /\ UnlistedUnseen)'
  BY <1>1, <1>3 DEF Fund
<1>4. ASSUME NEW caller \in Account, NEW a \in Asset, NEW c \in Cycle, NEW b \in Brief,
             RecordBrief(caller, a, c, b)
      PROVE  (ReputationMatchesReceipts /\ UnlistedUnseen)'
  BY <1>1, <1>4 DEF RecordBrief
<1>5. CASE UNCHANGED vars
  BY <1>1, <1>5 DEF vars, contractVars
<1>6. TypeInv
  BY DEF SafetyInv
<1>7. ASSUME NEW caller \in Account, NEW a \in Asset, NEW cfg \in Registration,
             RegisterAsset(caller, a, cfg)
      PROVE  (ReputationMatchesReceipts /\ UnlistedUnseen)'
  BY <1>6, <1>7, RegisterReputation
<1>8. ASSUME NEW a \in Asset, NEW c \in Cycle, NEW e \in EvidenceArrays, Distribute(a, c, e)
      PROVE  (ReputationMatchesReceipts /\ UnlistedUnseen)'
  BY <1>8, DistributeReputation
<1> QED BY <1>2, <1>3, <1>4, <1>5, <1>7, <1>8 DEF VaultStep

-----------------------------------------------------------------------------
(* Snapshots.                                                              *)

\* The key of the settlement that the n-th event reports.
EventKey(n) == Key(events[n].asset, events[n].cycle)

\* The log lists every settled cycle, and none twice: without it the number
\* of earlier events would say nothing of the number of earlier settlements.
LogIsExact ==
  /\ \A n \in DOMAIN events : EventKey(n) \in Settled
  /\ \A m, n \in DOMAIN events : EventKey(m) = EventKey(n) => m = n
  /\ \A k \in Settled : \E n \in DOMAIN events : EventKey(n) = k

\* Which of the events before the n-th saw v, and which of those it signed.
SeenBefore(v, n) == {m \in 1 .. n - 1 : receipts[EventKey(m)].snapshot[v] # None}
AgreedBefore(v, n) == {m \in SeenBefore(v, n) : v \in receipts[EventKey(m)].signers}

\* SnapshotIsTrackRecord for one event and one verifier.
SnapshotIsTrue(n, v) ==
  LET r == receipts[EventKey(n)]
  IN  r.snapshot[v] # None =>
        /\ r.snapshot[v].seen = Cardinality(SeenBefore(v, n))
        /\ r.snapshot[v].agreed = Cardinality(AgreedBefore(v, n))

\* SnapshotIsTrackRecord, event by event and verifier by verifier.
LEMMA SnapshotsAreTrue ==
  SnapshotIsTrackRecord <=> \A n \in DOMAIN events, v \in Verifier : SnapshotIsTrue(n, v)
BY DEF SnapshotIsTrackRecord, SnapshotIsTrue, SeenBefore, AgreedBefore, EventKey

\* Over the whole log, the events that saw v are the settled cycles that did.
LEMMA SeenIsJudged ==
  ASSUME SafetyInv, LogIsExact, NEW v
  PROVE  LET n == Len(events) + 1
         IN  /\ Cardinality(SeenBefore(v, n)) = Cardinality(Judged(v))
             /\ Cardinality(AgreedBefore(v, n)) = Cardinality(Agreed(v))
<1> DEFINE n == Len(events) + 1
           key == [m \in DOMAIN events |-> EventKey(m)]
           seen == SeenBefore(v, n)
           agreed == AgreedBefore(v, n)
<1>1. DOMAIN events = 1 .. (n - 1) /\ Len(events) \in Nat /\ n - 1 = Len(events)
  BY DEF SafetyInv, TypeInv, TypeOK
<1>2. /\ seen \in SUBSET (DOMAIN events) /\ agreed \in SUBSET seen
      /\ IsFiniteSet(seen) /\ IsFiniteSet(agreed)
  <2>1. seen \in SUBSET (DOMAIN events) /\ agreed \in SUBSET seen
    BY <1>1 DEF SeenBefore, AgreedBefore
  <2>2. IsFiniteSet(DOMAIN events)
    BY <1>1, FS_Interval
  <2> QED BY <2>1, <2>2, FS_Subset
<1>3. /\ \A m \in seen : EventKey(m) \in Judged(v)
      /\ \A x \in Judged(v) : \E m \in seen : EventKey(m) = x
  <2>1. \A m \in DOMAIN events : m \in seen <=> receipts[EventKey(m)].snapshot[v] # None
    BY <1>1 DEF SeenBefore
  <2>2. \A x : x \in Judged(v) <=> x \in Settled /\ receipts[x].snapshot[v] # None
    BY DEF Judged
  <2> HIDE DEF seen
  <2> QED BY <1>2, <2>1, <2>2 DEF LogIsExact
<1>4. /\ \A m \in agreed : EventKey(m) \in Agreed(v)
      /\ \A x \in Agreed(v) : \E m \in agreed : EventKey(m) = x
  <2>1. \A m : m \in agreed <=> m \in seen /\ v \in receipts[EventKey(m)].signers
    BY DEF AgreedBefore
  <2>2. \A x : x \in Agreed(v) <=> x \in Judged(v) /\ v \in receipts[x].signers
    BY DEF Agreed
  <2> HIDE DEF agreed, seen
  <2> QED BY <1>3, <2>1, <2>2
<1>5. ASSUME NEW S \in SUBSET (DOMAIN events), NEW T, IsFiniteSet(S),
             \A m \in S : EventKey(m) \in T,
             \A x \in T : \E m \in S : EventKey(m) = x
      PROVE  Cardinality(S) = Cardinality(T)
  <2> DEFINE f == [m \in S |-> EventKey(m)]
  <2>1. f \in Injection(S, T)
    <3>1. \A a, b \in S : f[a] = f[b] => a = b
      BY <1>5 DEF LogIsExact
    <3> QED BY <1>5, <3>1 DEF Injection, IsInjective
  <2>2. f \in Surjection(S, T)
    BY <1>5 DEF Surjection
  <2>3. ExistsBijection(S, T)
    <3> HIDE DEF f
    <3> QED BY <2>1, <2>2 DEF Bijection, ExistsBijection
  <2> QED BY <1>5, <2>3, FS_Bijection
<1> HIDE DEF seen, agreed
<1>6. Cardinality(seen) = Cardinality(Judged(v))
  BY <1>2, <1>3, <1>5
<1>7. Cardinality(agreed) = Cardinality(Agreed(v))
  <2>1. agreed \in SUBSET (DOMAIN events)
    BY <1>2
  <2> QED BY <1>2, <1>4, <1>5, <2>1
<1> QED BY <1>6, <1>7 DEF seen, agreed

\* A settlement writes the next event, with a key that no event had.
LEMMA DistributeLog ==
  ASSUME SafetyInv, LogIsExact, NEW a \in Asset, NEW c \in Cycle, NEW e \in EvidenceArrays,
         Distribute(a, c, e)
  PROVE  /\ LogIsExact'
         /\ DOMAIN events' = DOMAIN events \cup {Len(events) + 1}
         /\ \A n : n = Len(events) + 1 => EventKey(n)' = Key(a, c)
         /\ \A m \in DOMAIN events :
              EventKey(m)' = EventKey(m) /\ receipts'[EventKey(m)] = receipts[EventKey(m)]
<1> DEFINE k == Key(a, c)
           receipt == NewReceipt(a, c, e)
<1> PICK n : n = Len(events) + 1
  OBVIOUS
<1>1. /\ k \notin Settled /\ Settled' = Settled \cup {k}
      /\ \A x \in Settled : receipts'[x] = receipts[x]
  BY DistributeRecords
<1>2. events' = Append(events, EventOf(receipt)) /\ DOMAIN events = 1 .. Len(events)
      /\ Len(events) \in Nat /\ events \in Seq(Range(events))
  BY DEF Distribute, SafetyInv, TypeInv, TypeOK, Range
<1>3. EventOf(receipt).asset = a /\ EventOf(receipt).cycle = c
  BY DEF EventOf, NewReceipt
<1>4. /\ DOMAIN events' = DOMAIN events \cup {n} /\ n \notin DOMAIN events
      /\ events'[n] = EventOf(receipt)
      /\ \A m \in DOMAIN events : events'[m] = events[m]
  <2> HIDE DEF receipt
  <2>1. events' = Append(events, EventOf(receipt)) /\ events \in Seq(Range(events))
    BY <1>2
  <2> DEFINE x == EventOf(receipt)
             y == Append(events, x)
  <2>2. /\ DOMAIN y = 1 .. n
        /\ y[n] = x
        /\ \A m \in DOMAIN events : y[m] = events[m]
    <3> HIDE DEF x
    <3> QED BY <1>2
  <2>3. 1 .. n = 1 .. Len(events) \cup {n} /\ n \notin 1 .. Len(events)
    BY <1>2
  <2> HIDE DEF y
  <2> QED BY <1>2, <2>2, <2>3 DEF y
<1> HIDE DEF k, receipt
<1>5. EventKey(n)' = k
  BY <1>3, <1>4 DEF EventKey, k
<1>6. \A m \in DOMAIN events : EventKey(m)' = EventKey(m)
  BY <1>4 DEF EventKey
<1>7. LogIsExact'
  BY <1>1, <1>4, <1>5, <1>6 DEF LogIsExact
<1> QED BY <1>1, <1>4, <1>5, <1>6, <1>7 DEF k, LogIsExact

\* The new receipt's snapshot counts the events before its own, and the
\* snapshots of the earlier ones stay what they were.
LEMMA DistributeSnapshots ==
  ASSUME SafetyInv, RegistryIndexed, ReputationMatchesReceipts, LogIsExact,
         SnapshotIsTrackRecord, NEW a \in Asset, NEW c \in Cycle, NEW e \in EvidenceArrays,
         Distribute(a, c, e)
  PROVE  SnapshotIsTrackRecord'
<1> DEFINE k == Key(a, c)
           receipt == NewReceipt(a, c, e)
<1> PICK last : last = Len(events) + 1
  OBVIOUS
<1>1. /\ DOMAIN events' = DOMAIN events \cup {last}
      /\ EventKey(last)' = k
      /\ \A m \in DOMAIN events :
           EventKey(m)' = EventKey(m) /\ receipts'[EventKey(m)] = receipts[EventKey(m)]
  BY DistributeLog
<1>2. receipts'[k] = receipt
  BY DistributeRecords
<1>3. DOMAIN events = 1 .. Len(events) /\ Len(events) \in Nat
  BY DEF SafetyInv, TypeInv, TypeOK
<1>4. ASSUME NEW v \in Verifier, NEW n \in 1 .. last
      PROVE  SeenBefore(v, n)' = SeenBefore(v, n) /\ AgreedBefore(v, n)' = AgreedBefore(v, n)
  <2>1. \A m \in 1 .. n - 1 : m \in DOMAIN events
    BY <1>3
  <2>2. SeenBefore(v, n)' = SeenBefore(v, n)
    BY <1>1, <2>1 DEF SeenBefore
  <2>3. \A m \in SeenBefore(v, n) : m \in DOMAIN events
    BY <2>1 DEF SeenBefore
  <2> QED BY <1>1, <2>2, <2>3 DEF AgreedBefore
<1>5. ASSUME NEW n \in DOMAIN events, NEW v \in Verifier
      PROVE  SnapshotIsTrue(n, v)'
  <2>1. SnapshotIsTrue(n, v)
    BY SnapshotsAreTrue
  <2>2. n \in 1 .. last
    BY <1>3
  <2> QED BY <1>1, <1>4, <2>1, <2>2 DEF SnapshotIsTrue
<1>6. ASSUME NEW v \in Verifier
      PROVE  SnapshotIsTrue(last, v)'
  <2>1. receipt.snapshot[v] = IF v \in Range(assets[a].verifiers)
                              THEN ReputationOf(v).score ELSE None
    BY ReceiptSnapshot
  <2> HIDE DEF k, receipt
  <2>2. CASE v \in Range(assets[a].verifiers)
    <3>1. verifierRegistry[v] # None /\ receipt.snapshot[v] = verifierRegistry[v].score
      <4>1. TypeInv
        BY DEF SafetyInv
      <4>2. verifierRegistry[v] # None
        BY <2>2, <4>1, DistributeIndex
      <4> QED BY <2>1, <2>2, <4>2 DEF ReputationOf
    <3>2. RecordIsTrue(v)
      BY <3>1, RecordsAreTrue
    <3>3. /\ verifierRegistry[v].score.seen = Cardinality(SeenBefore(v, last))
          /\ verifierRegistry[v].score.agreed = Cardinality(AgreedBefore(v, last))
      BY <3>2, SeenIsJudged DEF RecordIsTrue
    <3>4. last \in 1 .. last
      BY <1>3
    <3> QED BY <1>1, <1>2, <1>4, <3>1, <3>3, <3>4 DEF SnapshotIsTrue
  <2>3. CASE v \notin Range(assets[a].verifiers)
    BY <1>1, <1>2, <2>1, <2>3 DEF SnapshotIsTrue
  <2> QED BY <2>2, <2>3
<1>7. ASSUME NEW n \in DOMAIN events', NEW v \in Verifier
      PROVE  SnapshotIsTrue(n, v)'
  BY <1>1, <1>5, <1>6
<1> QED BY <1>7 DEF SnapshotIsTrackRecord, SnapshotIsTrue, SeenBefore, AgreedBefore, EventKey

\* Every step keeps the log exact and the snapshots true.
LEMMA NextSnapshots ==
  SafetyInv /\ RegistryIndexed /\ ReputationMatchesReceipts /\ LogIsExact
    /\ SnapshotIsTrackRecord /\ [VaultStep]_vars => (LogIsExact /\ SnapshotIsTrackRecord)'
<1> SUFFICES ASSUME SafetyInv, RegistryIndexed, ReputationMatchesReceipts, LogIsExact,
                    SnapshotIsTrackRecord, [VaultStep]_vars
             PROVE  (LogIsExact /\ SnapshotIsTrackRecord)'
  OBVIOUS
<1>1. ASSUME UNCHANGED <<receipts, events>>
      PROVE  (LogIsExact /\ SnapshotIsTrackRecord)'
  <2>1. Settled' = Settled
    BY <1>1 DEF Settled
  <2>2. LogIsExact'
    BY <1>1, <2>1 DEF LogIsExact, EventKey
  <2>3. ASSUME NEW n \in DOMAIN events, NEW v \in Verifier
        PROVE  SnapshotIsTrue(n, v)'
    <3>1. \A m : EventKey(m)' = EventKey(m)
      BY <1>1 DEF EventKey
    <3>2. SeenBefore(v, n)' = SeenBefore(v, n) /\ AgreedBefore(v, n)' = AgreedBefore(v, n)
      BY <1>1, <3>1 DEF SeenBefore, AgreedBefore
    <3> QED BY <1>1, <3>1, <3>2, SnapshotsAreTrue DEF SnapshotIsTrue
  <2>4. ASSUME NEW n \in DOMAIN events', NEW v \in Verifier
        PROVE  SnapshotIsTrue(n, v)'
    BY <1>1, <2>3
  <2>5. SnapshotIsTrackRecord'
    BY <2>4 DEF SnapshotIsTrackRecord, SnapshotIsTrue, SeenBefore, AgreedBefore, EventKey
  <2> QED BY <2>2, <2>5
<1>2. ASSUME NEW s \in Signatures, Issue(s) PROVE (LogIsExact /\ SnapshotIsTrackRecord)'
  BY <1>1, <1>2 DEF Issue, contractVars
<1>3. ASSUME NEW a \in Asset, NEW attached \in Attached, Fund(a, attached)
      PROVE  (LogIsExact /\ SnapshotIsTrackRecord)'
  BY <1>1, <1>3 DEF Fund
<1>4. ASSUME NEW caller \in Account, NEW a \in Asset, NEW c \in Cycle, NEW b \in Brief,
             RecordBrief(caller, a, c, b)
      PROVE  (LogIsExact /\ SnapshotIsTrackRecord)'
  BY <1>1, <1>4 DEF RecordBrief
<1>5. ASSUME NEW caller \in Account, NEW a \in Asset, NEW cfg \in Registration,
             RegisterAsset(caller, a, cfg)
      PROVE  (LogIsExact /\ SnapshotIsTrackRecord)'
  BY <1>1, <1>5 DEF RegisterAsset
<1>6. CASE UNCHANGED vars
  BY <1>1, <1>6 DEF vars, contractVars
<1>7. ASSUME NEW a \in Asset, NEW c \in Cycle, NEW e \in EvidenceArrays, Distribute(a, c, e)
      PROVE  (LogIsExact /\ SnapshotIsTrackRecord)'
  BY <1>7, DistributeLog, DistributeSnapshots
<1> QED BY <1>2, <1>3, <1>4, <1>5, <1>6, <1>7 DEF VaultStep

-----------------------------------------------------------------------------
(* The ledger's inductive invariant and its theorems.                      *)

LedgerInv ==
  /\ SafetyInv
  /\ RegistryIndexed
  /\ ReputationMatchesReceipts
  /\ UnlistedUnseen
  /\ LogIsExact
  /\ SnapshotIsTrackRecord

\* A fresh deployment has an empty registry, no receipts and an empty log.
LEMMA InitLedgerInv == Init => LedgerInv
<1> SUFFICES ASSUME Init PROVE LedgerInv
  OBVIOUS
<1>1. SafetyInv /\ RegistryIndexed
  BY InitSafetyInv, InitRegistryIndexed
<1>2. Settled = {} /\ DOMAIN events = {} /\ \A v \in Verifier : verifierRegistry[v] = None
  BY DEF Init, Settled
<1>3. ReputationMatchesReceipts /\ UnlistedUnseen
  BY <1>2 DEF ReputationMatchesReceipts, UnlistedUnseen, Judged
<1>4. LogIsExact /\ SnapshotIsTrackRecord
  BY <1>2 DEF LogIsExact, SnapshotIsTrackRecord
<1> QED BY <1>1, <1>3, <1>4 DEF LedgerInv

\* LedgerInv is inductive.
LEMMA NextLedgerInv == LedgerInv /\ [VaultStep]_vars => LedgerInv'
<1> SUFFICES ASSUME LedgerInv, [VaultStep]_vars PROVE LedgerInv'
  OBVIOUS
<1>1. SafetyInv'
  BY NextSafetyInv DEF LedgerInv
<1>2. RegistryIndexed'
  BY NextRegistryIndexed DEF LedgerInv, SafetyInv
<1>3. (ReputationMatchesReceipts /\ UnlistedUnseen)'
  BY NextReputation DEF LedgerInv
<1>4. (LogIsExact /\ SnapshotIsTrackRecord)'
  BY NextSnapshots DEF LedgerInv
<1> QED BY <1>1, <1>2, <1>3, <1>4 DEF LedgerInv

\* It holds in every reachable state of the vault on its own.
LEMMA LedgerInvariant == Spec => []LedgerInv
BY InitLedgerInv, NextLedgerInv, NextIsVaultStep, PTL DEF Spec

\* The index that get_verifier_registry pages through never misses, repeats or
\* invents a verifier, however registrations repeat and overlap.
THEOREM RegistryIsIndexed == Spec => []RegistryIndexed
<1>1. LedgerInv => RegistryIndexed
  BY DEF LedgerInv
<1> QED BY <1>1, LedgerInvariant, PTL

\* The scores that distribute increments cycle by cycle always equal a recount
\* over the receipts.
THEOREM ReputationIsTrue == Spec => []ReputationMatchesReceipts
<1>1. LedgerInv => ReputationMatchesReceipts
  BY DEF LedgerInv
<1> QED BY <1>1, LedgerInvariant, PTL

\* A receipt shows each verifier's record as it stood before that cycle: the
\* snapshot is taken before the scores are raised, and never revised.
THEOREM SnapshotsAreTrackRecords == Spec => []SnapshotIsTrackRecord
<1>1. LedgerInv => SnapshotIsTrackRecord
  BY DEF LedgerInv
<1> QED BY <1>1, LedgerInvariant, PTL

-----------------------------------------------------------------------------
(* The money.                                                              *)

\* What the receipts say was paid, and which receipts are an asset's.
PaidTotals == [k \in Settled |-> receipts[k].total]
OfAsset(a) == {k \in Settled : receipts[k].asset = a}

\* The three parts of FundsConserved.
PurseCoversPools == purse = SumFunctionOnSet(pools, Asset)
FundsAccountedFor ==
  \A a \in Asset : funded[a] = pools[a] + SumFunctionOnSet(PaidTotals, OfAsset(a))
HoldersArePaid == SumFunctionOnSet(balance, Holder) = SumFunctionOnSet(PaidTotals, Settled)

\* FundsConserved is the three of them.
LEMMA FundsInParts ==
  ASSUME TypeOK
  PROVE  FundsConserved <=> PurseCoversPools /\ FundsAccountedFor /\ HoldersArePaid
<1>1. DOMAIN pools = Asset /\ DOMAIN balance = Holder
  BY DEF TypeOK
<1> QED BY <1>1 DEF FundsConserved, PurseCoversPools, FundsAccountedFor, HoldersArePaid,
                    PaidTotals, OfAsset, SumFunction

\* Once every loop of distribute has run, the holders of the asset have
\* together received what the pay loop has added up.
LEMMA HoldersShareWhatIsPaid ==
  ASSUME NEW cfg \in Configs, NEW pool \in Nat, TotalWeight(cfg) > 0, IsFiniteSet(Holder)
  PROVE  SumFunctionOnSet([h \in Holder |-> PaidTo(cfg, pool, h)], Holder) = Paid(cfg, pool)
<1> DEFINE t == Shares(cfg, pool)
           to == [i \in DOMAIN cfg.holders |-> cfg.holders[i].to]
           part(h) == [i \in DOMAIN t |-> IF to[i] = h THEN t[i] ELSE 0]
<1>1. t \in Seq(Nat) /\ DOMAIN t = DOMAIN cfg.holders
  BY PaidBounds
<1>2. \A i \in DOMAIN t : to[i] \in Holder
  <2>1. cfg.holders \in Seq([to : Holder, weight : Weights])
    BY DEF Configs
  <2>2. ASSUME NEW i \in DOMAIN cfg.holders
        PROVE  cfg.holders[i].to \in Holder
    <3> DEFINE hs == cfg.holders
               entry == [to : Holder, weight : Weights]
    <3>1. hs \in Seq(entry) /\ i \in 1 .. Len(hs)
      BY <2>1
    <3> HIDE DEF hs, entry
    <3>2. hs[i] \in entry
      BY <3>1
    <3> QED BY <3>2 DEF hs, entry
  <2> HIDE DEF t
  <2> QED BY <1>1, <2>2
<1>3. \A h \in Holder : PaidTo(cfg, pool, h) = Total(part(h))
  <2> SUFFICES ASSUME NEW h \in Holder PROVE PaidTo(cfg, pool, h) = Total(part(h))
    OBVIOUS
  <2>1. [i \in DOMAIN cfg.holders |-> IF cfg.holders[i].to = h THEN t[i] ELSE 0] = part(h)
    <3> HIDE DEF t
    <3> QED BY <1>1
  <2> QED BY <2>1 DEF PaidTo
<1> HIDE DEF t, to
<1>4. SumFunctionOnSet([h \in Holder |-> Total(part(h))], Holder) = Total(t)
  BY <1>1, <1>2, SumOfParts
<1>5. [h \in Holder |-> PaidTo(cfg, pool, h)] = [h \in Holder |-> Total(part(h))]
  BY <1>3
<1> QED BY <1>4, <1>5 DEF t, Paid

\* fund adds to the purse, to the pool and to the history the same value.
LEMMA FundKeepsFunds ==
  ASSUME NEW a \in Asset, NEW attached \in Attached,
         SafetyInv, FundsConserved, IsFiniteSet(Asset), Fund(a, attached)
  PROVE  FundsConserved'
<1> PICK before, after : before = pools /\ after = pools'
  OBVIOUS
<1>1. attached \in Nat
  BY InputAssumption
<1>2. TypeOK /\ TypeOK'
  <2>1. TypeInv
    BY DEF SafetyInv
  <2>2. pools' \in [Asset -> Nat] /\ purse' \in Nat /\ funded' \in [Asset -> Nat]
    BY <1>1, <2>1 DEF Fund, TypeInv, TypeOK
  <2> QED BY <2>1, <2>2 DEF Fund, TypeInv, TypeOK
<1>3. PurseCoversPools /\ FundsAccountedFor /\ HoldersArePaid
  BY <1>2, FundsInParts
<1>4. PurseCoversPools'
  <2>1. /\ \A x \in Asset : before[x] \in Int
        /\ \A x \in Asset : after[x] = IF x = a THEN before[x] + attached ELSE before[x]
    BY <1>2 DEF Fund, TypeOK
  <2>2. SumFunctionOnSet(after, Asset) = SumFunctionOnSet(before, Asset) + attached
    BY <1>1, <2>1, SumUpdate
  <2>3. purse' = purse + attached
    BY DEF Fund
  <2> QED BY <1>3, <2>2, <2>3 DEF PurseCoversPools
<1>5. PaidTotals' = PaidTotals /\ Settled' = Settled /\ \A x : OfAsset(x)' = OfAsset(x)
  BY DEF Fund, PaidTotals, OfAsset, Settled
<1>6. FundsAccountedFor'
  <2> SUFFICES ASSUME NEW x \in Asset
               PROVE  funded'[x] = pools'[x] + SumFunctionOnSet(PaidTotals, OfAsset(x))
    BY <1>5 DEF FundsAccountedFor
  <2> DEFINE paid == SumFunctionOnSet(PaidTotals, OfAsset(x))
  <2>1. funded[x] = pools[x] + paid
    BY <1>3 DEF FundsAccountedFor
  <2>2. paid \in Int
    <3>1. IsFiniteSet(Settled) /\ OfAsset(x) \in SUBSET Settled
      BY DEF SafetyInv, RecordsAgree, OfAsset
    <3>2. \A k \in Settled : PaidTotals[k] \in Int
      BY <1>2 DEF PaidTotals, Settled, TypeOK, Receipts
    <3> QED BY <3>1, <3>2, SumType
  <2>3. /\ pools[x] \in Nat /\ funded[x] \in Nat
        /\ pools'[x] = IF x = a THEN pools[x] + attached ELSE pools[x]
        /\ funded'[x] = IF x = a THEN funded[x] + attached ELSE funded[x]
    BY <1>2 DEF Fund, TypeOK
  <2> HIDE DEF paid
  <2> QED BY <1>1, <2>1, <2>2, <2>3 DEF paid
<1>7. HoldersArePaid'
  BY <1>3, <1>5 DEF Fund, HoldersArePaid
<1>8. FundsConserved' <=> (PurseCoversPools /\ FundsAccountedFor /\ HoldersArePaid)'
  <2>1. DOMAIN pools' = Asset /\ DOMAIN balance' = Holder
    BY <1>2 DEF TypeOK
  <2> QED BY <2>1 DEF FundsConserved, PurseCoversPools, FundsAccountedFor, HoldersArePaid,
                      PaidTotals, OfAsset, SumFunction
<1> QED BY <1>4, <1>6, <1>7, <1>8

\* A settlement takes from the purse and from the asset's pool what it pays
\* the holders and writes into the receipt.
LEMMA DistributeKeepsFunds ==
  ASSUME NEW a \in Asset, NEW c \in Cycle, NEW e \in EvidenceArrays,
         SafetyInv, FundsConserved, IsFiniteSet(Asset), IsFiniteSet(Holder),
         Distribute(a, c, e)
  PROVE  FundsConserved'
<1> DEFINE cfg == assets[a]
           pool == pools[a]
           paid == Paid(cfg, pool)
           k == Key(a, c)
           receipt == NewReceipt(a, c, e)
           given == [h \in Holder |-> PaidTo(cfg, pool, h)]
<1> PICK before, after : before = pools /\ after = pools'
  OBVIOUS
<1> PICK owned, owning : owned = balance /\ owning = balance'
  OBVIOUS
<1> PICK totals, newTotals : totals = PaidTotals /\ newTotals = PaidTotals'
  OBVIOUS
<1>1. TypeOK /\ RulesValid /\ TypeOK'
  <2>1. TypeInv /\ TypeInv'
    BY DistributeTypeInv DEF SafetyInv
  <2> QED BY <2>1 DEF TypeInv
<1>2. /\ cfg \in Configs /\ TotalWeight(cfg) > 0 /\ pool \in Nat /\ paid \in Nat
      /\ paid <= pool
  BY <1>1, DistributeFacts
<1>3. /\ k \notin Settled /\ Settled' = Settled \cup {k}
      /\ \A x \in Settled : receipts'[x] = receipts[x]
      /\ receipts'[k] = receipt
  BY DistributeRecords
<1>4. receipt.total = paid /\ receipt.asset = a
  BY DEF NewReceipt
<1>5. PurseCoversPools /\ FundsAccountedFor /\ HoldersArePaid
  BY <1>1, FundsInParts
<1>6. IsFiniteSet(Settled)
  BY DEF SafetyInv, RecordsAgree
<1>7. /\ \A x \in Settled : totals[x] \in Int /\ newTotals[x] = totals[x]
      /\ newTotals[k] = paid
  <2>1. \A x \in Settled : receipts[x].total \in Int
    BY <1>1 DEF Settled, TypeOK, Receipts
  <2>2. PaidTotals' = [x \in Settled' |-> receipts'[x].total]
    BY DEF PaidTotals
  <2> HIDE DEF k, receipt, paid
  <2> QED BY <1>3, <1>4, <2>1, <2>2 DEF PaidTotals
<1>8. ASSUME NEW S \in SUBSET Settled
      PROVE  /\ SumFunctionOnSet(newTotals, S) = SumFunctionOnSet(totals, S)
             /\ SumFunctionOnSet(newTotals, S \cup {k}) = paid + SumFunctionOnSet(totals, S)
             /\ SumFunctionOnSet(totals, S) \in Int
  <2>1. IsFiniteSet(S) /\ k \notin S /\ \A x \in S : newTotals[x] = totals[x]
    BY <1>3, <1>6, <1>7, FS_Subset
  <2>2. SumFunctionOnSet(newTotals, S) = SumFunctionOnSet(totals, S)
    BY <2>1, SumSame
  <2>3. \A x \in S \cup {k} : newTotals[x] \in Int
    <3> HIDE DEF k, paid
    <3> QED BY <1>2, <1>7
  <2>4. SumFunctionOnSet(newTotals, S \cup {k}) = newTotals[k] + SumFunctionOnSet(newTotals, S)
    <3> HIDE DEF k
    <3> QED BY <2>1, <2>3, SumInsert
  <2>5. SumFunctionOnSet(totals, S) \in Int
    BY <1>6, <1>7, SumType
  <2> QED BY <1>7, <2>2, <2>4, <2>5
<1>9. PurseCoversPools'
  <2>1. /\ \A x \in Asset : before[x] \in Int
        /\ \A x \in Asset : after[x] = IF x = a THEN before[x] - paid ELSE before[x]
    <3> HIDE DEF paid
    <3> QED BY <1>1 DEF Distribute, TypeOK, paid, cfg, pool
  <2>2. SumFunctionOnSet(after, Asset) = SumFunctionOnSet(before, Asset) + (0 - paid)
    <3>1. 0 - paid \in Int /\ \A x \in Asset : before[x] - paid = before[x] + (0 - paid)
      BY <1>2, <2>1
    <3> HIDE DEF paid
    <3> QED BY <2>1, <3>1, SumUpdate
  <2>3. purse' = purse - paid /\ purse \in Nat
    BY <1>1 DEF Distribute, TypeOK
  <2> HIDE DEF paid
  <2> QED BY <1>2, <1>5, <2>2, <2>3 DEF PurseCoversPools
<1>10. FundsAccountedFor'
  <2> SUFFICES ASSUME NEW x \in Asset
               PROVE  funded'[x] = pools'[x] + SumFunctionOnSet(newTotals, OfAsset(x)')
    BY DEF FundsAccountedFor
  <2> PICK own, newOwn : own = OfAsset(x) /\ newOwn = OfAsset(x)'
    OBVIOUS
  <2>1. own \in SUBSET Settled /\ newOwn = IF x = a THEN own \cup {k} ELSE own
    <3> HIDE DEF k, receipt
    <3> QED BY <1>3, <1>4 DEF OfAsset
  <2>2. funded'[x] = funded[x] /\ funded[x] = pools[x] + SumFunctionOnSet(totals, own)
    BY <1>5 DEF FundsAccountedFor, Distribute
  <2>3. pools'[x] = (IF x = a THEN pools[x] - paid ELSE pools[x]) /\ pools[x] \in Nat
    <3> HIDE DEF paid
    <3> QED BY <1>1 DEF Distribute, TypeOK, paid, cfg, pool
  <2>4. SumFunctionOnSet(newTotals, newOwn)
          = SumFunctionOnSet(totals, own) + IF x = a THEN paid ELSE 0
    <3> HIDE DEF k, paid
    <3> QED BY <1>2, <1>8, <2>1
  <2>5. SumFunctionOnSet(totals, own) \in Int
    BY <1>8, <2>1
  <2> HIDE DEF k, paid
  <2> QED BY <1>2, <2>2, <2>3, <2>4, <2>5
<1>11. HoldersArePaid'
  <2>1. /\ \A h \in Holder : owned[h] \in Int /\ given[h] \in Int
        /\ \A h \in Holder : owning[h] = owned[h] + given[h]
    <3>1. \A h \in Holder : PaidTo(cfg, pool, h) \in Nat
      BY <1>2, PaidToType
    <3>2. \A h \in Holder : balance'[h] = balance[h] + PaidTo(cfg, pool, h)
      BY DEF Distribute
    <3>3. \A h \in Holder : balance[h] \in Nat
      BY <1>1 DEF TypeOK
    <3> HIDE DEF cfg, pool
    <3> QED BY <3>1, <3>2, <3>3
  <2>2. SumFunctionOnSet(owning, Holder)
          = SumFunctionOnSet(owned, Holder) + SumFunctionOnSet(given, Holder)
    <3> HIDE DEF given
    <3> QED BY <2>1, SumPlus
  <2>3. SumFunctionOnSet(given, Holder) = paid
    BY <1>2, HoldersShareWhatIsPaid
  <2>4. /\ SumFunctionOnSet(newTotals, Settled \cup {k}) = paid + SumFunctionOnSet(totals, Settled)
        /\ SumFunctionOnSet(totals, Settled) \in Int
    BY <1>8
  <2> HIDE DEF k, paid, given
  <2> QED BY <1>2, <1>3, <1>5, <2>2, <2>3, <2>4 DEF HoldersArePaid
<1>12. FundsConserved' <=> (PurseCoversPools /\ FundsAccountedFor /\ HoldersArePaid)'
  <2>1. DOMAIN pools' = Asset /\ DOMAIN balance' = Holder
    BY <1>1 DEF TypeOK
  <2> QED BY <2>1 DEF FundsConserved, PurseCoversPools, FundsAccountedFor, HoldersArePaid,
                      PaidTotals, OfAsset, SumFunction
<1> QED BY <1>9, <1>10, <1>11, <1>12

\* A fresh deployment holds nothing, has paid nothing and owes nothing.
LEMMA InitFunds ==
  ASSUME IsFiniteSet(Asset), IsFiniteSet(Holder), Init
  PROVE  FundsConserved
<1>1. TypeOK
  BY InitTypeInv DEF TypeInv
<1>2. Settled = {} /\ \A a \in Asset : OfAsset(a) = {}
  BY DEF Init, Settled, OfAsset
<1>3. /\ purse = 0
      /\ \A a \in Asset : pools[a] = 0 /\ funded[a] = 0
      /\ \A h \in Holder : balance[h] = 0
  BY DEF Init
<1>4. SumFunctionOnSet(PaidTotals, {}) = 0
  BY SumZero, FS_EmptySet
<1>5. SumFunctionOnSet(pools, Asset) = 0
  BY <1>3, SumZero
<1>6. SumFunctionOnSet(balance, Holder) = 0
  BY <1>3, SumZero
<1>7. PurseCoversPools /\ FundsAccountedFor /\ HoldersArePaid
  BY <1>2, <1>3, <1>4, <1>5, <1>6 DEF PurseCoversPools, FundsAccountedFor, HoldersArePaid
<1> QED BY <1>1, <1>7, FundsInParts

\* No step creates or loses value.
LEMMA NextFunds ==
  ASSUME SafetyInv, FundsConserved, IsFiniteSet(Asset), IsFiniteSet(Holder), [VaultStep]_vars
  PROVE  FundsConserved'
<1>1. ASSUME UNCHANGED <<pools, purse, funded, balance, receipts>>
      PROVE  FundsConserved'
  BY <1>1 DEF FundsConserved, Settled
<1>2. ASSUME NEW s \in Signatures, Issue(s) PROVE FundsConserved'
  BY <1>1, <1>2 DEF Issue, contractVars
<1>3. ASSUME NEW caller \in Account, NEW a \in Asset, NEW cfg \in Registration,
             RegisterAsset(caller, a, cfg)
      PROVE  FundsConserved'
  BY <1>1, <1>3 DEF RegisterAsset
<1>4. ASSUME NEW a \in Asset, NEW attached \in Attached, Fund(a, attached)
      PROVE  FundsConserved'
  BY <1>4, FundKeepsFunds
<1>5. ASSUME NEW a \in Asset, NEW c \in Cycle, NEW e \in EvidenceArrays, Distribute(a, c, e)
      PROVE  FundsConserved'
  BY <1>5, DistributeKeepsFunds
<1>6. ASSUME NEW caller \in Account, NEW a \in Asset, NEW c \in Cycle, NEW b \in Brief,
             RecordBrief(caller, a, c, b)
      PROVE  FundsConserved'
  BY <1>1, <1>6 DEF RecordBrief
<1>7. CASE UNCHANGED vars
  BY <1>1, <1>7 DEF vars, contractVars
<1> QED BY <1>2, <1>3, <1>4, <1>5, <1>6, <1>7 DEF VaultStep

\* The purse always holds exactly the pools, every asset's deposits are in its
\* own pool or in its own receipts, and the holders have exactly what the
\* receipts say was paid.  The sums are over all asset ids and all accounts,
\* which must be finitely many for the sums to mean anything.
THEOREM FundsAlwaysConserved ==
  ASSUME IsFiniteSet(Asset), IsFiniteSet(Holder)
  PROVE  Spec => []FundsConserved
<1>1. Init => FundsConserved
  BY InitFunds
<1>2. SafetyInv /\ FundsConserved /\ [VaultStep]_vars => FundsConserved'
  BY NextFunds
<1> QED BY <1>1, <1>2, SafetyInvariant, NextIsVaultStep, PTL DEF Spec
=============================================================================
