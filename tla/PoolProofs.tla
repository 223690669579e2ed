----------------------------- MODULE PoolProofs -----------------------------
(***************************************************************************)
(* The operations on the memory pool (MemPool), for every set of           *)
(* transactions: loops, sums over sets of transactions, what is above and  *)
(* below an entry, and what UpdateTransactionsFromBlock, a change of       *)
(* priority, removing and adding keep of the links, of the inputs and of   *)
(* the totals.  MemPoolProofs goes on from here.  A lemma whose proof has  *)
(* named steps uses those steps nowhere else.                              *)
(***************************************************************************)
EXTENDS MemPool, FiniteSetTheorems, TLAPS

USE Zenon

-----------------------------------------------------------------------------
(* Loops and sets.                                                         *)

\* Every set of naturals that is not empty has a least element.
LEMMA LeastNumber ==
    ASSUME NEW S \in SUBSET Nat, S # {}
    PROVE  \E n \in S : \A m \in S : n <= m
  <1>1. IsWellFoundedOn(OpToRel(<, Nat), Nat)
    BY NatLessThanWellFounded
  <1>2. PICK n \in S : \A m \in S : ~ (<<m, n>> \in OpToRel(<, Nat))
    BY <1>1, WFMin
  <1>3. \A m \in S : m < n => <<m, n>> \in OpToRel(<, Nat)
    <2> SUFFICES ASSUME NEW m \in S, m < n
                 PROVE  <<m, n>> \in {ss \in Nat \X Nat : ss[1] < ss[2]}
      BY DEF OpToRel
    <2> QED  OBVIOUS
  <1>4. \A m \in S : ~(m < n)
    BY <1>2, <1>3
  <1> QED  BY <1>4, SMT

\* Induction: a set of naturals that holds 0 and every successor up to N.
LEMMA UpTo ==
    ASSUME NEW N \in Nat, NEW S, 0 \in S, \A n \in 0 .. N - 1 : n \in S => n + 1 \in S
    PROVE  0 .. N \subseteq S
  <1> DEFINE T == (0 .. N) \ S
  <1>1. SUFFICES ASSUME T # {} PROVE FALSE
    OBVIOUS
  <1>2. T \in SUBSET Nat
    BY SMT
  <1>3. PICK n \in T : \A m \in T : n <= m
    BY <1>1, <1>2, LeastNumber
  <1>4. n # 0 /\ n \in 0 .. N /\ n \notin S
    BY <1>3
  <1>5. n - 1 \in 0 .. N - 1 /\ n - 1 + 1 = n /\ ~(n <= n - 1) /\ n - 1 \in 0 .. N
    BY <1>4, SMT
  <1>6. n - 1 \notin T
    BY <1>3, <1>5
  <1> QED  BY <1>4, <1>5, <1>6

\* The recursive function of Rounds exists: its value after each round is F of
\* the value before it.
LEMMA RoundsExist ==
    ASSUME NEW F, NEW x, NEW s, Len(s) \in Nat
    PROVE  /\ Rounds(F, x, s)[0] = x
           /\ \A n \in 1 .. Len(s) : Rounds(F, x, s)[n] = F[s[n]][Rounds(F, x, s)[n - 1]]
  <1> DEFINE Good == {k \in Nat : \E f : f = [n \in 0 .. k |-> IF n = 0 THEN x ELSE F[s[n]][f[n - 1]]]}
  <1>1. 0 \in Good
    <2> DEFINE f == [n \in 0 .. 0 |-> x]
    <2>1. f = [n \in 0 .. 0 |-> IF n = 0 THEN x ELSE F[s[n]][f[n - 1]]]
      BY SMT
    <2> HIDE DEF f
    <2> QED  BY <2>1
  <1>2. ASSUME NEW k \in 0 .. Len(s) - 1, k \in Good
        PROVE  k + 1 \in Good
    <2>1. PICK f : f = [n \in 0 .. k |-> IF n = 0 THEN x ELSE F[s[n]][f[n - 1]]]
      BY <1>2
    <2> DEFINE h == [n \in 0 .. k + 1 |-> IF n \in 0 .. k THEN f[n] ELSE F[s[k + 1]][f[k]]]
    <2>2. \A n \in 0 .. k : h[n] = f[n] /\ f[n] = IF n = 0 THEN x ELSE F[s[n]][f[n - 1]]
      <3> TAKE n \in 0 .. k
      <3>1. f[n] = IF n = 0 THEN x ELSE F[s[n]][f[n - 1]]
        BY <2>1
      <3>2. h[n] = f[n]
        BY SMT
      <3> QED  BY <3>1, <3>2
    <2>a. k \in 0 .. k /\ k + 1 \in 0 .. k + 1 /\ k + 1 \notin 0 .. k /\ k + 1 # 0 /\ (k + 1) - 1 = k
      BY SMT
    <2>b. h[k + 1] = F[s[k + 1]][f[k]]
      BY <2>a
    <2>3. \A n \in 0 .. k + 1 : h[n] = IF n = 0 THEN x ELSE F[s[n]][h[n - 1]]
      <3> HIDE DEF h
      <3> TAKE n \in 0 .. k + 1
      <3>1. CASE n \in 0 .. k
        <4>1. n # 0 => n - 1 \in 0 .. k
          BY <3>1, SMT
        <4> QED  BY <2>2, <3>1, <4>1
      <3>2. CASE n = k + 1
        BY <2>2, <2>a, <2>b, <3>2
      <3>3. n \in 0 .. k \/ n = k + 1
        BY SMT
      <3> QED  BY <3>1, <3>2, <3>3
    <2>4. h = [n \in 0 .. k + 1 |-> IF n = 0 THEN x ELSE F[s[n]][h[n - 1]]]
      BY <2>3
    <2>5. k + 1 \in Nat
      BY SMT
    <2> HIDE DEF h
    <2> QED  BY <2>4, <2>5
  <1>3. Len(s) \in Good
    <2> HIDE DEF Good
    <2>1. 0 .. Len(s) \subseteq Good
      BY <1>1, <1>2, UpTo
    <2> QED  BY <2>1, SMT
  <1>4. Rounds(F, x, s) = [n \in 0 .. Len(s) |-> IF n = 0 THEN x ELSE F[s[n]][Rounds(F, x, s)[n - 1]]]
    BY <1>3 DEF Rounds
  <1>5. 0 \in 0 .. Len(s)
    BY SMT
  <1>6. \A n \in 1 .. Len(s) : n \in 0 .. Len(s) /\ n # 0
    BY SMT
  <1> QED  BY <1>4, <1>5, <1>6

\* What is true before the first round, and kept by every round, is true at
\* the end: I[n] is the set of values there may be after n rounds.
LEMMA RunInduction ==
    ASSUME NEW F, NEW x, NEW s, Len(s) \in Nat, NEW I, x \in I[0],
           \A n \in 1 .. Len(s) : \A y \in I[n - 1] : F[s[n]][y] \in I[n]
    PROVE  /\ \A n \in 0 .. Len(s) : Rounds(F, x, s)[n] \in I[n]
           /\ Run(F, x, s) \in I[Len(s)]
  <1> DEFINE r == Rounds(F, x, s)
             G == {n \in 0 .. Len(s) : r[n] \in I[n]}
  <1>1. r[0] = x /\ \A n \in 1 .. Len(s) : r[n] = F[s[n]][r[n - 1]]
    BY RoundsExist, SMT
  <1> HIDE DEF r
  <1>2. 0 \in G
    <2>1. 0 \in 0 .. Len(s)
      BY SMT
    <2>2. r[0] = x
      BY <1>1, <2>1
    <2> QED  BY <2>1, <2>2
  <1>3. ASSUME NEW n \in 0 .. Len(s) - 1, n \in G
        PROVE  n + 1 \in G
    <2>1. n + 1 \in 1 .. Len(s) /\ n + 1 \in 0 .. Len(s)
      BY SMT
    <2>2. r[n + 1] = F[s[n + 1]][r[n]]
      BY <1>1, <2>1, SMT
    <2>3. F[s[n + 1]][r[n]] \in I[n + 1]
      BY <1>3, <2>1, SMT
    <2> QED  BY <2>1, <2>2, <2>3
  <1>4. 0 .. Len(s) \subseteq G
    <2> HIDE DEF G
    <2> QED  BY <1>2, <1>3, UpTo
  <1>5. Len(s) \in 0 .. Len(s)
    BY SMT
  <1> QED  BY <1>4, <1>5 DEF Run, r

\* Listing(S) lists a finite set S.
LEMMA ListingLists ==
    ASSUME NEW S, IsFiniteSet(S)
    PROVE  /\ Listing(S) \in [1 .. Cardinality(S) -> S]
           /\ Cardinality(S) \in Nat
           /\ Len(Listing(S)) = Cardinality(S)
           /\ Range(Listing(S)) = S
  <1>1. Cardinality(S) \in Nat /\ ExistsBijection(1 .. Cardinality(S), S)
    BY FS_CardinalityType
  <1>2. PICK q \in [1 .. Cardinality(S) -> S] : \A t \in S : \E i \in 1 .. Cardinality(S) : q[i] = t
    BY <1>1 DEF ExistsBijection, Bijection, Surjection
  <1>3. Range(q) = S
    BY <1>2 DEF Range
  <1>4. Listing(S) \in Listings(S)
    BY <1>2, <1>3 DEF Listing, Listings
  <1>5. Listing(S) \in [1 .. Cardinality(S) -> S] /\ Range(Listing(S)) = S
    BY <1>4 DEF Listings
  <1>6. Len(Listing(S)) = Cardinality(S)
    BY <1>1, <1>5, SMT
  <1> QED  BY <1>1, <1>5, <1>6

\* Sets of transactions are finite.
LEMMA SubsetsFinite ==
    ASSUME NEW S \in SUBSET Tx
    PROVE  IsFiniteSet(S) /\ Cardinality(S) \in Nat /\ Cardinality(S) <= Cardinality(Tx)
  BY FS_Subset, FS_CardinalityType, TxAssumption

\* Sums over sets of transactions are integers.
LEMMA SumType ==
    ASSUME NEW f \in [Tx -> Int], NEW S \in SUBSET Tx
    PROVE  SumOver(f, S) \in Int
  <1> DEFINE q == Listing(S)
             F == [t \in Tx |-> [x \in Int |-> x + f[t]]]
             I == [n \in 0 .. Len(q) |-> Int]
  <1>1. q \in [1 .. Len(q) -> S] /\ Len(q) \in Nat
    BY ListingLists, SubsetsFinite
  <1> HIDE DEF q
  <1>2. 0 \in I[0]
    BY <1>1, SMT
  <1>3. ASSUME NEW n \in 1 .. Len(q), NEW y \in I[n - 1]
        PROVE  F[q[n]][y] \in I[n]
    <2>1. n - 1 \in 0 .. Len(q) /\ n \in 0 .. Len(q)
      BY <1>1, SMT
    <2>2. q[n] \in Tx /\ y \in Int
      BY <1>1, <2>1
    <2>3. F[q[n]][y] = y + f[q[n]]
      BY <2>2
    <2>4. y + f[q[n]] \in Int
      BY <2>2, SMT
    <2>5. I[n] = Int
      BY <2>1
    <2> HIDE DEF F, I
    <2> QED  BY <2>3, <2>4, <2>5
  <1>4. Run(F, 0, q) \in I[Len(q)]
    <2> HIDE DEF F, I
    <2> QED  BY <1>1, <1>2, <1>3, RunInduction
  <1>5. Len(q) \in 0 .. Len(q)
    BY <1>1, SMT
  <1> QED  BY <1>4, <1>5 DEF SumOver, q

Adding(f) == [t \in Tx |-> [x \in Int |-> x + f[t]]]
Total(f, q) == Run(Adding(f), 0, q)

\* r has the partial sums of f over q[1], ..., q[N].
Sums(f, q, N, r) ==
    /\ r[0] = 0 /\ Total(f, q) = r[N] /\ \A n \in 0 .. N : r[n] \in Int
    /\ \A n \in 1 .. N : r[n] = r[n - 1] + f[q[n]]

\* w without its element j.
Without(w, N, j) == [i \in 1 .. N |-> IF i < j THEN w[i] ELSE w[i + 1]]

Dropped(f, w, N, j) ==
    /\ Without(w, N, j) \in [1 .. N -> Tx]
    /\ Total(f, w) = Total(f, Without(w, N, j)) + f[w[j]]
    /\ \A i \in 1 .. N + 1 : i # j => \E k \in 1 .. N : Without(w, N, j)[k] = w[i]

\* q lists k transactions, each once.
Once(q, k) == q \in [1 .. k -> Tx] /\ \A i \in 1 .. k : \A j \in 1 .. k : q[i] = q[j] => i = j

\* Everything that q lists is listed by w.
Listed(q, w, k) == \A i \in 1 .. k : \E j \in 1 .. k : w[j] = q[i]

\* Induction over sets of transactions.
LEMMA SetInduction ==
    ASSUME NEW G, {} \in G, \A S \in SUBSET Tx : \A t \in Tx \ S : S \in G => S \cup {t} \in G
    PROVE  \A S \in SUBSET Tx : S \in G
  <1> DEFINE H == {n \in Nat : \A S \in SUBSET Tx : Cardinality(S) = n => S \in G}
  <1>1. 0 \in H
    BY SubsetsFinite, FS_EmptySet, SMT
  <1>2. ASSUME NEW N \in Nat, NEW n \in 0 .. N - 1, n \in H
        PROVE  n + 1 \in H
    <2>1. n \in Nat /\ n + 1 \in Nat /\ n + 1 # 0 /\ n + 1 - 1 = n
      BY SMT
    <2>2. ASSUME NEW S \in SUBSET Tx, Cardinality(S) = n + 1
          PROVE  S \in G
      <3>1. IsFiniteSet(S)
        BY SubsetsFinite
      <3>2. S # {}
        BY <2>1, <2>2, FS_EmptySet
      <3>3. PICK t \in S : TRUE
        BY <3>2
      <3> DEFINE R == S \ {t}
      <3>4. R \in SUBSET Tx /\ t \in Tx \ R /\ S = R \cup {t}
        BY <3>3
      <3>5. Cardinality(R) = n
        <4>1. Cardinality(R) = Cardinality(S) - 1
          BY <3>1, <3>3, FS_RemoveElement
        <4> QED  BY <2>1, <2>2, <4>1, SMT
      <3> HIDE DEF R
      <3>6. R \in G
        BY <1>2, <3>4, <3>5
      <3> QED  BY <3>4, <3>6
    <2> QED  BY <2>1, <2>2
  <1> SUFFICES ASSUME NEW S \in SUBSET Tx
               PROVE  S \in G
    OBVIOUS
  <1> DEFINE N == Cardinality(S)
  <1>3. N \in Nat
    BY SubsetsFinite
  <1>4. 0 .. N \subseteq H
    <2> HIDE DEF H, N
    <2> QED  BY <1>1, <1>2, <1>3, UpTo
  <1>5. N \in 0 .. N
    BY <1>3, SMT
  <1> QED  BY <1>4, <1>5

\* SumOver, one transaction at a time.
LEMMA SumAdd ==
    \A f \in [Tx -> Int] :
        /\ SumOver(f, {}) = 0
        /\ \A S \in SUBSET Tx : \A t \in Tx \ S : SumOver(f, S \cup {t}) = SumOver(f, S) + f[t]
  \* There are such sums.
  <1>PartialSums.
      ASSUME NEW f \in [Tx -> Int], NEW N \in Nat, NEW q \in [1 .. N -> Tx]
      PROVE  \E r : Sums(f, q, N, r)
    <2> DEFINE F == Adding(f)
               r == Rounds(F, 0, q)
               I == [n \in 0 .. N |-> Int]
    <2>1. Len(q) = N
      BY SMT
    <2>2. \A t \in Tx : \A x \in Int : F[t][x] = x + f[t] /\ F[t][x] \in Int
      <3> TAKE t \in Tx
      <3> TAKE x \in Int
      <3>1. F[t][x] = x + f[t] /\ f[t] \in Int
        BY DEF Adding
      <3> HIDE DEF F
      <3> QED  BY <3>1, SMT
    <2> HIDE DEF F
    <2>3. 0 \in I[0] /\ \A n \in 1 .. N : n \in 0 .. N /\ n - 1 \in 0 .. N /\ I[n] = Int /\ I[n - 1] = Int
      BY SMT
    <2>4. \A n \in 1 .. Len(q) : \A y \in I[n - 1] : F[q[n]][y] \in I[n]
      BY <2>1, <2>2, <2>3
    <2>5. \A n \in 0 .. N : r[n] \in I[n]
      <3> HIDE DEF I
      <3> QED  BY <2>1, <2>3, <2>4, RunInduction
    <2>6. r[0] = 0 /\ \A n \in 1 .. N : r[n] = F[q[n]][r[n - 1]]
      BY <2>1, RoundsExist, SMT
    <2> HIDE DEF r
    <2>7. \A n \in 0 .. N : r[n] \in Int
      BY <2>5
    <2>8. \A n \in 1 .. N : r[n] = r[n - 1] + f[q[n]]
      BY <2>2, <2>3, <2>6, <2>7
    <2>9. Total(f, q) = r[N]
      BY <2>1 DEF Total, Run, r, F
    <2> QED  BY <2>6, <2>7, <2>8, <2>9 DEF Sums
  \* They are what adds up.
  <1>SumsUnique.
      ASSUME NEW f \in [Tx -> Int], NEW N \in Nat, NEW q \in [1 .. N -> Tx], NEW r, r[0] = 0,
             \A n \in 0 .. N : r[n] \in Int, \A n \in 1 .. N : r[n] = r[n - 1] + f[q[n]]
      PROVE  Total(f, q) = r[N]
    <2> USE <1>SumsUnique
    <2> DEFINE F == Adding(f)
               I == [n \in 0 .. N |-> {r[n]}]
    <2>1. Len(q) = N
      BY SMT
    <2>2. /\ 0 \in 0 .. N /\ N \in 0 .. N
          /\ \A n \in 1 .. N : n \in 0 .. N /\ n - 1 \in 0 .. N
      BY SMT
    <2>3. 0 \in I[0]
      BY <2>2
    <2>4. ASSUME NEW n \in 1 .. Len(q), NEW y \in I[n - 1]
          PROVE  F[q[n]][y] \in I[n]
      <3>1. y = r[n - 1] /\ y \in Int /\ r[n] = r[n - 1] + f[q[n]] /\ I[n] = {r[n]} /\ q[n] \in Tx
        BY <2>1, <2>2, SMT
      <3>2. F[q[n]][y] = y + f[q[n]]
        BY <3>1 DEF Adding
      <3> HIDE DEF F, I
      <3> QED  BY <3>1, <3>2
    <2>5. Run(F, 0, q) \in I[N]
      <3> HIDE DEF F, I
      <3> QED  BY <2>1, <2>3, <2>4, RunInduction
    <2> QED  BY <2>2, <2>5 DEF Total
  \* A sequence without its element j adds up to that much less.
  <1>DropOne.
      ASSUME NEW f \in [Tx -> Int], NEW N \in Nat, NEW w \in [1 .. N + 1 -> Tx], NEW j \in 1 .. N + 1
      PROVE  Dropped(f, w, N, j)
    <2> DEFINE v == Without(w, N, j)
               c == f[w[j]]
    <2>1. N + 1 \in Nat
      BY SMT
    <2>2. PICK M \in Nat : M = N + 1
      BY <2>1
    <2>0. w \in [1 .. M -> Tx]
      BY <2>2
    <2>14. PICK R : Sums(f, w, M, R)
      BY <2>0, <1>PartialSums
    <2> DEFINE r == [n \in 0 .. N |-> IF n < j THEN R[n] ELSE R[n + 1] - c]
    <2>3. /\ Total(f, w) = R[M] /\ R[0] = 0 /\ \A n \in 0 .. M : R[n] \in Int
          /\ \A n \in 1 .. M : R[n] = R[n - 1] + f[w[n]]
      BY <2>14 DEF Sums
    <2>4. /\ \A i \in 1 .. N : i \in 1 .. M /\ i + 1 \in 1 .. M
          /\ j \in 1 .. M /\ w \in [1 .. M -> Tx]
      BY <2>2, SMT
    <2>5. v \in [1 .. N -> Tx] /\ \A i \in 1 .. N : v[i] = IF i < j THEN w[i] ELSE w[i + 1]
      BY <2>4, SMT DEF Without
    <2>6. c \in Int
      BY <2>4
    <2> HIDE DEF v, c
    <2>7. r[0] = 0 /\ \A n \in 0 .. N : r[n] = IF n < j THEN R[n] ELSE R[n + 1] - c
      BY <2>3, SMT
    <2>8. \A n \in 0 .. N : r[n] \in Int
      BY <2>2, <2>3, <2>6, SMT
    <2>9. ASSUME NEW n \in 1 .. N
          PROVE  r[n] = r[n - 1] + f[v[n]]
      <3>1. /\ n \in 0 .. N /\ n - 1 \in 0 .. N /\ n \in 1 .. M /\ n + 1 \in 1 .. M /\ (n + 1) - 1 = n
            /\ n - 1 \in 0 .. M /\ n \in 0 .. M /\ (n - 1) + 1 = n
        BY <2>2, SMT
      <3>2. R[n] = R[n - 1] + f[w[n]] /\ R[n + 1] = R[n] + f[w[n + 1]] /\ R[n] \in Int /\ R[n - 1] \in Int
        BY <2>3, <3>1
      <3>3. w[n] \in Tx /\ w[n + 1] \in Tx
        BY <2>4
      <3>4. f[w[n]] \in Int /\ f[w[n + 1]] \in Int
        BY <3>3
      <3>5. /\ r[n] = IF n < j THEN R[n] ELSE R[n + 1] - c
            /\ r[n - 1] = IF n - 1 < j THEN R[n - 1] ELSE R[n] - c
        BY <2>7, <3>1
      <3>6. v[n] = IF n < j THEN w[n] ELSE w[n + 1]
        BY <2>5
      <3> HIDE DEF r
      <3>7. CASE n < j
        <4>1. n - 1 < j
          BY <3>7, SMT
        <4> QED  BY <3>2, <3>5, <3>6, <3>7, <4>1
      <3>8. CASE n = j
        <4>1. n - 1 < j /\ ~(n < j) /\ c = f[w[n]]
          BY <3>8, SMT DEF c
        <4>2. r[n] = R[n + 1] - c /\ r[n - 1] = R[n - 1] /\ v[n] = w[n + 1]
          BY <3>5, <3>6, <4>1
        <4> QED  BY <2>6, <3>2, <3>4, <4>1, <4>2, SMT
      <3>9. CASE n > j
        <4>1. ~(n - 1 < j) /\ ~(n < j)
          BY <3>9, SMT
        <4>2. r[n] = R[n + 1] - c /\ r[n - 1] = R[n] - c /\ v[n] = w[n + 1]
          BY <3>5, <3>6, <4>1
        <4> QED  BY <2>6, <3>2, <3>4, <4>2, SMT
      <3> QED  BY <3>7, <3>8, <3>9, SMT
    <2> HIDE DEF r
    <2>10. Total(f, v) = r[N]
      BY <2>5, <2>7, <2>8, <2>9, <1>SumsUnique, ZenonT(40)
    <2>11. N \in 0 .. N /\ M \in 1 .. M /\ M - 1 = N /\ N \in 0 .. M /\ M \in 0 .. M /\ (N < j \/ ~(N < j)) /\ (N < j => j = M)
      BY <2>2, SMT
    <2>12. Total(f, w) = Total(f, v) + c
      <3>1. R[M] = R[N] + f[w[M]] /\ R[N] \in Int /\ R[M] \in Int
        BY <2>3, <2>11
      <3>2. r[N] = IF N < j THEN R[N] ELSE R[M] - c
        BY <2>2, <2>7, <2>11
      <3>3. CASE N < j
        BY <2>3, <2>10, <2>11, <3>1, <3>2, <3>3 DEF c
      <3>4. CASE ~(N < j)
        BY <2>3, <2>6, <2>10, <3>1, <3>2, <3>4, SMT
      <3> QED  BY <3>3, <3>4
    <2>13. ASSUME NEW i \in 1 .. N + 1, i # j
           PROVE  \E k \in 1 .. N : v[k] = w[i]
      <3>1. CASE i < j
        <4>1. i \in 1 .. N
          BY <3>1, SMT
        <4> QED  BY <2>5, <3>1, <4>1
      <3>2. CASE i > j
        <4>1. i - 1 \in 1 .. N /\ ~(i - 1 < j) /\ (i - 1) + 1 = i
          BY <3>2, SMT
        <4> QED  BY <2>5, <4>1
      <3> QED  BY <2>13, <3>1, <3>2, SMT
    <2> QED  BY <2>5, <2>12, <2>13 DEF v, c, Dropped
  \* What is left lists everything once, if w does.
  <1>WithoutOnce.
      ASSUME NEW K \in Nat, NEW u, NEW j \in 1 .. K + 1, Once(u, K + 1)
      PROVE  Once(Without(u, K, j), K)
    <2> USE <1>WithoutOnce
    <2> DEFINE b == Without(u, K, j)
    <2>0. u \in [1 .. K + 1 -> Tx] /\ \A x \in 1 .. K + 1 : \A y \in 1 .. K + 1 : u[x] = u[y] => x = y
      BY DEF Once
    <2>1. \A i \in 1 .. K : b[i] = IF i < j THEN u[i] ELSE u[i + 1]
      BY DEF Without
    <2>7. b \in [1 .. K -> Tx]
      <3>1. \A i \in 1 .. K : i \in 1 .. K + 1 /\ i + 1 \in 1 .. K + 1
        BY SMT
      <3> QED  BY <2>0, <3>1 DEF Without
    <2> HIDE DEF b
    <2> SUFFICES ASSUME NEW x \in 1 .. K, NEW y \in 1 .. K, b[x] = b[y]
                 PROVE  x = y
      BY <2>7 DEF b, Once
    <2>2. x \in 1 .. K + 1 /\ y \in 1 .. K + 1 /\ x + 1 \in 1 .. K + 1 /\ y + 1 \in 1 .. K + 1
      BY SMT
    <2>3. CASE x < j /\ y < j
      BY <2>0, <2>1, <2>2, <2>3, SMT
    <2>4. CASE x < j /\ ~(y < j)
      <3>1. u[x] = u[y + 1]
        BY <2>1, <2>4
      <3>2. x = y + 1
        BY <2>0, <2>2, <3>1
      <3> QED  BY <2>4, <3>2, SMT
    <2>5. CASE ~(x < j) /\ y < j
      <3>1. u[x + 1] = u[y]
        BY <2>1, <2>5
      <3>2. x + 1 = y
        BY <2>0, <2>2, <3>1
      <3> QED  BY <2>5, <3>2, SMT
    <2>6. CASE ~(x < j) /\ ~(y < j)
      <3>1. u[x + 1] = u[y + 1]
        BY <2>1, <2>6
      <3>2. x + 1 = y + 1
        BY <2>0, <2>2, <3>1
      <3> QED  BY <3>2, SMT
    <2> QED  BY <2>3, <2>4, <2>5, <2>6
  \* Two sequences that list the same transactions, each once, add up to the same.
  <1>TotalSame.
      ASSUME NEW f \in [Tx -> Int], NEW k \in Nat, NEW q, NEW w, Once(q, k), Once(w, k), Listed(q, w, k)
      PROVE  Total(f, q) = Total(f, w)
    <2> USE <1>TotalSame
    <2> DEFINE Same(K) == \A s \in [1 .. K -> Tx] : \A u \in [1 .. K -> Tx] :
                  Once(s, K) /\ Once(u, K) /\ Listed(s, u, K) => Total(f, s) = Total(f, u)
               G == {K \in Nat : Same(K)}
    <2>1. 0 \in G
      <3> SUFFICES ASSUME NEW s \in [1 .. 0 -> Tx], NEW u \in [1 .. 0 -> Tx]
                   PROVE  Total(f, s) = Total(f, u)
        BY SMT
      <3>1. 0 \in Nat
        BY SMT
      <3>2. ASSUME NEW v \in [1 .. 0 -> Tx]
            PROVE  Total(f, v) = 0
        <4>1. PICK r : Sums(f, v, 0, r)
          BY <3>1, <1>PartialSums
        <4> QED  BY <4>1 DEF Sums
      <3> QED  BY <3>2
    <2>2. ASSUME NEW K \in 0 .. k - 1, K \in G
          PROVE  K + 1 \in G
      <3>1. K \in Nat /\ K + 1 \in Nat
        BY SMT
      <3>2. PICK L \in Nat : L = K + 1
        BY <3>1
      <3> SUFFICES ASSUME NEW s \in [1 .. L -> Tx], NEW u \in [1 .. L -> Tx],
                          Once(s, L), Once(u, L), Listed(s, u, L)
                   PROVE  Total(f, s) = Total(f, u)
        BY <3>2
      <3>3. s \in [1 .. K + 1 -> Tx] /\ u \in [1 .. K + 1 -> Tx] /\ Once(s, K + 1) /\ Once(u, K + 1)
        BY <3>2
      <3>4. L \in 1 .. L /\ K + 1 \in 1 .. K + 1 /\ \A i \in 1 .. K : i \in 1 .. L /\ i # L /\ i < K + 1
        BY <3>1, <3>2, SMT
      <3>5. PICK j \in 1 .. L : u[j] = s[L]
        BY <3>4 DEF Listed
      <3>6. j \in 1 .. K + 1
        BY <3>2
      <3> DEFINE a == Without(s, K, K + 1)
                 b == Without(u, K, j)
      <3>7. a \in [1 .. K -> Tx] /\ Total(f, s) = Total(f, a) + f[s[K + 1]]
        <4>1. Dropped(f, s, K, K + 1)
          BY <3>1, <3>3, <3>4, <1>DropOne
        <4> QED  BY <4>1 DEF Dropped
      <3>8. /\ b \in [1 .. K -> Tx] /\ Total(f, u) = Total(f, b) + f[u[j]]
            /\ \A i \in 1 .. K + 1 : i # j => \E x \in 1 .. K : b[x] = u[i]
        <4>1. Dropped(f, u, K, j)
          BY <3>1, <3>3, <3>6, <1>DropOne
        <4> QED  BY <4>1 DEF Dropped
      <3>9. \A i \in 1 .. K : a[i] = s[i]
        BY <3>4 DEF Without
      <3>10. Once(a, K) /\ Once(b, K)
        BY <3>1, <3>3, <3>4, <3>6, <1>WithoutOnce
      <3> HIDE DEF a, b
      <3>11. ASSUME NEW i \in 1 .. K
             PROVE  \E x \in 1 .. K : b[x] = a[i]
        <4>1. i \in 1 .. L /\ i # L
          BY <3>4
        <4>2. PICK y \in 1 .. L : u[y] = s[i]
          BY <4>1 DEF Listed
        <4>3. y # j
          BY <3>4, <3>5, <4>1, <4>2, SMT DEF Once
        <4>4. y \in 1 .. K + 1
          BY <3>2
        <4>5. PICK x \in 1 .. K : b[x] = u[y]
          BY <3>8, <4>3, <4>4
        <4> QED  BY <3>9, <4>2, <4>5
      <3>12. Listed(a, b, K)
        BY <3>11 DEF Listed
      <3>13. Total(f, a) = Total(f, b)
        BY <2>2, <3>7, <3>8, <3>10, <3>12
      <3> QED  BY <3>2, <3>5, <3>7, <3>8, <3>13
    <2>3. k \in G
      <3> HIDE DEF G
      <3>1. 0 .. k \subseteq G
        BY <2>1, <2>2, UpTo
      <3>2. k \in 0 .. k
        BY SMT
      <3> QED  BY <3>1, <3>2
    <2> QED  BY <2>3 DEF Once
  \* Listing(A) lists each member of A once.
  <1>ListingOnce.
      ASSUME NEW A \in SUBSET Tx
      PROVE  /\ Cardinality(A) \in Nat
             /\ Once(Listing(A), Cardinality(A))
             /\ Listing(A) \in [1 .. Cardinality(A) -> A]
             /\ \A t \in A : \E i \in 1 .. Cardinality(A) : Listing(A)[i] = t
    <2> DEFINE q == Listing(A)
               n == Cardinality(A)
    <2>1. n \in Nat /\ q \in [1 .. n -> A] /\ Range(q) = A /\ IsFiniteSet(A)
      BY SubsetsFinite, ListingLists
    <2> HIDE DEF q, n
    <2>2. \A t \in A : \E i \in 1 .. n : q[i] = t
      BY <2>1 DEF Range
    <2>3. q \in Surjection(1 .. n, A)
      BY <2>1, <2>2 DEF Surjection
    <2>4. IsFiniteSet(1 .. n) /\ Cardinality(1 .. n) = n
      <3>1. 1 \in Int /\ n \in Int /\ n - 1 + 1 = n
        BY <2>1, SMT
      <3>2. IsFiniteSet(1 .. n) /\ Cardinality(1 .. n) = IF 1 > n THEN 0 ELSE n - 1 + 1
        BY <3>1, FS_Interval
      <3>3. 1 > n => n = 0
        BY <2>1, SMT
      <3> QED  BY <3>1, <3>2, <3>3
    <2>5. q \in Injection(1 .. n, A)
      BY <2>3, <2>4, FS_SurjSameCardinalityImpliesInj DEF n
    <2>6. \A i \in 1 .. n : \A j \in 1 .. n : q[i] = q[j] => i = j
      BY <2>5 DEF Injection, IsInjective
    <2>7. Once(q, n)
      BY <2>1, <2>6 DEF Once
    <2> QED  BY <2>1, <2>2, <2>7 DEF q, n
  <1>SumAdd.
      ASSUME NEW f \in [Tx -> Int]
      PROVE  /\ SumOver(f, {}) = 0
             /\ \A S \in SUBSET Tx : \A t \in Tx \ S : SumOver(f, S \cup {t}) = SumOver(f, S) + f[t]
    <2>1. \A S \in SUBSET Tx : SumOver(f, S) = Total(f, Listing(S))
      BY DEF SumOver, Total, Adding
    <2>2. SumOver(f, {}) = 0
      <3> DEFINE q == Listing({})
      <3>0. {} \in SUBSET Tx
        OBVIOUS
      <3>1. q \in [1 .. 0 -> Tx]
        BY <3>0, <1>ListingOnce, FS_EmptySet DEF Once
      <3>2. 0 \in Nat
        BY SMT
      <3> HIDE DEF q
      <3>3. PICK r : Sums(f, q, 0, r)
        BY <3>1, <3>2, <1>PartialSums
      <3>4. Total(f, q) = 0
        BY <3>3 DEF Sums
      <3> QED  BY <2>1, <3>0, <3>4 DEF q
    <2>3. ASSUME NEW S \in SUBSET Tx, NEW t \in Tx \ S
          PROVE  SumOver(f, S \cup {t}) = SumOver(f, S) + f[t]
      <3> DEFINE T == S \cup {t}
                 K == Cardinality(S)
                 q == Listing(S)
                 w == Listing(T)
      <3>0. T \in SUBSET Tx /\ S \subseteq T /\ t \in T /\ t \notin S /\ IsFiniteSet(S)
        BY SubsetsFinite
      <3>1. K \in Nat /\ q \in [1 .. K -> S] /\ Once(q, K)
        BY <1>ListingOnce
      <3>2. Cardinality(T) = K + 1
        BY <3>0, FS_AddElement
      <3> HIDE DEF T
      <3>3. Once(w, Cardinality(T)) /\ \A u \in T : \E i \in 1 .. Cardinality(T) : w[i] = u
        BY <3>0, <1>ListingOnce
      <3> HIDE DEF K, q, w
      <3>4. Once(w, K + 1) /\ w \in [1 .. K + 1 -> Tx] /\ \A u \in T : \E i \in 1 .. K + 1 : w[i] = u
        BY <3>2, <3>3 DEF Once
      <3>5. PICK j \in 1 .. K + 1 : w[j] = t
        BY <3>0, <3>4
      <3> DEFINE b == Without(w, K, j)
      <3>6. /\ b \in [1 .. K -> Tx] /\ Total(f, w) = Total(f, b) + f[w[j]]
            /\ \A i \in 1 .. K + 1 : i # j => \E x \in 1 .. K : b[x] = w[i]
        <4>1. Dropped(f, w, K, j)
          BY <3>1, <3>4, <1>DropOne
        <4> QED  BY <4>1 DEF Dropped
      <3>7. Once(b, K)
        BY <3>1, <3>4, <1>WithoutOnce
      <3> HIDE DEF b
      <3>8. ASSUME NEW i \in 1 .. K
            PROVE  \E x \in 1 .. K : b[x] = q[i]
        <4>1. q[i] \in S
          BY <3>1
        <4>2. PICK y \in 1 .. K + 1 : w[y] = q[i]
          BY <3>0, <3>4, <4>1
        <4>3. y # j
          BY <3>0, <3>5, <4>1, <4>2
        <4> QED  BY <3>6, <4>2, <4>3
      <3>9. Total(f, q) = Total(f, b)
        <4>1. Listed(q, b, K)
          BY <3>8 DEF Listed
        <4> QED  BY <3>1, <3>7, <4>1, <1>TotalSame
      <3> QED  BY <2>1, <3>0, <3>5, <3>6, <3>9 DEF q, w, T
    <2> QED  BY <2>2, <2>3
  <1> QED  BY <1>SumAdd

\* Sums of disjoint sets.
LEMMA SumUnion ==
    ASSUME NEW f \in [Tx -> Int], NEW A \in SUBSET Tx, NEW B \in SUBSET Tx, A \cap B = {}
    PROVE  SumOver(f, A \cup B) = SumOver(f, A) + SumOver(f, B)
  <1> DEFINE G == {T \in SUBSET Tx : A \cap T = {} => SumOver(f, A \cup T) = SumOver(f, A) + SumOver(f, T)}
  <1>1. {} \in G
    <2>1. A \cup {} = A /\ SumOver(f, {}) = 0 /\ SumOver(f, A) \in Int
      BY SumAdd, SumType
    <2>2. SumOver(f, A) + 0 = SumOver(f, A)
      BY <2>1, SMT
    <2> QED  BY <2>1, <2>2
  <1>2. ASSUME NEW T \in SUBSET Tx, NEW t \in Tx \ T, T \in G
        PROVE  T \cup {t} \in G
    <2> SUFFICES ASSUME A \cap (T \cup {t}) = {}
                 PROVE  SumOver(f, A \cup (T \cup {t})) = SumOver(f, A) + SumOver(f, T \cup {t})
      OBVIOUS
    <2> DEFINE U == A \cup T
    <2>1. A \cup (T \cup {t}) = U \cup {t} /\ U \in SUBSET Tx /\ t \in Tx \ U /\ A \cap T = {}
      OBVIOUS
    <2>2. SumOver(f, U) = SumOver(f, A) + SumOver(f, T)
      BY <1>2, <2>1
    <2> HIDE DEF U, G
    <2>3. SumOver(f, U \cup {t}) = SumOver(f, U) + f[t] /\ SumOver(f, T \cup {t}) = SumOver(f, T) + f[t]
      BY <2>1, SumAdd
    <2>4. SumOver(f, A) \in Int /\ SumOver(f, T) \in Int /\ f[t] \in Int
      BY SumType
    <2>5. SumOver(f, A) + SumOver(f, T) + f[t] = SumOver(f, A) + (SumOver(f, T) + f[t])
      BY <2>4, SMT
    <2> QED  BY <2>1, <2>2, <2>3, <2>5
  <1> HIDE DEF G
  <1>3. B \in G
    BY <1>1, <1>2, SetInduction
  <1> QED  BY <1>3 DEF G

\* Sums of functions that agree, and of naturals.
LEMMA SumAgree ==
    ASSUME NEW f \in [Tx -> Int], NEW g \in [Tx -> Int], NEW A \in SUBSET Tx, \A t \in A : f[t] = g[t]
    PROVE  SumOver(f, A) = SumOver(g, A)
  <1> DEFINE G == {T \in SUBSET Tx : T \subseteq A => SumOver(f, T) = SumOver(g, T)}
  <1>1. {} \in G
    BY SumAdd
  <1>2. ASSUME NEW T \in SUBSET Tx, NEW t \in Tx \ T, T \in G
        PROVE  T \cup {t} \in G
    <2> SUFFICES ASSUME T \cup {t} \subseteq A
                 PROVE  SumOver(f, T \cup {t}) = SumOver(g, T \cup {t})
      OBVIOUS
    <2>1. SumOver(f, T) = SumOver(g, T) /\ f[t] = g[t]
      BY <1>2
    <2> HIDE DEF G
    <2> QED  BY <2>1, SumAdd, SMT
  <1> HIDE DEF G
  <1>3. A \in G
    BY <1>1, <1>2, SetInduction
  <1> QED  BY <1>3 DEF G

\* Sizes add up to a size.
LEMMA SumNat ==
    ASSUME NEW f \in [Tx -> Nat], NEW A \in SUBSET Tx
    PROVE  SumOver(f, A) \in Nat
  <1> DEFINE G == {T \in SUBSET Tx : SumOver(f, T) \in Nat}
  <1>0. f \in [Tx -> Int]
    BY SMT
  <1>1. {} \in G
    BY <1>0, SumAdd, SMT
  <1>2. ASSUME NEW T \in SUBSET Tx, NEW t \in Tx \ T, T \in G
        PROVE  T \cup {t} \in G
    <2>1. SumOver(f, T \cup {t}) = SumOver(f, T) + f[t]
      BY <1>0, SumAdd
    <2>2. SumOver(f, T) \in Nat /\ f[t] \in Nat
      BY <1>2
    <2>3. SumOver(f, T) + f[t] \in Nat
      BY <2>2, SMT
    <2> QED  BY <2>1, <2>3
  <1> HIDE DEF G
  <1>3. A \in G
    BY <1>1, <1>2, SetInduction
  <1> QED  BY <1>3 DEF G

\* What a set holds weighs no more than the set.
LEMMA SizeMonotone ==
    ASSUME NEW A \in SUBSET Tx, NEW B \in SUBSET Tx, A \subseteq B
    PROVE  SumOver(Size, A) <= SumOver(Size, B)
  <1> DEFINE C == B \ A
  <1>1. C \in SUBSET Tx /\ A \cap C = {} /\ B = A \cup C
    OBVIOUS
  <1> HIDE DEF C
  <1>2. Size \in [Tx -> Nat] /\ Size \in [Tx -> Int]
    BY TxAssumption, SMT
  <1>3. SumOver(Size, B) = SumOver(Size, A) + SumOver(Size, C)
    BY <1>1, <1>2, SumUnion
  <1>4. SumOver(Size, A) \in Nat /\ SumOver(Size, C) \in Nat
    BY <1>1, <1>2, SumNat
  <1> QED  BY <1>3, <1>4, SMT

\* CalculateDescendants and CalculateMemPoolAncestors end, with the least set
\* that holds S and everything linked to its members.
LEMMA ReachLeast ==
    ASSUME NEW link \in [Tx -> SUBSET Tx], NEW S \in SUBSET Tx
    PROVE  /\ Reach(link, S) \in SUBSET Tx
           /\ S \subseteq Reach(link, S)
           /\ \A t \in Reach(link, S) : link[t] \subseteq Reach(link, S)
           /\ \A C \in SUBSET Tx : S \subseteq C /\ (\A t \in C : link[t] \subseteq C) => Reach(link, S) \subseteq C
  <1> DEFINE N == Cardinality(Tx)
             F == [i \in Nat |-> [T \in SUBSET Tx |-> T \cup UNION {link[t] : t \in T}]]
             q == [i \in 1 .. N + 1 |-> i]
             r == Rounds(F, S, q)
  <1>0. N \in Nat
    BY SubsetsFinite
  <1> HIDE DEF N
  <1>1. Len(q) = N + 1 /\ \A n \in 1 .. N + 1 : q[n] = n /\ n \in Nat /\ n - 1 \in 0 .. N + 1
    BY <1>0, SMT
  <1> HIDE DEF q
  <1>2. \A n \in 1 .. N + 1, T \in SUBSET Tx : F[q[n]][T] = T \cup UNION {link[t] : t \in T}
    BY <1>1
  <1> HIDE DEF F
  <1>3. Len(q) \in Nat
    BY <1>0, <1>1, SMT
  <1>4. r[0] = S /\ \A n \in 1 .. N + 1 : r[n] = F[q[n]][r[n - 1]]
    BY <1>1, <1>3, RoundsExist, SMT
  <1>5. \A n \in 0 .. N + 1 : r[n] \in SUBSET Tx
    <2> DEFINE I == [n \in 0 .. N + 1 |-> SUBSET Tx]
    <2>1. S \in I[0]
      BY <1>0, SMT
    <2>2. ASSUME NEW n \in 1 .. N + 1, NEW y \in I[n - 1]
          PROVE  F[q[n]][y] \in I[n]
      <3>1. n - 1 \in 0 .. N + 1 /\ n \in 0 .. N + 1
        BY <1>0, SMT
      <3>2. y \in SUBSET Tx
        BY <3>1
      <3>3. F[q[n]][y] = y \cup UNION {link[t] : t \in y}
        BY <1>2, <3>2
      <3>4. F[q[n]][y] \in SUBSET Tx
        BY <3>2, <3>3
      <3> QED  BY <3>1, <3>4
    <2>3. \A n \in 0 .. N + 1 : r[n] \in I[n]
      <3> HIDE DEF I
      <3> QED  BY <1>1, <1>3, <2>1, <2>2, RunInduction, ZenonT(40)
    <2> QED  BY <2>3
  <1>6. \A n \in 0 .. N : r[n + 1] = r[n] \cup UNION {link[t] : t \in r[n]}
    <2> TAKE n \in 0 .. N
    <2>1. n + 1 \in 1 .. N + 1 /\ n \in 0 .. N + 1
      BY <1>0, SMT
    <2>2. r[n] \in SUBSET Tx
      BY <1>5, <2>1
    <2>3. r[n + 1] = F[q[n + 1]][r[n]]
      BY <1>0, <1>4, <2>1, SMT
    <2> HIDE DEF r
    <2> QED  BY <1>2, <2>1, <2>2, <2>3
  <1> HIDE DEF r
  <1>7. \E n \in 0 .. N : r[n + 1] = r[n]
    <2>1. SUFFICES ASSUME \A n \in 0 .. N : r[n + 1] # r[n]
                   PROVE  FALSE
      OBVIOUS
    <2> DEFINE G == {n \in 0 .. N + 1 : n <= Cardinality(r[n])}
    <2>2. \A n \in 0 .. N + 1 : IsFiniteSet(r[n]) /\ Cardinality(r[n]) \in Nat /\ Cardinality(r[n]) <= N
      BY <1>5, SubsetsFinite DEF N
    <2>3. 0 \in G
      BY <1>0, <2>2, SMT
    <2>4. ASSUME NEW n \in 0 .. N, n \in G
          PROVE  n + 1 \in G
      <3>1. n \in 0 .. N + 1 /\ n + 1 \in 0 .. N + 1
        BY <1>0, SMT
      <3>2. r[n] \in SUBSET r[n + 1]
        BY <1>6
      <3>3. IsFiniteSet(r[n + 1])
        BY <2>2, <3>1
      <3>4. Cardinality(r[n]) <= Cardinality(r[n + 1]) /\ Cardinality(r[n + 1]) # Cardinality(r[n])
        BY <2>1, <3>2, <3>3, FS_Subset
      <3>5. Cardinality(r[n]) \in Nat /\ Cardinality(r[n + 1]) \in Nat /\ n <= Cardinality(r[n])
        BY <2>2, <2>4, <3>1
      <3>6. n + 1 <= Cardinality(r[n + 1])
        BY <3>4, <3>5, SMT
      <3> QED  BY <3>1, <3>6
    <2>5. 0 .. N + 1 \subseteq G
      <3> HIDE DEF G
      <3>1. PICK M \in Nat : M = N + 1 /\ \A n \in 0 .. M - 1 : n \in 0 .. N
        BY <1>0, SMT
      <3>2. \A n \in 0 .. M - 1 : n \in G => n + 1 \in G
        BY <2>4, <3>1
      <3>3. 0 .. M \subseteq G
        BY <2>3, <3>2, UpTo
      <3> QED  BY <3>1, <3>3
    <2>6. N + 1 \in 0 .. N + 1
      BY <1>0, SMT
    <2>7. N + 1 <= Cardinality(r[N + 1]) /\ Cardinality(r[N + 1]) \in Nat /\ Cardinality(r[N + 1]) <= N
      BY <2>2, <2>5, <2>6
    <2> QED  BY <1>0, <2>7, SMT
  <1>8. PICK n \in 0 .. N : r[n + 1] = r[n] /\ Reach(link, S) = r[n]
    BY <1>7 DEF Reach, N, r, F, q
  <1>9. n \in 0 .. N + 1
    BY <1>0, SMT
  <1>10. r[n] \in SUBSET Tx
    BY <1>5, <1>9
  <1>11. \A t \in r[n] : link[t] \subseteq r[n]
    <2>1. r[n + 1] = r[n] \cup UNION {link[t] : t \in r[n]}
      BY <1>6
    <2> QED  BY <1>8, <2>1
  <1>12. S \subseteq r[n]
    <2> DEFINE G == {k \in 0 .. N + 1 : S \subseteq r[k]}
    <2>1. 0 \in G
      BY <1>0, <1>4, SMT
    <2>2. ASSUME NEW k \in 0 .. N, k \in G
          PROVE  k + 1 \in G
      <3>1. k + 1 \in 0 .. N + 1
        BY <1>0, SMT
      <3>2. r[k + 1] = r[k] \cup UNION {link[t] : t \in r[k]}
        BY <1>6
      <3> QED  BY <2>2, <3>1, <3>2
    <2>3. 0 .. N + 1 \subseteq G
      <3> HIDE DEF G
      <3>1. PICK M \in Nat : M = N + 1 /\ \A k \in 0 .. M - 1 : k \in 0 .. N
        BY <1>0, SMT
      <3>2. \A k \in 0 .. M - 1 : k \in G => k + 1 \in G
        BY <2>2, <3>1
      <3>3. 0 .. M \subseteq G
        BY <2>1, <3>2, UpTo
      <3> QED  BY <3>1, <3>3
    <2> QED  BY <1>9, <2>3
  <1>13. ASSUME NEW C \in SUBSET Tx, S \subseteq C, \A t \in C : link[t] \subseteq C
         PROVE  r[n] \subseteq C
    <2> DEFINE G == {k \in 0 .. N + 1 : r[k] \subseteq C}
    <2>1. 0 \in G
      BY <1>0, <1>4, <1>13, SMT
    <2>2. ASSUME NEW k \in 0 .. N, k \in G
          PROVE  k + 1 \in G
      <3>1. k + 1 \in 0 .. N + 1
        BY <1>0, SMT
      <3>2. r[k + 1] = r[k] \cup UNION {link[t] : t \in r[k]}
        BY <1>6
      <3> QED  BY <1>13, <2>2, <3>1, <3>2
    <2>3. 0 .. N + 1 \subseteq G
      <3> HIDE DEF G
      <3>1. PICK M \in Nat : M = N + 1 /\ \A k \in 0 .. M - 1 : k \in 0 .. N
        BY <1>0, SMT
      <3>2. \A k \in 0 .. M - 1 : k \in G => k + 1 \in G
        BY <2>2, <3>1
      <3>3. 0 .. M \subseteq G
        BY <2>1, <3>2, UpTo
      <3> QED  BY <3>1, <3>3
    <2> QED  BY <1>9, <2>3
  <1> QED  BY <1>8, <1>10, <1>11, <1>12, <1>13, SMT

-----------------------------------------------------------------------------
(* The pool is well formed, whatever is done to it.                        *)

\* An outpoint names the transaction that has it as an output.
LEMMA OutpointTx ==
    /\ \A o \in Outpoint : o[1] \in Tx /\ o \in Outputs(o[1])
    /\ \A t \in Tx : \A o \in Outputs(t) : o[1] = t /\ o \in Outpoint
  <1>1. \A t \in Tx : \A o \in Outputs(t) : o[1] = t /\ o \in Outpoint
    BY SMT DEF Outputs, Outpoint
  <1> QED  BY <1>1 DEF Outpoint

\* Inputs are outpoints of transactions.
LEMMA SpendsTx ==
    \A t \in Tx : \A o \in Spends[t] : o \in Outpoint /\ o[1] \in Tx
  BY OutpointTx, TxAssumption

\* The members of a pool have their types.
LEMMA PoolFields ==
    ASSUME NEW m \in Pools
    PROVE  /\ m.tx \in SUBSET Tx
           /\ m.next \in [Outpoint -> Tx \cup {NoTx}]
           /\ m.parents \in [Tx -> SUBSET Tx] /\ m.children \in [Tx -> SUBSET Tx]
           /\ m.desc \in [Tx -> Totals] /\ m.anc \in [Tx -> Totals]
           /\ m.feeDelta \in [Tx -> Int] /\ m.mapDeltas \in [Tx -> Int]
  BY SMT DEF Pools

\* A record with the members of a pool is a pool.
LEMMA PoolOf ==
    ASSUME NEW r,
           r = [tx |-> r.tx, next |-> r.next, parents |-> r.parents, children |-> r.children,
                desc |-> r.desc, anc |-> r.anc, feeDelta |-> r.feeDelta, mapDeltas |-> r.mapDeltas],
           r.tx \in SUBSET Tx, r.next \in [Outpoint -> Tx \cup {NoTx}],
           r.parents \in [Tx -> SUBSET Tx], r.children \in [Tx -> SUBSET Tx],
           r.desc \in [Tx -> Totals], r.anc \in [Tx -> Totals],
           r.feeDelta \in [Tx -> Int], r.mapDeltas \in [Tx -> Int]
    PROVE  r \in Pools
  BY SMTT(30) DEF Pools

\* The arithmetic on totals stays within integers.
LEMMA TotalsType ==
    /\ \A a \in Totals : \A b \in Totals : Plus(a, b) \in Totals /\ Minus(a, b) \in Totals
    /\ Nothing \in Totals
    /\ \A m \in Pools : \A t \in Tx : Own(m, t) \in Totals
    /\ \A m \in Pools : \A S \in SUBSET Tx : Sum(m, S) \in Totals
  <1>1. \A a \in Totals : \A b \in Totals : Plus(a, b) \in Totals /\ Minus(a, b) \in Totals
    BY SMT DEF Totals, Plus, Minus
  <1>2. Nothing \in Totals
    BY SMT DEF Totals, Nothing
  <1>3. ASSUME NEW m \in Pools, NEW t \in Tx
        PROVE  ModifiedFee(m, t) \in Int /\ Own(m, t) \in Totals
    <2>1. m.feeDelta[t] \in Int /\ Fee[t] \in Int /\ Size[t] \in Int
      BY PoolFields, TxAssumption, SMT
    <2> QED  BY <2>1, SMT DEF ModifiedFee, Own, Totals
  <1>4. ASSUME NEW m \in Pools, NEW S \in SUBSET Tx
        PROVE  Sum(m, S) \in Totals
    <2>1. Cardinality(S) \in Int
      BY SubsetsFinite, SMT
    <2>2. Size \in [Tx -> Int]
      BY TxAssumption, SMT
    <2>3. SumOver(Size, S) \in Int
      BY <2>2, SumType
    <2> DEFINE f == [t \in Tx |-> ModifiedFee(m, t)]
    <2>4. f \in [Tx -> Int]
      BY <1>3
    <2> HIDE DEF f
    <2>5. SumOver(f, S) \in Int
      BY <2>4, SumType
    <2> QED  BY <2>1, <2>3, <2>5, SMT DEF Sum, Totals, f
  <1> QED  BY <1>1, <1>2, <1>3, <1>4

\* The totals of a set, of its parts and of one transaction.
LEMMA SumIs ==
    ASSUME NEW m \in Pools, NEW A \in SUBSET Tx
    PROVE  /\ Sum(m, A) \in Totals
           /\ Sum(m, A).n = Cardinality(A)
           /\ Sum(m, A).size = SumOver(Size, A)
           /\ Sum(m, A).fee = SumOver([t \in Tx |-> ModifiedFee(m, t)], A)
           /\ Size \in [Tx -> Int] /\ [t \in Tx |-> ModifiedFee(m, t)] \in [Tx -> Int]
  <1>1. m.feeDelta \in [Tx -> Int] /\ Fee \in [Tx -> Int]
    BY PoolFields, TxAssumption
  <1>2. \A t \in Tx : ModifiedFee(m, t) \in Int
    BY <1>1, SMT DEF ModifiedFee
  <1>3. Size \in [Tx -> Int]
    BY TxAssumption, SMT
  <1>4. Sum(m, A) \in Totals
    BY TotalsType
  <1> DEFINE f == [t \in Tx |-> ModifiedFee(m, t)]
  <1>5. f \in [Tx -> Int]
    BY <1>2
  <1>6. Sum(m, A) = [n |-> Cardinality(A), size |-> SumOver(Size, A), fee |-> SumOver(f, A)]
    BY DEF Sum
  <1> HIDE DEF f
  <1>7. Sum(m, A).n = Cardinality(A) /\ Sum(m, A).size = SumOver(Size, A) /\ Sum(m, A).fee = SumOver(f, A)
    BY <1>6, SMT
  <1> QED  BY <1>3, <1>4, <1>5, <1>7 DEF f

\* Totals are equal when their members are.
LEMMA TotalsEqual ==
    ASSUME NEW a \in Totals, NEW c \in Totals, a.n = c.n, a.size = c.size, a.fee = c.fee
    PROVE  a = c
  BY SMT DEF Totals

\* The totals of two disjoint sets are added.
LEMMA SumSplit ==
    ASSUME NEW m \in Pools, NEW A \in SUBSET Tx, NEW B \in SUBSET Tx, A \cap B = {}
    PROVE  Sum(m, A \cup B) = Plus(Sum(m, A), Sum(m, B))
  <1> DEFINE C == A \cup B
             f == [t \in Tx |-> ModifiedFee(m, t)]
             x == Sum(m, C)
             y == Plus(Sum(m, A), Sum(m, B))
  <1>1. C \in SUBSET Tx /\ IsFiniteSet(A) /\ IsFiniteSet(B)
    BY SubsetsFinite
  <1> HIDE DEF f
  <1>2. /\ Sum(m, A).n = Cardinality(A) /\ Sum(m, A).size = SumOver(Size, A) /\ Sum(m, A).fee = SumOver(f, A)
        /\ Sum(m, B).n = Cardinality(B) /\ Sum(m, B).size = SumOver(Size, B) /\ Sum(m, B).fee = SumOver(f, B)
    BY SumIs DEF f
  <1>3. x.n = Cardinality(C) /\ x.size = SumOver(Size, C) /\ x.fee = SumOver(f, C)
    BY <1>1, SumIs DEF f
  <1>4. Size \in [Tx -> Int] /\ f \in [Tx -> Int]
    BY SumIs DEF f
  <1>5. Cardinality(C) = Cardinality(A) + Cardinality(B)
    <2>1. Cardinality(C) = Cardinality(A) + Cardinality(B) - Cardinality(A \cap B)
      BY <1>1, FS_Union
    <2>2. Cardinality(A \cap B) = 0 /\ Cardinality(A) \in Nat /\ Cardinality(B) \in Nat
      BY FS_EmptySet, SubsetsFinite
    <2>3. Cardinality(A) + Cardinality(B) - 0 = Cardinality(A) + Cardinality(B)
      BY <2>2, SMT
    <2> QED  BY <2>1, <2>2, <2>3
  <1>6. SumOver(Size, C) = SumOver(Size, A) + SumOver(Size, B) /\ SumOver(f, C) = SumOver(f, A) + SumOver(f, B)
    BY <1>4, SumUnion
  <1>7. /\ y.n = Sum(m, A).n + Sum(m, B).n /\ y.size = Sum(m, A).size + Sum(m, B).size
        /\ y.fee = Sum(m, A).fee + Sum(m, B).fee
    BY DEF Plus
  <1>8. x \in Totals /\ y \in Totals
    <2>1. Sum(m, A) \in Totals /\ Sum(m, B) \in Totals /\ x \in Totals
      BY <1>1, TotalsType
    <2> QED  BY <2>1, TotalsType
  <1> HIDE DEF x, y, C
  <1>9. x.n = y.n /\ x.size = y.size /\ x.fee = y.fee
    BY <1>2, <1>3, <1>5, <1>6, <1>7
  <1>10. x = y
    BY <1>8, <1>9, TotalsEqual
  <1> QED  BY <1>10 DEF x, y, C

\* The totals of one transaction, and of none.
LEMMA SumOne ==
    ASSUME NEW m \in Pools, NEW t \in Tx
    PROVE  Sum(m, {t}) = Own(m, t) /\ Sum(m, {}) = Nothing
  <1> DEFINE f == [u \in Tx |-> ModifiedFee(m, u)]
  <1>1. Size \in [Tx -> Int] /\ f \in [Tx -> Int] /\ f[t] = ModifiedFee(m, t)
    BY SumIs
  <1> HIDE DEF f
  <1>2. {} \in SUBSET Tx /\ t \in Tx \ {} /\ {} \cup {t} = {t}
    OBVIOUS
  <1>3. ASSUME NEW h \in [Tx -> Int]
        PROVE  SumOver(h, {t}) = h[t] /\ SumOver(h, {}) = 0
    <2>1. SumOver(h, {}) = 0 /\ SumOver(h, {} \cup {t}) = SumOver(h, {}) + h[t] /\ h[t] \in Int
      BY <1>2, SumAdd
    <2>2. 0 + h[t] = h[t]
      BY <2>1, SMT
    <2> QED  BY <1>2, <2>1, <2>2
  <1>4. Cardinality({t}) = 1 /\ Cardinality({}) = 0
    BY FS_Singleton, FS_EmptySet
  <1>5. /\ SumOver(Size, {t}) = Size[t] /\ SumOver(f, {t}) = ModifiedFee(m, t)
        /\ SumOver(Size, {}) = 0 /\ SumOver(f, {}) = 0
    BY <1>1, <1>3
  <1> QED  BY <1>4, <1>5 DEF Sum, Own, Nothing, f

\* Totals depend on the deltas in the entries of the set only.
LEMMA SumSame ==
    ASSUME NEW m \in Pools, NEW r \in Pools, NEW A \in SUBSET Tx, \A t \in A : r.feeDelta[t] = m.feeDelta[t]
    PROVE  Sum(r, A) = Sum(m, A)
  <1> DEFINE f == [t \in Tx |-> ModifiedFee(m, t)]
             h == [t \in Tx |-> ModifiedFee(r, t)]
  <1>1. f \in [Tx -> Int] /\ h \in [Tx -> Int]
    BY SumIs
  <1>2. \A t \in A : f[t] = h[t]
    BY DEF ModifiedFee
  <1>3. Sum(r, A) = [n |-> Cardinality(A), size |-> SumOver(Size, A), fee |-> SumOver(h, A)]
    BY DEF Sum
  <1>4. Sum(m, A) = [n |-> Cardinality(A), size |-> SumOver(Size, A), fee |-> SumOver(f, A)]
    BY DEF Sum
  <1> HIDE DEF f, h
  <1>5. SumOver(f, A) = SumOver(h, A)
    BY <1>1, <1>2, SumAgree
  <1> QED  BY <1>3, <1>4, <1>5

\* The same number of transactions of the same size.
Alike(a, c) == a.n = c.n /\ a.size = c.size

\* The same is added to both.
LEMMA AlikePlus ==
    ASSUME NEW a \in Totals, NEW c \in Totals, NEW d \in Totals, Alike(a, c)
    PROVE  Alike(Plus(a, d), Plus(c, d)) /\ Alike(Minus(a, d), Minus(c, d))
  BY DEF Alike, Plus, Minus

\* A total is a number of transactions and their size.
LEMMA TotalsNatural ==
    ASSUME NEW m \in Pools, NEW S \in SUBSET Tx
    PROVE  Sum(m, S).n >= 0 /\ Sum(m, S).size >= 0
  <1>1. Cardinality(S) \in Nat
    BY SubsetsFinite
  <1>3. SumOver(Size, S) \in Nat
    BY SumNat, TxAssumption
  <1>2. Sum(m, S).n \in Nat /\ Sum(m, S).size \in Nat
    BY <1>1, <1>3, SumIs
  <1> QED  BY <1>2, SMT

-----------------------------------------------------------------------------
(* Links and inputs.                                                       *)

\* u spends an output of t.
Feeds(t, u) == \E o \in Spends[u] : o[1] = t

\* The links of m are its spends, both ways, except that what is in late is not
\* linked to its children yet, unless they are in new.
Links(m, new, late) ==
    \A t \in Tx : \A p \in Tx :
        /\ p \in m.parents[t] <=> t \in m.tx /\ p \in m.tx /\ Feeds(p, t) /\ (t \in new \/ p \notin late)
        /\ t \in m.children[p] <=> p \in m.parents[t]

\* mapNextTx has the inputs of m, and those only.
Spent(m) ==
    /\ \A o \in Outpoint : m.next[o] # NoTx => m.next[o] \in m.tx /\ o \in Spends[m.next[o]]
    /\ \A t \in m.tx : \A o \in Spends[t] : m.next[o] = t

\* Inputs come from the pool or from the outpoints A.
Fed(m, A) == \A t \in m.tx : \A o \in Spends[t] : o[1] \in m.tx \/ o \in A

\* What clearing a prioritisation does not change.
LEMMA SameLinks ==
    ASSUME NEW m, NEW r, r.tx = m.tx, r.next = m.next, r.parents = m.parents, r.children = m.children
    PROVE  /\ \A new, late : Links(m, new, late) => Links(r, new, late)
           /\ Spent(m) => Spent(r)
           /\ \A A : Fed(m, A) => Fed(r, A)
  <1>1. \A new, late : Links(m, new, late) => Links(r, new, late)
    BY DEF Links
  <1>2. Spent(m) => Spent(r)
    BY SMT DEF Spent
  <1>3. \A A : Fed(m, A) => Fed(r, A)
    BY DEF Fed
  <1> QED  BY <1>1, <1>2, <1>3

\* CalculateDescendants is the least set that is closed under children.
LEMMA Descendants ==
    ASSUME NEW m \in Pools, NEW R \in SUBSET Tx
    PROVE  LET D == CalculateDescendants(m, R)
           IN  /\ D \in SUBSET Tx
               /\ R \subseteq D
               /\ \A p \in D : m.children[p] \subseteq D
               /\ \A C \in SUBSET Tx : R \subseteq C /\ (\A t \in C : m.children[t] \subseteq C)
                    => D \subseteq C
  BY ReachLeast, PoolFields, SMT DEF CalculateDescendants

-----------------------------------------------------------------------------
(* Descendants and ancestors.                                              *)

Down(m, t) == CalculateDescendants(m, {t})
Up(m, t) == Reach(m.parents, {t})

\* Links go both ways, between entries.
Tied(m) ==
    \A t \in Tx : \A p \in Tx :
        /\ t \in m.children[p] <=> p \in m.parents[t]
        /\ p \in m.parents[t] => t \in m.tx /\ p \in m.tx

\* So they are when the links are the spends.
LEMMA LinksTied ==
    ASSUME NEW m, NEW new, NEW late, Links(m, new, late)
    PROVE  Tied(m)
  BY DEF Links, Tied

\* Down is the least set with t that is closed under children.
LEMMA DownLeast ==
    ASSUME NEW m \in Pools, NEW t \in Tx
    PROVE  /\ Down(m, t) \in SUBSET Tx
           /\ t \in Down(m, t)
           /\ \A p \in Down(m, t) : m.children[p] \subseteq Down(m, t)
           /\ \A C \in SUBSET Tx : t \in C /\ (\A p \in C : m.children[p] \subseteq C) => Down(m, t) \subseteq C
  <1> DEFINE R == {t}
  <1>1. R \in SUBSET Tx /\ \A C : R \subseteq C <=> t \in C
    OBVIOUS
  <1> HIDE DEF R
  <1>2. /\ CalculateDescendants(m, R) \in SUBSET Tx /\ R \subseteq CalculateDescendants(m, R)
        /\ \A p \in CalculateDescendants(m, R) : m.children[p] \subseteq CalculateDescendants(m, R)
        /\ \A C \in SUBSET Tx : R \subseteq C /\ (\A p \in C : m.children[p] \subseteq C)
            => CalculateDescendants(m, R) \subseteq C
    BY <1>1, Descendants
  <1> QED  BY <1>1, <1>2 DEF Down, R

\* Up is the least set with t that is closed under parents.
LEMMA UpLeast ==
    ASSUME NEW m \in Pools, NEW t \in Tx
    PROVE  /\ Up(m, t) \in SUBSET Tx
           /\ t \in Up(m, t)
           /\ \A p \in Up(m, t) : m.parents[p] \subseteq Up(m, t)
           /\ \A C \in SUBSET Tx : t \in C /\ (\A p \in C : m.parents[p] \subseteq C) => Up(m, t) \subseteq C
  <1> DEFINE R == {t}
             link == m.parents
  <1>1. R \in SUBSET Tx /\ \A C : R \subseteq C <=> t \in C
    OBVIOUS
  <1>2. link \in [Tx -> SUBSET Tx]
    BY PoolFields
  <1> HIDE DEF R, link
  <1>3. /\ Reach(link, R) \in SUBSET Tx /\ R \subseteq Reach(link, R)
        /\ \A p \in Reach(link, R) : link[p] \subseteq Reach(link, R)
        /\ \A C \in SUBSET Tx : R \subseteq C /\ (\A p \in C : link[p] \subseteq C) => Reach(link, R) \subseteq C
    BY <1>1, <1>2, ReachLeast
  <1> QED  BY <1>1, <1>3 DEF Up, R, link

\* An entry and what CalculateMemPoolAncestors finds above it.
LEMMA UpIs ==
    ASSUME NEW m \in Pools, NEW t \in Tx
    PROVE  Up(m, t) = {t} \cup Ancestors(m, t) /\ Ancestors(m, t) \in SUBSET Tx
  <1> DEFINE link == m.parents
             A == Reach(link, link[t])
             U == Up(m, t)
  <1>1. link \in [Tx -> SUBSET Tx] /\ link[t] \in SUBSET Tx
    BY PoolFields
  <1>2. /\ U \in SUBSET Tx /\ t \in U /\ \A p \in U : link[p] \subseteq U
        /\ \A C \in SUBSET Tx : t \in C /\ (\A p \in C : link[p] \subseteq C) => U \subseteq C
    BY UpLeast
  <1> HIDE DEF U
  <1>3. A = Ancestors(m, t)
    BY DEF Ancestors
  <1> HIDE DEF link
  <1>4. /\ A \in SUBSET Tx /\ link[t] \subseteq A /\ \A p \in A : link[p] \subseteq A
        /\ \A C \in SUBSET Tx : link[t] \subseteq C /\ (\A p \in C : link[p] \subseteq C) => A \subseteq C
    BY <1>1, ReachLeast, SMT
  <1> HIDE DEF A
  <1>5. A \subseteq U
    BY <1>2, <1>4
  <1>6. U \subseteq {t} \cup A
    <2> DEFINE C == {t} \cup A
    <2>1. C \in SUBSET Tx /\ t \in C /\ \A p \in C : link[p] \subseteq C
      BY <1>4
    <2> HIDE DEF C
    <2>2. U \subseteq C
      BY <1>2, <2>1
    <2> QED  BY <2>2 DEF C
  <1> QED  BY <1>2, <1>3, <1>4, <1>5, <1>6, SMT DEF U

\* u descends from t when t is above u.
LEMMA UpDown ==
    ASSUME NEW m \in Pools, Tied(m), NEW t \in Tx, NEW u \in Tx
    PROVE  u \in Down(m, t) <=> t \in Up(m, u)
  <1>1. m.parents \in [Tx -> SUBSET Tx] /\ m.children \in [Tx -> SUBSET Tx]
    BY PoolFields
  <1>2. ASSUME u \in Down(m, t)
        PROVE  t \in Up(m, u)
    <2> DEFINE C == {v \in Tx : t \in Up(m, v)}
    <2>1. t \in C
      BY UpLeast
    <2>2. ASSUME NEW v \in C, NEW c \in m.children[v]
          PROVE  c \in C
      <3>1. v \in Tx /\ c \in Tx /\ t \in Up(m, v)
        BY <1>1, <2>2
      <3>2. v \in m.parents[c]
        BY <2>2, <3>1 DEF Tied
      <3> DEFINE U == Up(m, c)
      <3>3. U \in SUBSET Tx /\ c \in U /\ \A p \in U : m.parents[p] \subseteq U
        BY <3>1, UpLeast
      <3>4. v \in U
        BY <3>2, <3>3
      <3> HIDE DEF U
      <3>5. Up(m, v) \subseteq U
        BY <3>1, <3>3, <3>4, UpLeast
      <3> QED  BY <3>1, <3>5 DEF U
    <2>3. C \in SUBSET Tx /\ \A p \in C : m.children[p] \subseteq C
      BY <2>2
    <2> HIDE DEF C
    <2>4. Down(m, t) \subseteq C
      BY <2>1, <2>3, DownLeast
    <2> QED  BY <1>2, <2>4 DEF C
  <1>3. ASSUME t \in Up(m, u)
        PROVE  u \in Down(m, t)
    <2> DEFINE C == {v \in Tx : u \in Down(m, v)}
    <2>1. u \in C
      BY DownLeast
    <2>2. ASSUME NEW v \in C, NEW p \in m.parents[v]
          PROVE  p \in C
      <3>1. v \in Tx /\ p \in Tx /\ u \in Down(m, v)
        BY <1>1, <2>2
      <3>2. v \in m.children[p]
        BY <2>2, <3>1 DEF Tied
      <3> DEFINE D == Down(m, p)
      <3>3. D \in SUBSET Tx /\ p \in D /\ \A c \in D : m.children[c] \subseteq D
        BY <3>1, DownLeast
      <3>4. v \in D
        BY <3>2, <3>3
      <3> HIDE DEF D
      <3>5. Down(m, v) \subseteq D
        BY <3>1, <3>3, <3>4, DownLeast
      <3> QED  BY <3>1, <3>5 DEF D
    <2>3. C \in SUBSET Tx /\ \A p \in C : m.parents[p] \subseteq C
      BY <2>2
    <2> HIDE DEF C
    <2>4. Up(m, u) \subseteq C
      BY <2>1, <2>3, UpLeast
    <2> QED  BY <1>3, <2>4 DEF C
  <1> QED  BY <1>2, <1>3

\* Links say what is above and below.
LEMMA SameReach ==
    ASSUME NEW m, NEW r, r.children = m.children, r.parents = m.parents, NEW t
    PROVE  Down(r, t) = Down(m, t) /\ Up(r, t) = Up(m, t)
  BY DEF Down, Up, CalculateDescendants

\* The totals of every entry are those of what it is linked to.
Exact(m) ==
    /\ \A t \in m.tx :
        /\ m.desc[t] = Sum(m, Down(m, t)) /\ Alike(m.anc[t], Sum(m, Up(m, t)))
        /\ m.feeDelta[t] = m.mapDeltas[t]
    /\ \A t \in Tx \ m.tx : m.desc[t] = Nothing /\ m.anc[t] = Nothing

-----------------------------------------------------------------------------
(* UpdateTransactionsFromBlock, after a block is disconnected.             *)

\* No transaction is there twice, and none comes after one that spends it.
Ordered(v) ==
    \A i \in 1 .. Len(v) : \A j \in 1 .. Len(v) :
        (v[i] = v[j] => i = j) /\ (i <= j => ~Feeds(v[j], v[i]))

Caches == [m : Pools, cache : [Tx -> SUBSET Tx]]

\* What a round that finds below makes of the pool y and the cache.
Updated(x, t, y, below, r) ==
    /\ r.m.tx = y.tx /\ r.m.next = y.next /\ r.m.parents = y.parents /\ r.m.children = y.children
    /\ r.m.feeDelta = y.feeDelta /\ r.m.mapDeltas = y.mapDeltas
    /\ \A u \in Tx : r.m.anc[u] = IF u \in below THEN Plus(y.anc[u], Own(y, t)) ELSE y.anc[u]
    /\ \A u \in Tx : r.m.desc[u] = IF u = t THEN Plus(y.desc[t], Sum(y, below)) ELSE y.desc[u]
    /\ \A u \in Tx : r.cache[u] = IF u = t THEN below ELSE x.cache[u]

\* y has kids as children of t, and is m otherwise.
Grown(m, y, t, kids) ==
    \A u \in Tx : \A p \in Tx : u \in y.children[p] <=> u \in m.children[p] \/ (p = t /\ u \in kids)

\* UpdateLinks member by member: r is m, with kids as children of t.
Linked(m, t, kids, r) ==
    /\ r \in Pools /\ r.tx = m.tx /\ r.next = m.next
    /\ r.desc = m.desc /\ r.anc = m.anc /\ r.feeDelta = m.feeDelta /\ r.mapDeltas = m.mapDeltas
    /\ \A u \in Tx : \A p \in Tx :
        /\ p \in r.parents[u] <=> p \in m.parents[u] \/ (p = t /\ u \in kids)
        /\ u \in r.children[p] <=> u \in m.children[p] \/ (p = t /\ u \in kids)

Upward(m, S) == \A c \in S : m.parents[c] \subseteq S

\* What the cache has for a transaction is what is below it and not in V.
Filled(m, V, cache) == \A c \in Tx : cache[c] # {} => cache[c] = Down(m, c) \ V

\* What y reaches and m does not, when t has children in y that it lacks in m.
Farther(m, y, V, late, t) ==
    /\ \A u \in Tx \ late : Down(y, u) = Down(m, u)
    /\ \A u \in Tx : Down(y, u) \cap V = Down(m, u) \cap V
    /\ \A u \in V : Up(y, u) = Up(m, u)
    /\ \A u \in Tx \ V : u \in Down(y, t) => Up(y, u) \ (late \ {t}) = (Up(m, u) \ late) \cup {t}
    /\ \A u \in Tx \ V : u \notin Down(y, t) => Up(y, u) \ (late \ {t}) = Up(m, u) \ late

\* Which descendants and ancestors of t its totals count, while those in late,
\* of the transactions V that are back, wait for their round.
Known(m, V, late, t) == IF t \in late THEN Down(m, t) \cap V ELSE Down(m, t)
Seen(m, V, late, t) == IF t \in V THEN Up(m, t) ELSE Up(m, t) \ late
Counted(m, V, late) ==
    /\ \A t \in m.tx :
        /\ m.desc[t] = Sum(m, Known(m, V, late, t)) /\ Alike(m.anc[t], Sum(m, Seen(m, V, late, t)))
        /\ m.feeDelta[t] = m.mapDeltas[t]
    /\ \A t \in Tx \ m.tx : m.desc[t] = Nothing /\ m.anc[t] = Nothing

\* cachedDescendants has what is below those that had their round.
Cached(x, V, late) == \A c \in Tx : x.cache[c] # {} => c \in V \ late /\ x.cache[c] = Down(x.m, c) \ V

\* What is spent by those that are back is back, and has its round later.
Closed(m, V, late) ==
    /\ \A c \in V : \A p \in m.tx : Feeds(p, c) => p \in V
    /\ \A c \in late : \A p \in V : Feeds(p, c) => p \in late

\* Once every transaction that is back is linked to its children, the links
\* are the spends again, and the totals count all they link.
LEMMA UpdateFromBlockKeeps ==
    \A m \in Pools : \A v \in Seq(Tx) :
        /\ Range(v) \subseteq m.tx
        /\ Links(m, Range(v), Range(v))
        /\ Spent(m)
        /\ Exact(m)
        /\ Ordered(v)
        /\ \A c \in Range(v) : \A p \in m.tx : Feeds(p, c) => p \in Range(v)
        => LET r == UpdateTransactionsFromBlock(m, v)
           IN  /\ r \in Pools
               /\ r.tx = m.tx
               /\ Links(r, {}, {})
               /\ Spent(r)
               /\ Exact(r)
  \* UpdateLinks, field by field.
  <1>UpdateLinksIs.
      ASSUME NEW m \in Pools, NEW t \in Tx, NEW kids \in SUBSET Tx
      PROVE  Linked(m, t, kids, UpdateLinks(m, t, kids))
    <2> DEFINE r == UpdateLinks(m, t, kids)
               parents  == [u \in Tx |-> IF u \in kids THEN m.parents[u] \cup {t} ELSE m.parents[u]]
               children == [m.children EXCEPT ![t] = m.children[t] \cup kids]
    <2>1. m.parents \in [Tx -> SUBSET Tx] /\ m.children \in [Tx -> SUBSET Tx]
      BY PoolFields
    <2>2. parents \in [Tx -> SUBSET Tx] /\ \A u \in Tx : parents[u] = IF u \in kids THEN m.parents[u] \cup {t} ELSE m.parents[u]
      BY <2>1
    <2>3. children \in [Tx -> SUBSET Tx] /\ \A u \in Tx : children[u] = IF u = t THEN m.children[u] \cup kids ELSE m.children[u]
      BY <2>1
    <2>4. r = [m EXCEPT !.children = children, !.parents = parents]
      BY DEF UpdateLinks
    <2> HIDE DEF r, parents, children
    <2>5. r \in Pools /\ r.tx = m.tx /\ r.next = m.next /\ r.parents = parents /\ r.children = children
      BY <2>2, <2>3, <2>4 DEF Pools
    <2>6. r.desc = m.desc /\ r.anc = m.anc /\ r.feeDelta = m.feeDelta /\ r.mapDeltas = m.mapDeltas
      BY <2>4 DEF Pools
    <2>7. ASSUME NEW u \in Tx, NEW p \in Tx
          PROVE  /\ p \in r.parents[u] <=> p \in m.parents[u] \/ (p = t /\ u \in kids)
                 /\ u \in r.children[p] <=> u \in m.children[p] \/ (p = t /\ u \in kids)
      <3>1. r.parents[u] = IF u \in kids THEN m.parents[u] \cup {t} ELSE m.parents[u]
        BY <2>2, <2>5
      <3>2. r.children[p] = IF p = t THEN m.children[p] \cup kids ELSE m.children[p]
        BY <2>3, <2>5
      <3> QED  BY <3>1, <3>2
    <2>8. Linked(m, t, kids, r)
      BY <2>5, <2>6, <2>7 DEF Linked
    <2> QED  BY <2>8 DEF r
  \* What UpdateForDescendants finds are transactions.
  <1>BelowType.
      ASSUME NEW m \in Pools, NEW t \in Tx, NEW cache \in [Tx -> SUBSET Tx]
      PROVE  BelowCached(m, t, cache) \in SUBSET Tx
    <2> DEFINE link == [u \in Tx |-> {c \in m.children[u] : cache[c] = {}}]
               V    == Reach(link, m.children[t])
    <2>1. m.children \in [Tx -> SUBSET Tx]
      BY PoolFields
    <2>2. link \in [Tx -> SUBSET Tx] /\ m.children[t] \in SUBSET Tx
      BY <2>1
    <2> HIDE DEF link
    <2>3. V \in SUBSET Tx
      BY <2>2, ReachLeast, SMT
    <2>4. BelowCached(m, t, cache) = V \cup UNION {cache[c] : c \in UNION {m.children[v] : v \in V}}
      BY DEF BelowCached, link
    <2> HIDE DEF V
    <2>5. (UNION {m.children[v] : v \in V}) \in SUBSET Tx
      BY <2>1, <2>3
    <2>6. (UNION {cache[c] : c \in UNION {m.children[v] : v \in V}}) \in SUBSET Tx
      BY <2>5
    <2> QED  BY <2>3, <2>4, <2>6
  \* UpdateEntry, field by field: the links are those of UpdateLinks.
  <1>UpdateEntryIs.
      ASSUME NEW x \in Caches, NEW t \in Tx, t \in x.m.tx, NEW already,
             NEW kids \in SUBSET Tx, kids = NewChildren(x.m, t, already),
             NEW y, y = UpdateLinks(x.m, t, kids), NEW below, below = BelowCached(y, t, x.cache) \ already,
             NEW r, r = UpdateEntry(x, t, already)
      PROVE  r \in Caches /\ Updated(x, t, y, below, r)
    <2> USE <1>UpdateEntryIs
    <2> DEFINE anc   == [u \in Tx |-> IF u \in below THEN Plus(y.anc[u], Own(y, t)) ELSE y.anc[u]]
               more  == Plus(y.desc[t], Sum(y, below))
               desc  == [y.desc EXCEPT ![t] = more]
               cache == [x.cache EXCEPT ![t] = below]
               z     == [y EXCEPT !.anc = anc, !.desc = desc]
    <2>1. x.m \in Pools /\ x.cache \in [Tx -> SUBSET Tx]
      BY SMT DEF Caches
    <2>2. y \in Pools
      BY <2>1, <1>UpdateLinksIs DEF Linked
    <2>3. r = [m |-> z, cache |-> cache]
      BY DEF UpdateEntry
    <2>4. below \in SUBSET Tx
      BY <2>1, <2>2, <1>BelowType
    <2>5. y.anc \in [Tx -> Totals] /\ y.desc \in [Tx -> Totals]
      BY <2>2, PoolFields
    <2>6. Own(y, t) \in Totals /\ Sum(y, below) \in Totals
      BY <2>2, <2>4, TotalsType
    <2>7. anc \in [Tx -> Totals] /\ \A u \in Tx : anc[u] = IF u \in below THEN Plus(y.anc[u], Own(y, t)) ELSE y.anc[u]
      BY <2>5, <2>6, TotalsType
    <2>8. more \in Totals
      BY <2>5, <2>6, TotalsType
    <2> HIDE DEF more, anc
    <2>9. desc \in [Tx -> Totals] /\ \A u \in Tx : desc[u] = IF u = t THEN more ELSE y.desc[u]
      BY <2>5, <2>8
    <2>10. cache \in [Tx -> SUBSET Tx] /\ \A u \in Tx : cache[u] = IF u = t THEN below ELSE x.cache[u]
      BY <2>1, <2>4
    <2> HIDE DEF desc, cache
    <2>11. z \in Pools /\ z.tx = y.tx /\ z.next = y.next /\ z.parents = y.parents /\ z.children = y.children
      BY <2>2, <2>7, <2>9 DEF Pools
    <2>12. z.feeDelta = y.feeDelta /\ z.mapDeltas = y.mapDeltas /\ z.anc = anc /\ z.desc = desc
      BY <2>2 DEF Pools
    <2> HIDE DEF z
    <2>13. r \in Caches /\ r.m = z /\ r.cache = cache
      BY <2>3, <2>10, <2>11, SMT DEF Caches
    <2>14. \A u \in Tx : r.m.anc[u] = IF u \in below THEN Plus(y.anc[u], Own(y, t)) ELSE y.anc[u]
      BY <2>7, <2>12, <2>13
    <2>15. \A u \in Tx : r.m.desc[u] = IF u = t THEN Plus(y.desc[t], Sum(y, below)) ELSE y.desc[u]
      BY <2>9, <2>12, <2>13 DEF more
    <2>16. \A u \in Tx : r.cache[u] = IF u = t THEN below ELSE x.cache[u]
      BY <2>10, <2>13
    <2>17. Updated(x, t, y, below, r)
      BY <2>11, <2>12, <2>13, <2>14, <2>15, <2>16 DEF Updated
    <2> QED  BY <2>13, <2>17
  \* The new children of t are the entries that spend it and came before it.
  <1>NewChildrenAre.
      ASSUME NEW m \in Pools, NEW t \in Tx, NEW V, Spent(m)
      PROVE  /\ NewChildren(m, t, V) \in SUBSET Tx
             /\ \A u \in Tx : u \in NewChildren(m, t, V) <=> u \in m.tx /\ u \notin V /\ Feeds(t, u)
    <2> USE <1>NewChildrenAre
    <2> DEFINE kids == NewChildren(m, t, V)
    <2>1. m.tx \in SUBSET Tx /\ m.next \in [Outpoint -> Tx \cup {NoTx}] /\ NoTx \notin Tx
      BY PoolFields, TxAssumption
    <2>2. \A u \in Tx : u \in kids <=> u \in m.tx /\ u \notin V /\ Feeds(t, u)
      <3> TAKE u \in Tx
      <3>1. ASSUME u \in kids
            PROVE  u \in m.tx /\ u \notin V /\ Feeds(t, u)
        <4>1. PICK o \in Outputs(t) : m.next[o] = u /\ u # NoTx /\ u \notin V
          BY <3>1 DEF NewChildren
        <4>2. o \in Outpoint /\ o[1] = t
          BY OutpointTx
        <4> QED  BY <4>1, <4>2 DEF Spent, Feeds
      <3>2. ASSUME u \in m.tx, u \notin V, Feeds(t, u)
            PROVE  u \in kids
        <4>1. PICK o \in Spends[u] : o[1] = t
          BY <3>2 DEF Feeds
        <4>2. o \in Outputs(t) /\ m.next[o] = u /\ u # NoTx
          BY <2>1, <3>2, <4>1, SpendsTx, OutpointTx DEF Spent
        <4> QED  BY <3>2, <4>2 DEF NewChildren
      <3> QED  BY <3>1, <3>2
    <2>3. kids \in SUBSET Tx
      <3>1. \A o \in Outputs(t) : m.next[o] \in Tx \cup {NoTx}
        BY <2>1, OutpointTx
      <3> QED  BY <3>1 DEF NewChildren
    <2> QED  BY <2>2, <2>3
  \* The round for t links it to its children.
  <1>UpdateKeeps.
      ASSUME NEW x \in Caches, NEW V, NEW late, NEW t \in V, t \in x.m.tx,
             Links(x.m, V, late), Spent(x.m)
      PROVE  /\ UpdateEntry(x, t, V) \in Caches
             /\ UpdateEntry(x, t, V).m.tx = x.m.tx
             /\ Links(UpdateEntry(x, t, V).m, V, late \ {t})
             /\ Spent(UpdateEntry(x, t, V).m)
    <2> USE <1>UpdateKeeps
    <2> DEFINE m    == x.m
               kids == NewChildren(m, t, V)
               y    == UpdateLinks(m, t, kids)
               z    == UpdateEntry(x, t, V)
               r    == z.m
    <2>1. m \in Pools
      BY SMT DEF Caches
    <2>2. m.tx \in SUBSET Tx /\ m.next \in [Outpoint -> Tx \cup {NoTx}] /\ NoTx \notin Tx
      BY <2>1, PoolFields, TxAssumption
    <2>3. t \in Tx
      BY <2>2
    <2> HIDE DEF m
    <2>4. \A u \in Tx : u \in kids <=> u \in m.tx /\ u \notin V /\ Feeds(t, u)
      BY <2>1, <2>3, <1>NewChildrenAre DEF m
    <2>5. kids \in SUBSET Tx
      BY <2>1, <2>3, <1>NewChildrenAre DEF m
    <2> DEFINE below == BelowCached(y, t, x.cache) \ V
    <2>10. kids = NewChildren(x.m, t, V) /\ y = UpdateLinks(x.m, t, kids) /\ below = BelowCached(y, t, x.cache) \ V
           /\ z = UpdateEntry(x, t, V)
      BY DEF m
    <2> HIDE DEF kids, y, z, below
    <2>6. z \in Caches /\ Updated(x, t, y, below, z)
      BY <2>3, <2>5, <2>10, <1>UpdateEntryIs
    <2>11. r.tx = y.tx /\ r.next = y.next /\ r.parents = y.parents /\ r.children = y.children
      BY <2>6 DEF Updated
    <2>7. /\ y.tx = m.tx /\ y.next = m.next
          /\ \A u \in Tx : \A p \in Tx :
              /\ p \in y.parents[u] <=> p \in m.parents[u] \/ (p = t /\ u \in kids)
              /\ u \in y.children[p] <=> u \in m.children[p] \/ (p = t /\ u \in kids)
      <3>1. Linked(m, t, kids, y)
        BY <2>1, <2>3, <2>5, <2>10, <1>UpdateLinksIs DEF m
      <3> QED  BY <3>1 DEF Linked
    <2> HIDE DEF r
    <2>8. Links(r, V, late \ {t})
      <3> SUFFICES ASSUME NEW u \in Tx, NEW p \in Tx
                   PROVE  /\ p \in r.parents[u] <=>
                              u \in r.tx /\ p \in r.tx /\ Feeds(p, u) /\ (u \in V \/ p \notin late \ {t})
                          /\ u \in r.children[p] <=> p \in r.parents[u]
        BY DEF Links
      <3>1. /\ p \in m.parents[u] <=> u \in m.tx /\ p \in m.tx /\ Feeds(p, u) /\ (u \in V \/ p \notin late)
            /\ u \in m.children[p] <=> p \in m.parents[u]
        BY DEF Links, m
      <3>2. p \in r.parents[u] <=> p \in m.parents[u] \/ (p = t /\ u \in kids)
        BY <2>7, <2>11
      <3>3. u \in r.children[p] <=> u \in m.children[p] \/ (p = t /\ u \in kids)
        BY <2>7, <2>11
      <3>4. u \in kids <=> u \in m.tx /\ u \notin V /\ Feeds(t, u)
        BY <2>4
      <3>5. r.tx = m.tx
        BY <2>7, <2>11
      <3>6. CASE p = t
        <4>1. t \in m.tx
          BY DEF m
        <4> QED  BY <3>1, <3>2, <3>3, <3>4, <3>5, <3>6, <4>1
      <3>7. CASE p # t
        BY <3>1, <3>2, <3>3, <3>5, <3>7, ZenonT(40)
      <3> QED  BY <3>6, <3>7
    <2>9. Spent(r)
      <3>1. r.tx = m.tx /\ r.next = m.next
        BY <2>7, <2>11
      <3>2. Spent(m)
        BY DEF m
      <3>3. \A o \in Outpoint : r.next[o] # NoTx => r.next[o] \in r.tx /\ o \in Spends[r.next[o]]
        BY <3>1, <3>2 DEF Spent
      <3>4. ASSUME NEW u \in r.tx, NEW o \in Spends[u]
            PROVE  r.next[o] = u
        <4>1. u \in m.tx
          BY <3>1
        <4>2. m.next[o] = u
          BY <3>2, <4>1 DEF Spent
        <4> QED  BY <3>1, <4>2
      <3> QED  BY <3>3, <3>4 DEF Spent
    <2> QED  BY <2>6, <2>7, <2>8, <2>9, <2>11 DEF r, z, m
  \* What is not in V below t is found, when the cache has it for those of V it
  \* knows.
  <1>BelowIs.
      ASSUME NEW m \in Pools, NEW V, NEW t \in Tx, t \in V, NEW cache \in [Tx -> SUBSET Tx],
             Filled(m, V, cache)
      PROVE  BelowCached(m, t, cache) \ V = Down(m, t) \ V
    <2> USE <1>BelowIs DEF Filled
    <2> DEFINE link == [u \in Tx |-> {c \in m.children[u] : cache[c] = {}}]
               R    == Reach(link, m.children[t])
               D    == Down(m, t)
               B    == BelowCached(m, t, cache)
               C    == {u \in Tx : \/ u = t \/ u \in R
                                   \/ \E v \in R : \E c \in m.children[v] : cache[c] # {} /\ u \in Down(m, c)}
    <2>1. m.children \in [Tx -> SUBSET Tx]
      BY PoolFields
    <2>2. link \in [Tx -> SUBSET Tx] /\ m.children[t] \in SUBSET Tx
          /\ \A u \in Tx : \A c : c \in link[u] <=> c \in m.children[u] /\ cache[c] = {}
      BY <2>1
    <2> HIDE DEF link
    <2>3. /\ R \in SUBSET Tx /\ m.children[t] \subseteq R /\ \A v \in R : link[v] \subseteq R
          /\ \A S \in SUBSET Tx : m.children[t] \subseteq S /\ (\A v \in S : link[v] \subseteq S) => R \subseteq S
      BY <2>2, ReachLeast, SMT
    <2>4. \A u : u \in B <=> u \in R \/ \E v \in R : \E c \in m.children[v] : u \in cache[c]
      <3>1. B = R \cup UNION {cache[c] : c \in UNION {m.children[v] : v \in R}}
        BY DEF BelowCached, link
      <3> HIDE DEF B, R
      <3> QED  BY <3>1, SMT
    <2> HIDE DEF R, B
    <2>5. D \in SUBSET Tx /\ t \in D /\ \A p \in D : m.children[p] \subseteq D
      BY DownLeast
    <2>6. \A c \in D : Down(m, c) \subseteq D
      <3> HIDE DEF D
      <3> TAKE c \in D
      <3>1. c \in Tx
        BY <2>5
      <3> QED  BY <2>5, <3>1, DownLeast
    <2> HIDE DEF D
    <2>7. R \subseteq D
      <3>1. \A v \in D : link[v] \subseteq D
        BY <2>2, <2>5
      <3> QED  BY <2>3, <2>5, <3>1
    <2>8. B \ V \subseteq D \ V
      <3> SUFFICES ASSUME NEW u \in B, u \notin R
                   PROVE  u \in D
        BY <2>7
      <3>1. PICK v \in R : \E c \in m.children[v] : u \in cache[c]
        BY <2>4
      <3>2. PICK c \in m.children[v] : u \in cache[c]
        BY <3>1
      <3>3. v \in D /\ c \in D /\ c \in Tx
        BY <2>5, <2>7
      <3>4. u \in Down(m, c)
        BY <3>2, <3>3
      <3> QED  BY <2>6, <3>3, <3>4
    <2>9. D \subseteq C
      <3>1. C \in SUBSET Tx /\ t \in C
        OBVIOUS
      <3>2. ASSUME NEW p \in C, NEW w \in m.children[p]
            PROVE  w \in C
        <4>1. p \in Tx /\ w \in Tx
          BY <2>1, <3>2
        <4>2. CASE p = t
          BY <2>3, <3>2, <4>1, <4>2
        <4>3. CASE p \in R
          <5>1. CASE cache[w] = {}
            BY <2>2, <2>3, <3>2, <4>1, <4>3, <5>1
          <5>2. CASE cache[w] # {}
            <6>1. w \in Down(m, w)
              BY <4>1, DownLeast
            <6> QED  BY <3>2, <4>1, <4>3, <5>2, <6>1
          <5> QED  BY <5>1, <5>2
        <4>4. ASSUME NEW v \in R, NEW c \in m.children[v], cache[c] # {}, p \in Down(m, c)
              PROVE  w \in C
          <5>1. c \in Tx
            BY <2>1, <2>3, <4>4
          <5>2. w \in Down(m, c)
            BY <3>2, <4>4, <5>1, DownLeast
          <5> QED  BY <4>1, <4>4, <5>2
        <4> QED  BY <3>2, <4>2, <4>3, <4>4
      <3>3. \A p \in C : m.children[p] \subseteq C
        BY <3>2
      <3> HIDE DEF C
      <3> QED  BY <3>1, <3>3, DownLeast DEF D
    <2>10. D \ V \subseteq B \ V
      <3> SUFFICES ASSUME NEW u \in D, u \notin V, u \notin R
                   PROVE  u \in B
        BY <2>4
      <3>1. PICK v \in R : \E c \in m.children[v] : cache[c] # {} /\ u \in Down(m, c)
        BY <2>9
      <3>2. PICK c \in m.children[v] : cache[c] # {} /\ u \in Down(m, c)
        BY <3>1
      <3>3. c \in Tx
        BY <2>1, <2>3
      <3>4. u \in cache[c]
        BY <3>2, <3>3
      <3> QED  BY <2>4, <3>2, <3>4
    <2> QED  BY <2>8, <2>10 DEF B, D
  \* What linking t to children outside V changes, when all above what is in V
  \* is in V, and all above what is late is late.
  <1>UpdateReach.
      ASSUME NEW m \in Pools, NEW y \in Pools, Tied(m), Tied(y), NEW V \in SUBSET Tx, NEW late \in SUBSET V,
             NEW t \in late, NEW kids \in SUBSET Tx, kids \cap V = {},
             Grown(m, y, t, kids), Upward(m, V), Upward(m, late)
      PROVE  Farther(m, y, V, late, t)
    <2> USE <1>UpdateReach
    <2>1. m.children \in [Tx -> SUBSET Tx] /\ y.children \in [Tx -> SUBSET Tx] /\ t \in Tx
      BY PoolFields
    <2>2. \A p \in Tx : m.children[p] \subseteq y.children[p]
      BY <2>1 DEF Grown
    <2>3. \A p \in Tx \ {t} : y.children[p] \subseteq m.children[p]
      BY <2>1 DEF Grown
    <2>4. \A p \in Tx : \A c \in m.children[p] : c \in Tx /\ (c \in V => p \in V) /\ (c \in late => p \in late)
      <3> SUFFICES ASSUME NEW p \in Tx, NEW c \in m.children[p]
                   PROVE  c \in Tx /\ (c \in V => p \in V) /\ (c \in late => p \in late)
        OBVIOUS
      <3>1. c \in Tx
        BY <2>1
      <3>2. p \in m.parents[c]
        BY <3>1 DEF Tied
      <3> QED  BY <3>1, <3>2 DEF Upward
    <2>5. \A u \in Tx : Down(m, u) \subseteq Down(y, u)
      <3> TAKE u \in Tx
      <3> DEFINE C == Down(y, u)
      <3>1. C \in SUBSET Tx /\ u \in C /\ \A p \in C : y.children[p] \subseteq C
        BY DownLeast
      <3> HIDE DEF C
      <3>2. \A p \in C : m.children[p] \subseteq C
        BY <2>2, <3>1
      <3> QED  BY <3>1, <3>2, DownLeast, SMT DEF C
    <2>6. ASSUME NEW u \in Tx \ late
          PROVE  Down(y, u) = Down(m, u)
      <3> DEFINE C == Tx \ late
                 D == Down(m, u)
      <3>1. C \in SUBSET Tx /\ u \in C /\ u \in Tx /\ t \notin C
        BY <2>6
      <3>2. \A p \in C : m.children[p] \subseteq C
        BY <2>4
      <3>3. D \in SUBSET Tx /\ u \in D /\ \A p \in D : m.children[p] \subseteq D
        BY <3>1, DownLeast
      <3> HIDE DEF C
      <3>4. D \subseteq C
        BY <3>1, <3>2, DownLeast
      <3> HIDE DEF D
      <3>5. \A p \in D : y.children[p] \subseteq D
        BY <2>3, <3>1, <3>3, <3>4, SMT
      <3>6. Down(y, u) \subseteq D
        BY <3>1, <3>3, <3>5, DownLeast
      <3> QED  BY <2>5, <3>1, <3>6 DEF D
    <2>7. ASSUME NEW u \in Tx
          PROVE  Down(y, u) \cap V = Down(m, u) \cap V
      <3> DEFINE D == Down(m, u)
                 C == D \cup (Tx \ V)
      <3>1. D \in SUBSET Tx /\ u \in D /\ \A p \in D : m.children[p] \subseteq D
        BY DownLeast
      <3> HIDE DEF D
      <3>2. ASSUME NEW p \in C, NEW c \in y.children[p]
            PROVE  c \in C
        <4>1. p \in Tx /\ c \in Tx
          BY <2>1, <3>1, <3>2
        <4>2. c \in m.children[p] \/ c \in kids
          BY <3>2, <4>1 DEF Grown
        <4>3. CASE c \in kids
          BY <4>1, <4>3
        <4>4. CASE c \in m.children[p]
          BY <2>4, <3>1, <3>2, <4>1, <4>4
        <4> QED  BY <4>2, <4>3, <4>4
      <3>3. C \in SUBSET Tx /\ u \in C /\ C \cap V \subseteq D /\ \A p \in C : y.children[p] \subseteq C
        BY <3>1, <3>2
      <3> HIDE DEF C
      <3>4. Down(y, u) \subseteq C
        BY <3>3, DownLeast
      <3> QED  BY <2>5, <3>3, <3>4 DEF D
    <2>8. \A u \in Tx : Up(m, u) \in SUBSET Tx /\ Up(y, u) \in SUBSET Tx
      BY UpLeast
    <2>9. \A u \in Tx : \A w \in Tx : (u \in Down(m, w) <=> w \in Up(m, u)) /\ (u \in Down(y, w) <=> w \in Up(y, u))
      BY UpDown
    <2>10. ASSUME NEW u \in V
           PROVE  Up(y, u) = Up(m, u)
      <3>1. u \in Tx
        OBVIOUS
      <3>2. \A w \in Tx : w \in Up(y, u) <=> w \in Up(m, u)
        BY <2>7, <2>9, <3>1
      <3> QED  BY <2>8, <3>1, <3>2
    <2>11. ASSUME NEW u \in Tx
           PROVE  /\ \A w \in Tx \ late : w \in Up(y, u) <=> w \in Up(m, u)
                  /\ t \in Up(y, u) <=> u \in Down(y, t)
      BY <2>1, <2>6, <2>9
    <2>12. ASSUME NEW u \in Tx \ V, u \in Down(y, t)
           PROVE  Up(y, u) \ (late \ {t}) = (Up(m, u) \ late) \cup {t}
      BY <2>1, <2>8, <2>11, <2>12
    <2>13. ASSUME NEW u \in Tx \ V, u \notin Down(y, t)
           PROVE  Up(y, u) \ (late \ {t}) = Up(m, u) \ late
      BY <2>1, <2>8, <2>11, <2>13
    <2> QED  BY <2>6, <2>7, <2>10, <2>12, <2>13 DEF Farther
  \* The round for t counts what is below it.
  <1>UpdateCounts.
      ASSUME NEW x \in Caches, NEW V \in SUBSET x.m.tx, NEW late \in SUBSET V, NEW t \in late,
             Links(x.m, V, late), Spent(x.m), Counted(x.m, V, late), Cached(x, V, late), Closed(x.m, V, late)
      PROVE  Counted(UpdateEntry(x, t, V).m, V, late \ {t}) /\ Cached(UpdateEntry(x, t, V), V, late \ {t})
    <2> USE <1>UpdateCounts
    <2> DEFINE m     == x.m
               kids  == NewChildren(m, t, V)
               y     == UpdateLinks(m, t, kids)
               below == BelowCached(y, t, x.cache) \ V
               z     == UpdateEntry(x, t, V)
               r     == z.m
               L     == late \ {t}
    <2>1. m \in Pools /\ x.cache \in [Tx -> SUBSET Tx] /\ m.tx \in SUBSET Tx
      <3>1. m \in Pools /\ x.cache \in [Tx -> SUBSET Tx]
        BY SMT DEF Caches
      <3> QED  BY <3>1, PoolFields
    <2>2. V \in SUBSET Tx /\ t \in Tx /\ t \in V /\ t \in x.m.tx
      BY <2>1
    <2>3. kids \in SUBSET Tx /\ kids \cap V = {}
      BY <2>1, <2>2, <1>NewChildrenAre
    <2>4. z \in Caches /\ Links(z.m, V, L)
      BY <2>2, <1>UpdateKeeps
    <2>5. kids = NewChildren(x.m, t, V) /\ y = UpdateLinks(x.m, t, kids) /\ below = BelowCached(y, t, x.cache) \ V
          /\ z = UpdateEntry(x, t, V)
      OBVIOUS
    <2> HIDE DEF kids, y, z, below
    <2>6. /\ y \in Pools /\ y.tx = m.tx /\ y.desc = m.desc /\ y.anc = m.anc
          /\ y.feeDelta = m.feeDelta /\ y.mapDeltas = m.mapDeltas
          /\ Grown(m, y, t, kids)
      <3>1. Linked(m, t, kids, y)
        BY <2>1, <2>2, <2>3, <2>5, <1>UpdateLinksIs
      <3> QED  BY <3>1 DEF Linked, Grown
    <2>26. Updated(x, t, y, below, z)
      BY <2>2, <2>3, <2>5, <1>UpdateEntryIs
    <2>7. /\ z.m.tx = y.tx /\ z.m.parents = y.parents /\ z.m.children = y.children
          /\ z.m.feeDelta = y.feeDelta /\ z.m.mapDeltas = y.mapDeltas
      BY <2>26 DEF Updated
    <2>8. r \in Pools
      BY <2>4, SMTT(30) DEF Caches
    <2>9. Links(m, V, late) /\ Counted(m, V, late) /\ Closed(m, V, late)
          /\ \A c \in Tx : x.cache[c] # {} => c \in V \ late /\ x.cache[c] = Down(m, c) \ V
      BY DEF Cached
    <2> HIDE DEF m, L
    <2>10. Tied(m) /\ Tied(r)
      BY <2>4, <2>9, LinksTied
    <2> HIDE DEF r
    <2>11. /\ r.tx = m.tx /\ r.parents = y.parents /\ r.children = y.children
           /\ r.feeDelta = m.feeDelta /\ r.mapDeltas = m.mapDeltas /\ r.tx = y.tx
      BY <2>6, <2>7 DEF r
    <2>12. /\ \A u \in Tx : r.anc[u] = IF u \in below THEN Plus(m.anc[u], Own(y, t)) ELSE m.anc[u]
           /\ \A u \in Tx : r.desc[u] = IF u = t THEN Plus(m.desc[t], Sum(y, below)) ELSE m.desc[u]
      BY <2>6, <2>26 DEF r, Updated
    <2>13. Tied(y)
      BY <2>10, <2>11 DEF Tied
    <2>14. Upward(m, V) /\ Upward(m, late)
      <3>1. \A c \in V : \A p \in m.parents[c] : p \in m.tx /\ Feeds(p, c)
        <4> TAKE c \in V
        <4> TAKE p \in m.parents[c]
        <4>1. c \in Tx
          BY <2>2
        <4>2. p \in Tx
          BY <2>1, <4>1, PoolFields, SMT
        <4> QED  BY <2>9, <4>1, <4>2 DEF Links
      <3> QED  BY <2>9, <3>1 DEF Closed, Upward
    <2>15. /\ \A u \in Tx \ late : Down(r, u) = Down(m, u)
           /\ \A u \in Tx : Down(r, u) \cap V = Down(m, u) \cap V
           /\ \A u \in V : Up(r, u) = Up(m, u)
           /\ \A u \in Tx \ V : u \in Down(r, t) => Up(r, u) \ L = (Up(m, u) \ late) \cup {t}
           /\ \A u \in Tx \ V : u \notin Down(r, t) => Up(r, u) \ L = Up(m, u) \ late
      <3>1. Farther(m, y, V, late, t)
        BY <2>1, <2>2, <2>3, <2>6, <2>10, <2>13, <2>14, <1>UpdateReach
      <3>2. \A u : Down(r, u) = Down(y, u) /\ Up(r, u) = Up(y, u)
        BY <2>11, SameReach
      <3> QED  BY <3>1, <3>2, ZenonT(40) DEF L, Farther
    <2>16. below = Down(r, t) \ V
      <3>1. \A u : Down(r, u) = Down(y, u)
        BY <2>11, SameReach
      <3>2. Filled(y, V, x.cache)
        BY <2>9, <2>15, <3>1, ZenonT(40) DEF Filled
      <3>3. BelowCached(y, t, x.cache) \ V = Down(y, t) \ V
        <4>1. y \in Pools /\ t \in Tx /\ t \in V /\ x.cache \in [Tx -> SUBSET Tx]
          BY <2>1, <2>2, <2>6
        <4> QED  BY <3>2, <4>1, <1>BelowIs, ZenonT(40)
      <3> QED  BY <2>5, <3>1, <3>3
    <2>17. \A S \in SUBSET Tx : Sum(r, S) = Sum(m, S) /\ Sum(y, S) = Sum(m, S)
      <3> TAKE S \in SUBSET Tx
      <3> QED  BY <2>1, <2>6, <2>8, <2>11, SumSame, ZenonT(40)
    <2>18. Own(y, t) = Sum(m, {t})
      <3>1. Own(y, t) = Sum(y, {t})
        BY <2>2, <2>6, SumOne
      <3>2. {t} \in SUBSET Tx
        BY <2>2
      <3> QED  BY <2>17, <3>1, <3>2
    <2>19. /\ \A u \in Tx : Down(m, u) \in SUBSET Tx /\ Down(r, u) \in SUBSET Tx
           /\ \A u \in Tx : Up(m, u) \in SUBSET Tx /\ Up(r, u) \in SUBSET Tx
      BY <2>1, <2>8, DownLeast, UpLeast
    <2>20. /\ \A u \in m.tx : u \in late => m.desc[u] = Sum(m, Down(m, u) \cap V)
           /\ \A u \in m.tx : u \notin late => m.desc[u] = Sum(m, Down(m, u))
           /\ \A u \in m.tx : u \in V => Alike(m.anc[u], Sum(m, Up(m, u)))
           /\ \A u \in m.tx : u \notin V => Alike(m.anc[u], Sum(m, Up(m, u) \ late))
           /\ \A u \in m.tx : m.feeDelta[u] = m.mapDeltas[u]
           /\ \A u \in Tx \ m.tx : m.desc[u] = Nothing /\ m.anc[u] = Nothing
      BY <2>9 DEF Counted, Known, Seen
    <2>21. ASSUME NEW u \in m.tx
           PROVE  r.desc[u] = Sum(r, Known(r, V, L, u))
      <3>1. u \in Tx
        BY <2>1
      <3>2. CASE u = t
        <4> DEFINE D == Down(r, t)
                   A == D \cap V
                   B == D \ V
        <4>1. A \in SUBSET Tx /\ B \in SUBSET Tx /\ A \cap B = {} /\ D = A \cup B
          BY <2>2, <2>19
        <4>2. Known(r, V, L, u) = D
          BY <3>2 DEF Known, L
        <4>3. m.desc[t] = Sum(m, A)
          BY <2>15, <2>20, <3>1, <3>2
        <4>4. below = B
          BY <2>16
        <4> HIDE DEF D, A, B
        <4>5. Sum(m, D) = Plus(Sum(m, A), Sum(m, B))
          BY <2>1, <4>1, SumSplit
        <4>6. r.desc[t] = Plus(m.desc[t], Sum(y, B))
          BY <2>2, <2>12, <4>4
        <4>7. Sum(y, B) = Sum(m, B) /\ Sum(r, D) = Sum(m, D)
          BY <2>17, <4>1
        <4> QED  BY <3>2, <4>2, <4>3, <4>5, <4>6, <4>7
      <3>3. CASE u # t
        <4> DEFINE K == Known(r, V, L, u)
        <4>1. r.desc[u] = m.desc[u]
          BY <2>12, <3>1, <3>3
        <4>2. CASE u \in late
          <5>1. K = Down(m, u) \cap V
            BY <2>15, <3>1, <3>3, <4>2 DEF Known, L
          <5>2. K \in SUBSET Tx
            BY <2>19, <3>1, <5>1
          <5> HIDE DEF K
          <5>3. Sum(r, K) = Sum(m, K)
            BY <2>17, <5>2
          <5>4. m.desc[u] = Sum(m, K)
            BY <2>20, <4>2, <5>1
          <5> QED  BY <4>1, <5>3, <5>4 DEF K
        <4>3. CASE u \notin late
          <5>1. K = Down(m, u)
            BY <2>15, <3>1, <3>3, <4>3 DEF Known, L
          <5>2. K \in SUBSET Tx
            BY <2>19, <3>1, <5>1
          <5> HIDE DEF K
          <5>3. Sum(r, K) = Sum(m, K)
            BY <2>17, <5>2
          <5>4. m.desc[u] = Sum(m, K)
            BY <2>20, <4>3, <5>1
          <5> QED  BY <4>1, <5>3, <5>4 DEF K
        <4> QED  BY <4>2, <4>3
      <3> QED  BY <3>2, <3>3
    <2>22. ASSUME NEW u \in m.tx
           PROVE  Alike(r.anc[u], Sum(r, Seen(r, V, L, u)))
      <3> DEFINE S == Seen(r, V, L, u)
      <3>1. u \in Tx /\ m.anc[u] \in Totals
        BY <2>1, PoolFields
      <3>2. CASE u \in V
        <4>1. u \notin below
          BY <2>16, <3>2
        <4>2. r.anc[u] = m.anc[u]
          BY <2>12, <3>1, <4>1
        <4>3. S = Up(m, u)
          BY <2>15, <3>2 DEF Seen
        <4>4. S \in SUBSET Tx
          BY <2>19, <3>1, <4>3
        <4> HIDE DEF S
        <4>5. Sum(r, S) = Sum(m, S)
          BY <2>17, <4>4
        <4>6. Alike(m.anc[u], Sum(m, S))
          BY <2>20, <3>2, <4>3
        <4> QED  BY <4>2, <4>5, <4>6 DEF S
      <3>3. CASE u \notin V /\ u \in Down(r, t)
        <4> DEFINE A == Up(m, u) \ late
                   T == {t}
        <4>1. u \in below
          BY <2>16, <3>3
        <4>2. r.anc[u] = Plus(m.anc[u], Sum(m, T))
          BY <2>12, <2>18, <3>1, <4>1
        <4>3. S = A \cup T
          BY <2>15, <3>1, <3>3 DEF Seen
        <4>4. A \in SUBSET Tx /\ T \in SUBSET Tx /\ A \cap T = {}
          BY <2>2, <2>19, <3>1
        <4>5. S \in SUBSET Tx
          BY <4>3, <4>4
        <4>6. Alike(m.anc[u], Sum(m, A))
          BY <2>20, <3>3
        <4> HIDE DEF S, A, T
        <4>7. Sum(r, S) = Sum(m, S)
          BY <2>17, <4>5
        <4>8. Sum(m, S) = Plus(Sum(m, A), Sum(m, T))
          BY <2>1, <4>3, <4>4, SumSplit
        <4>9. Sum(m, A) \in Totals /\ Sum(m, T) \in Totals
          BY <2>1, <4>4, SumIs
        <4>10. Alike(Plus(m.anc[u], Sum(m, T)), Plus(Sum(m, A), Sum(m, T)))
          BY <3>1, <4>6, <4>9, AlikePlus
        <4> QED  BY <4>2, <4>7, <4>8, <4>10 DEF S
      <3>4. CASE u \notin V /\ u \notin Down(r, t)
        <4>1. u \notin below
          BY <2>16, <3>4
        <4>2. r.anc[u] = m.anc[u]
          BY <2>12, <3>1, <4>1
        <4>3. S = Up(m, u) \ late
          BY <2>15, <3>1, <3>4 DEF Seen
        <4>4. S \in SUBSET Tx
          BY <2>19, <3>1, <4>3
        <4> HIDE DEF S
        <4>5. Sum(r, S) = Sum(m, S)
          BY <2>17, <4>4
        <4>6. Alike(m.anc[u], Sum(m, S))
          BY <2>20, <3>4, <4>3
        <4> QED  BY <4>2, <4>5, <4>6 DEF S
      <3> QED  BY <3>2, <3>3, <3>4
    <2>23. ASSUME NEW u \in Tx \ m.tx
           PROVE  r.desc[u] = Nothing /\ r.anc[u] = Nothing
      <3> DEFINE C == m.tx
      <3>1. \A p \in C : r.children[p] \subseteq C
        <4> TAKE p \in C
        <4>1. p \in Tx
          BY <2>1
        <4>2. r.children[p] \in SUBSET Tx
          BY <2>8, <4>1, PoolFields
        <4> QED  BY <2>10, <2>11, <4>1, <4>2, ZenonT(40) DEF Tied
      <3>2. t \in C /\ C \in SUBSET Tx
        BY <2>1, <2>2 DEF m
      <3> HIDE DEF C
      <3>3. Down(r, t) \subseteq C
        BY <2>2, <2>8, <3>1, <3>2, DownLeast
      <3>4. u \notin below /\ u # t /\ u \in Tx
        BY <2>16, <2>23, <3>2, <3>3 DEF C
      <3> QED  BY <2>12, <2>20, <2>23, <3>4
    <2>24. Counted(r, V, L)
      BY <2>11, <2>20, <2>21, <2>22, <2>23 DEF Counted
    <2>25. Cached(z, V, L)
      <3> SUFFICES ASSUME NEW c \in Tx, z.cache[c] # {}
                   PROVE  c \in V \ L /\ z.cache[c] = Down(r, c) \ V
        BY DEF Cached, r
      <3>1. CASE c = t
        BY <2>2, <2>16, <2>26, <3>1 DEF L, Updated
      <3>2. CASE c # t
        <4>1. z.cache[c] = x.cache[c]
          BY <2>26, <3>2 DEF Updated
        <4>2. c \in V \ late /\ x.cache[c] = Down(m, c) \ V
          BY <2>9, <4>1
        <4> QED  BY <2>15, <4>1, <4>2 DEF L
      <3> QED  BY <3>1, <3>2
    <2> QED  BY <2>24, <2>25 DEF r, z, L
  \* Before the first round, what is linked is counted.
  <1>CountedStart.
      ASSUME NEW m \in Pools, NEW V \in SUBSET m.tx, Links(m, V, V), Exact(m)
      PROVE  Counted(m, V, V)
    <2> USE <1>CountedStart
    <2>1. m.tx \in SUBSET Tx /\ m.parents \in [Tx -> SUBSET Tx] /\ m.children \in [Tx -> SUBSET Tx]
      BY PoolFields
    <2>2. ASSUME NEW t \in V
          PROVE  Down(m, t) \cap V = Down(m, t)
      <3>1. t \in Tx /\ V \in SUBSET Tx
        BY <2>1
      <3>2. ASSUME NEW p \in V, NEW c \in m.children[p]
            PROVE  c \in V
        <4>1. p \in Tx /\ c \in Tx
          BY <2>1, <3>1
        <4> QED  BY <3>2, <4>1 DEF Links
      <3>3. Down(m, t) \subseteq V
        BY <3>1, <3>2, DownLeast
      <3> QED  BY <3>3
    <2>3. ASSUME NEW t \in m.tx, t \notin V
          PROVE  Up(m, t) \ V = Up(m, t)
      <3> DEFINE C == Tx \ V
      <3>1. t \in Tx /\ t \in C /\ C \in SUBSET Tx /\ C \cap V = {}
        BY <2>1, <2>3
      <3>2. ASSUME NEW u \in C, NEW p \in m.parents[u]
            PROVE  p \in C
        <4>1. p \in Tx /\ u \in Tx /\ u \notin V
          BY <2>1, <3>2
        <4> QED  BY <3>2, <4>1 DEF Links
      <3> HIDE DEF C
      <3>3. Up(m, t) \subseteq C
        BY <3>1, <3>2, UpLeast
      <3> QED  BY <3>1, <3>3
    <2>4. \A t \in m.tx : Known(m, V, V, t) = Down(m, t) /\ Seen(m, V, V, t) = Up(m, t)
      BY <2>2, <2>3 DEF Known, Seen
    <2> QED  BY <2>4 DEF Counted, Exact
  \* When none is late, everything is counted.
  <1>CountedEnd.
      ASSUME NEW m, NEW V, Counted(m, V, {})
      PROVE  Exact(m)
    <2> USE <1>CountedEnd
    <2>1. \A t : Known(m, V, {}, t) = Down(m, t) /\ Seen(m, V, {}, t) = Up(m, t)
      BY DEF Known, Seen
    <2> QED  BY <2>1 DEF Counted, Exact
  <1>UpdateFromBlockKeeps.
      ASSUME NEW m \in Pools, NEW v \in Seq(Tx), Range(v) \subseteq m.tx, Links(m, Range(v), Range(v)), Spent(m),
             Exact(m), Ordered(v), \A c \in Range(v) : \A p \in m.tx : Feeds(p, c) => p \in Range(v)
      PROVE  /\ UpdateTransactionsFromBlock(m, v) \in Pools
             /\ UpdateTransactionsFromBlock(m, v).tx = m.tx
             /\ Links(UpdateTransactionsFromBlock(m, v), {}, {})
             /\ Spent(UpdateTransactionsFromBlock(m, v))
             /\ Exact(UpdateTransactionsFromBlock(m, v))
    <2>0. Len(v) \in Nat /\ v \in [1 .. Len(v) -> Tx] /\ DOMAIN v = 1 .. Len(v)
      BY SMTT(30)
    <2> USE <1>UpdateFromBlockKeeps
    <2> DEFINE V == Range(v)
               L == Len(v)
               q == [i \in 1 .. L |-> v[L + 1 - i]]
               F == [t \in Tx |-> [x \in Caches |-> UpdateEntry(x, t, V)]]
               x0 == [m |-> m, cache |-> [t \in Tx |-> {}]]
               Late(n) == V \ {q[i] : i \in 1 .. n}
               Good(x, late) == /\ x.m.tx = m.tx /\ Links(x.m, V, late) /\ Spent(x.m)
                                /\ Counted(x.m, V, late) /\ Cached(x, V, late)
               I == [n \in 0 .. L |-> {x \in Caches : Good(x, Late(n))}]
    <2>1. L \in Nat /\ v \in [1 .. L -> Tx] /\ V = {v[i] : i \in 1 .. L}
      BY <2>0, ZenonT(40) DEF Range
    <2> HIDE DEF L, V
    <2>2. Len(q) = L /\ \A i \in 1 .. L : q[i] \in V /\ q[i] = v[L + 1 - i]
      <3>1. \A i \in 1 .. L : L + 1 - i \in 1 .. L
        BY <2>1, SMT
      <3>2. Len(q) = L
        BY <2>1, SMT
      <3> QED  BY <2>1, <3>1, <3>2
    <2>3. V \subseteq {q[i] : i \in 1 .. L}
      <3> SUFFICES ASSUME NEW j \in 1 .. L
                   PROVE  \E i \in 1 .. L : q[i] = v[j]
        BY <2>1
      <3>1. L + 1 - j \in 1 .. L /\ L + 1 - (L + 1 - j) = j
        BY <2>1, SMT
      <3>2. q[L + 1 - j] = v[L + 1 - (L + 1 - j)]
        BY <3>1
      <3> HIDE DEF q
      <3> QED  BY <3>1, <3>2
    <2>4. V \subseteq m.tx /\ V \in SUBSET Tx /\ Links(m, V, V)
      BY PoolFields DEF V
    <2>13. \A i \in 1 .. L : \A j \in 1 .. L : (v[i] = v[j] => i = j) /\ (i <= j => ~Feeds(v[j], v[i]))
      BY DEF Ordered, L
    <2> HIDE DEF q
    <2>14. ASSUME NEW n \in 1 .. L
           PROVE  q[n] \in Late(n - 1) /\ Closed(m, V, Late(n - 1))
      <3>1. q[n] \in Late(n - 1)
        <4> SUFFICES ASSUME NEW i \in 1 .. n - 1, q[i] = q[n]
                     PROVE  FALSE
          BY <2>2
        <4>1. i \in 1 .. L /\ L + 1 - i \in 1 .. L /\ L + 1 - n \in 1 .. L /\ L + 1 - i # L + 1 - n
          BY <2>1, SMT
        <4>2. v[L + 1 - i] = v[L + 1 - n]
          BY <2>2, <4>1
        <4> QED  BY <2>13, <4>1, <4>2
      <3>2. ASSUME NEW c \in Late(n - 1), NEW p \in V, Feeds(p, c), p \notin Late(n - 1)
            PROVE  FALSE
        <4>1. PICK i \in 1 .. n - 1 : p = q[i]
          BY <3>2
        <4>2. PICK j \in 1 .. L : c = v[j]
          BY <2>1, <3>2
        <4>3. i \in 1 .. L /\ L + 1 - i \in 1 .. L /\ L + 1 - j \in 1 .. L /\ L + 1 - (L + 1 - j) = j
          BY <2>1, SMT
        <4>4. q[L + 1 - j] = v[L + 1 - (L + 1 - j)]
          BY <2>2, <4>3
        <4>5. c = q[L + 1 - j]
          BY <4>2, <4>3, <4>4
        <4>6. L + 1 - j \notin 1 .. n - 1
          BY <3>2, <4>5
        <4>7. j <= L + 1 - i
          BY <2>1, <4>3, <4>6, SMT
        <4>8. p = v[L + 1 - i]
          BY <2>2, <4>1, <4>3
        <4> QED  BY <2>13, <3>2, <4>2, <4>3, <4>7, <4>8
      <3> HIDE DEF Late
      <3>3. \A c \in V : \A p \in m.tx : Feeds(p, c) => p \in V
        BY DEF V
      <3> QED  BY <3>1, <3>2, <3>3 DEF Closed
    <2>15. \A n : Late(n) \in SUBSET V
      OBVIOUS
    <2>5. x0 \in I[0]
      <3>1. 0 \in 0 .. L /\ 1 .. 0 = {}
        BY <2>1, SMT
      <3>2. Late(0) = V
        BY <3>1
      <3>3. I[0] = {x \in Caches : Good(x, V)}
        BY <3>1, <3>2
      <3>4. x0 \in Caches /\ x0.m = m /\ \A c \in Tx : x0.cache[c] = {}
        BY SMT DEF Caches
      <3> HIDE DEF I, x0
      <3>5. Counted(m, V, V)
        BY <2>4, <1>CountedStart
      <3>6. Cached(x0, V, V)
        BY <3>4 DEF Cached
      <3>7. Good(x0, V)
        BY <2>4, <3>4, <3>5, <3>6
      <3> HIDE DEF Good
      <3> QED  BY <3>3, <3>4, <3>7
    <2>6. ASSUME NEW n \in 1 .. Len(q), NEW x \in I[n - 1]
          PROVE  F[q[n]][x] \in I[n]
      <3>0. n \in 1 .. L
        BY <2>2
      <3>1. n - 1 \in 0 .. L /\ n \in 0 .. L /\ n \in 1 .. L /\ 1 .. n = (1 .. n - 1) \cup {n}
        BY <2>1, <3>0, SMT
      <3> HIDE DEF Good
      <3>2. x \in Caches /\ Good(x, Late(n - 1))
        BY <3>1
      <3> USE DEF Good
      <3> DEFINE t == q[n]
                 z == UpdateEntry(x, t, V)
      <3>3. t \in V /\ t \in x.m.tx /\ t \in Tx
        BY <2>2, <2>4, <3>1, <3>2
      <3>4. Late(n) = Late(n - 1) \ {t}
        BY <3>1
      <3> HIDE DEF Good
      <3>5. I[n] = {y \in Caches : Good(y, Late(n))}
        BY <3>1
      <3>8. t \in Late(n - 1) /\ Closed(m, V, Late(n - 1)) /\ Late(n - 1) \in SUBSET V
        BY <2>14, <2>15, <3>1
      <3> HIDE DEF Late, I, t
      <3>9. Closed(x.m, V, Late(n - 1)) /\ V \in SUBSET x.m.tx
        BY <2>4, <3>2, <3>8 DEF Closed, Good
      <3>10. Links(x.m, V, Late(n - 1)) /\ Spent(x.m) /\ Counted(x.m, V, Late(n - 1)) /\ Cached(x, V, Late(n - 1))
             /\ x.m.tx = m.tx
        BY <3>2 DEF Good
      <3>6. z \in Caches /\ z.m.tx = x.m.tx /\ Links(z.m, V, Late(n - 1) \ {t}) /\ Spent(z.m)
        BY <3>2, <3>3, <3>10, <1>UpdateKeeps
      <3>11. Counted(z.m, V, Late(n - 1) \ {t}) /\ Cached(z, V, Late(n - 1) \ {t})
        BY <3>2, <3>8, <3>9, <3>10, <1>UpdateCounts
      <3>7. F[t][x] = z
        BY <3>2, <3>3
      <3> HIDE DEF F, z
      <3>12. Good(z, Late(n))
        BY <3>4, <3>6, <3>10, <3>11 DEF Good
      <3> QED  BY <3>5, <3>6, <3>7, <3>12 DEF t
    <2>7. Run(F, x0, q) \in I[L]
      <3> HIDE DEF F, I, x0
      <3> QED  BY <2>1, <2>2, <2>5, <2>6, RunInduction
    <2>8. UpdateTransactionsFromBlock(m, v) = Run(F, x0, q).m
      BY DEF UpdateTransactionsFromBlock, Caches, q, L, V
    <2> DEFINE z == Run(F, x0, q)
    <2>9. z \in Caches /\ Good(z, Late(L))
      <3>1. L \in 0 .. L
        BY <2>1, SMT
      <3> HIDE DEF F, x0, Late, Good
      <3> QED  BY <2>7, <3>1
    <2>10. Late(L) = {}
      BY <2>3
    <2> HIDE DEF F, x0, Late, z
    <2>16. z.m.tx = m.tx /\ Links(z.m, V, {}) /\ Spent(z.m) /\ Counted(z.m, V, {})
      BY <2>9, <2>10
    <2>11. Links(z.m, {}, {}) /\ Exact(z.m)
      BY <2>16, <1>CountedEnd DEF Links
    <2>12. z.m \in Pools
      BY <2>9, SMT DEF Caches
    <2> QED  BY <2>8, <2>11, <2>12, <2>16 DEF z
  <1> QED  BY <1>UpdateFromBlockKeeps

-----------------------------------------------------------------------------
(* Prioritisation.                                                         *)

\* The totals do not depend on the deltas of what is not in the pool.
LEMMA DeltaExact ==
    ASSUME NEW m \in Pools, Exact(m), NEW r \in Pools, NEW t, t \notin m.tx, r.tx = m.tx, r.parents = m.parents,
           r.children = m.children, r.desc = m.desc, r.anc = m.anc, r.feeDelta = m.feeDelta,
           \A u \in Tx \ {t} : r.mapDeltas[u] = m.mapDeltas[u]
    PROVE  Exact(r)
  <1>1. \A u \in Tx : Down(r, u) = Down(m, u) /\ Up(r, u) = Up(m, u)
    BY DEF Down, Up, CalculateDescendants
  <1>2. \A A \in SUBSET Tx : Sum(r, A) = Sum(m, A)
    BY SumSame
  <1>3. m.tx \in SUBSET Tx
    BY PoolFields
  <1>4. ASSUME NEW u \in r.tx
        PROVE  /\ r.desc[u] = Sum(r, Down(r, u)) /\ Alike(r.anc[u], Sum(r, Up(r, u)))
               /\ r.feeDelta[u] = r.mapDeltas[u]
    <2>1. u \in m.tx /\ u \in Tx \ {t} /\ Down(m, u) \in SUBSET Tx /\ Up(m, u) \in SUBSET Tx
      BY <1>3, DownLeast, UpLeast
    <2>2. m.desc[u] = Sum(m, Down(m, u)) /\ Alike(m.anc[u], Sum(m, Up(m, u))) /\ m.feeDelta[u] = m.mapDeltas[u]
      BY <2>1 DEF Exact
    <2> QED  BY <1>1, <1>2, <2>1, <2>2
  <1>5. \A u \in Tx \ r.tx : r.desc[u] = Nothing /\ r.anc[u] = Nothing
    BY DEF Exact
  <1> QED  BY <1>4, <1>5 DEF Exact

\* The same totals with d more in fees.
More(a, d) == [a EXCEPT !.fee = a.fee + d]

\* prioritisetransaction touches fees only, and those of the totals with them.
LEMMA PrioritiseKeeps ==
    \A t \in Tx : \A d \in Int :
        pool \in Pools /\ Tied(pool) /\ Exact(pool) /\ PrioritiseTransaction(t, d)
        => /\ pool' \in Pools
           /\ pool'.tx = pool.tx
           /\ pool'.next = pool.next
           /\ pool'.parents = pool.parents
           /\ pool'.children = pool.children
           /\ Exact(pool')
  \* Only the fees differ.
  <1>MoreIs.
      ASSUME NEW a \in Totals, NEW d \in Int
      PROVE  /\ More(a, d) \in Totals
             /\ Alike(More(a, d), a)
             /\ More(a, d).fee = a.fee + d
             /\ \A c \in Totals : Alike(More(a, d), c) <=> Alike(a, c)
             /\ \A c \in Totals : More(Plus(c, a), d) = Plus(c, More(a, d))
    <2>1. More(a, d) \in Totals /\ Alike(More(a, d), a) /\ More(a, d).fee = a.fee + d
      BY SMT DEF Totals, More, Alike
    <2>2. \A c \in Totals : Alike(More(a, d), c) <=> Alike(a, c)
      BY <2>1 DEF Alike
    <2>3. \A c \in Totals : More(Plus(c, a), d) = Plus(c, More(a, d))
      BY SMT DEF Totals, More, Plus
    <2> QED  BY <2>1, <2>2, <2>3
  \* The totals when t has d more in fees, and so have those above it.
  <1>MoreExact.
      ASSUME NEW m \in Pools, NEW r \in Pools, Tied(m), Exact(m), NEW t \in m.tx, NEW d \in Int,
             r.tx = m.tx, r.parents = m.parents, r.children = m.children,
             \A u \in Tx : r.feeDelta[u] = IF u = t THEN m.mapDeltas[t] + d ELSE m.feeDelta[u],
             \A u \in Tx : r.mapDeltas[u] = IF u = t THEN m.mapDeltas[t] + d ELSE m.mapDeltas[u],
             \A u \in Tx : r.anc[u] = IF u = t THEN More(m.anc[t], d) ELSE m.anc[u],
             \A u \in Tx : r.desc[u] = IF u \in Up(m, t) THEN More(m.desc[u], d) ELSE m.desc[u]
      PROVE  Exact(r)
    <2> USE <1>MoreExact
    <2>1. m.tx \in SUBSET Tx /\ m.parents \in [Tx -> SUBSET Tx] /\ m.anc \in [Tx -> Totals] /\ m.desc \in [Tx -> Totals]
          /\ m.mapDeltas \in [Tx -> Int] /\ m.feeDelta \in [Tx -> Int]
      BY PoolFields
    <2>2. t \in Tx
      BY <2>1, ZenonT(40)
    <2>3. \A u \in Tx : /\ Down(r, u) = Down(m, u) /\ Up(r, u) = Up(m, u)
                        /\ Down(m, u) \in SUBSET Tx /\ Up(m, u) \in SUBSET Tx
      <3> TAKE u \in Tx
      <3>1. Down(r, u) = Down(m, u) /\ Up(r, u) = Up(m, u)
        BY SameReach, ZenonT(40)
      <3>2. Down(m, u) \in SUBSET Tx
        BY DownLeast, ZenonT(40)
      <3>3. Up(m, u) \in SUBSET Tx
        BY UpLeast, ZenonT(40)
      <3> QED  BY <3>1, <3>2, <3>3
    <2>4. Up(m, t) \subseteq m.tx
      <3> DEFINE C == m.tx
      <3>1. \A u \in C : m.parents[u] \subseteq C
        BY <2>1 DEF Tied
      <3>2. C \in SUBSET Tx /\ t \in C
        BY <2>1
      <3> HIDE DEF C
      <3>3. Up(m, t) \subseteq C
        BY <2>2, <3>1, <3>2, UpLeast
      <3> QED  BY <3>3 DEF C
    <2>5. Own(r, t) = More(Own(m, t), d)
      <3> DEFINE a == Own(m, t)
                 c == Own(r, t)
      <3>1. a \in Totals /\ c \in Totals
        BY <2>2, TotalsType
      <3>2. a.n = 1 /\ c.n = 1 /\ a.size = Size[t] /\ c.size = Size[t]
            /\ a.fee = Fee[t] + m.feeDelta[t] /\ c.fee = Fee[t] + r.feeDelta[t]
        BY DEF Own, ModifiedFee
      <3>3. r.feeDelta[t] = m.feeDelta[t] + d /\ m.feeDelta[t] \in Int /\ Fee[t] \in Int
        BY <2>1, <2>2, TxAssumption DEF Exact
      <3> HIDE DEF a, c
      <3>4. c.fee = a.fee + d
        BY <3>2, <3>3, SMT
      <3>5. More(a, d) \in Totals /\ More(a, d).n = a.n /\ More(a, d).size = a.size /\ More(a, d).fee = a.fee + d
        BY <3>1, <1>MoreIs, ZenonT(40) DEF Alike
      <3>6. c = More(a, d)
        BY <3>1, <3>2, <3>4, <3>5, TotalsEqual, SMT
      <3> QED  BY <3>6 DEF a, c
    <2>6. ASSUME NEW D \in SUBSET Tx, t \notin D
          PROVE  Sum(r, D) = Sum(m, D)
      <3>1. \A u \in D : r.feeDelta[u] = m.feeDelta[u]
        BY <2>6
      <3> QED  BY <3>1, SumSame
    <2>7. ASSUME NEW D \in SUBSET Tx, t \in D
          PROVE  Sum(r, D) = More(Sum(m, D), d)
      <3> DEFINE A == D \ {t}
                 B == {t}
      <3>1. A \in SUBSET Tx /\ B \in SUBSET Tx /\ A \cap B = {} /\ D = A \cup B /\ t \notin A
        BY <2>2, <2>7
      <3>2. Sum(r, B) = Own(r, t) /\ Sum(m, B) = Own(m, t)
        BY <2>2, SumOne
      <3> HIDE DEF A, B
      <3>3. Sum(r, D) = Plus(Sum(r, A), Sum(r, B)) /\ Sum(m, D) = Plus(Sum(m, A), Sum(m, B))
        BY <3>1, SumSplit
      <3>4. Sum(r, A) = Sum(m, A)
        BY <2>6, <3>1
      <3>5. Sum(m, A) \in Totals /\ Sum(m, B) \in Totals
        BY <3>1, SumIs
      <3>6. More(Plus(Sum(m, A), Sum(m, B)), d) = Plus(Sum(m, A), More(Sum(m, B), d))
        BY <3>5, <1>MoreIs
      <3>7. Sum(r, B) = More(Sum(m, B), d)
        BY <2>5, <3>2
      <3> QED  BY <3>3, <3>4, <3>6, <3>7
    <2>8. ASSUME NEW u \in m.tx
          PROVE  r.desc[u] = Sum(r, Down(r, u))
      <3> DEFINE D == Down(m, u)
      <3>1. u \in Tx /\ D \in SUBSET Tx /\ Down(r, u) = D
        BY <2>1, <2>3
      <3>2. m.desc[u] = Sum(m, D)
        BY DEF Exact
      <3>3. t \in D <=> u \in Up(m, t)
        BY <2>2, <3>1, UpDown
      <3> HIDE DEF D
      <3>4. CASE t \in D
        BY <2>7, <3>1, <3>2, <3>3, <3>4, ZenonT(40)
      <3>5. CASE t \notin D
        BY <2>6, <3>1, <3>2, <3>3, <3>5
      <3> QED  BY <3>4, <3>5
    <2>9. ASSUME NEW u \in m.tx
          PROVE  Alike(r.anc[u], Sum(r, Up(r, u)))
      <3> DEFINE U == Up(m, u)
      <3>1. u \in Tx /\ U \in SUBSET Tx /\ Up(r, u) = U /\ m.anc[u] \in Totals
        BY <2>1, <2>3
      <3>2. Alike(m.anc[u], Sum(m, U))
        BY DEF Exact
      <3> HIDE DEF U
      <3>3. Sum(r, U) \in Totals /\ Sum(m, U) \in Totals /\ Sum(r, U).n = Sum(m, U).n /\ Sum(r, U).size = Sum(m, U).size
        BY <3>1, SumIs, ZenonT(40)
      <3>4. Alike(m.anc[u], Sum(r, U))
        BY <3>2, <3>3 DEF Alike
      <3>5. Alike(More(m.anc[u], d), Sum(r, U))
        BY <3>1, <3>3, <3>4, <1>MoreIs
      <3> QED  BY <3>1, <3>4, <3>5
    <2>10. ASSUME NEW u \in m.tx
           PROVE  r.feeDelta[u] = r.mapDeltas[u]
      BY <2>1 DEF Exact
    <2>11. ASSUME NEW u \in Tx \ m.tx
           PROVE  r.desc[u] = Nothing /\ r.anc[u] = Nothing
      <3>1. u \notin Up(m, t) /\ u # t /\ u \in Tx
        BY <2>4, <2>11
      <3> QED  BY <2>11, <3>1 DEF Exact
    <2> QED  BY <2>8, <2>9, <2>10, <2>11 DEF Exact
  <1>PrioritiseKeeps.
      ASSUME pool \in Pools, Tied(pool), Exact(pool), NEW t \in Tx, NEW d \in Int, PrioritiseTransaction(t, d)
      PROVE  /\ pool' \in Pools
             /\ pool'.tx = pool.tx
             /\ pool'.next = pool.next
             /\ pool'.parents = pool.parents
             /\ pool'.children = pool.children
             /\ Exact(pool')
    <2> USE <1>PrioritiseKeeps
    <2> DEFINE new    == pool.mapDeltas[t] + d
               deltas == [pool.mapDeltas EXCEPT ![t] = new]
               m      == [pool EXCEPT !.mapDeltas = deltas]
               fees   == [m.feeDelta EXCEPT ![t] = new]
               more   == More(m.anc[t], d)
               anc    == [m.anc EXCEPT ![t] = more]
               desc   == [u \in Tx |-> IF u \in FeeGoesTo(m, t) THEN More(m.desc[u], d) ELSE m.desc[u]]
               r      == [m EXCEPT !.feeDelta = fees, !.anc = anc, !.desc = desc]
    <2>1. pool.mapDeltas \in [Tx -> Int]
      BY PoolFields
    <2>2. new \in Int
      BY <2>1, SMT
    <2> HIDE DEF new
    <2>3. deltas \in [Tx -> Int] /\ \A u \in Tx : deltas[u] = IF u = t THEN new ELSE pool.mapDeltas[u]
      BY <2>1, <2>2
    <2>4. pool' = IF t \notin pool.tx THEN m ELSE r
      BY DEF PrioritiseTransaction, new, More
    <2> HIDE DEF deltas
    <2>5. m \in Pools /\ m.tx = pool.tx /\ m.next = pool.next /\ m.parents = pool.parents /\ m.children = pool.children
      BY <2>3 DEF Pools
    <2>6. m.desc = pool.desc /\ m.anc = pool.anc /\ m.feeDelta = pool.feeDelta /\ m.mapDeltas = deltas
      BY <2>3 DEF Pools
    <2> HIDE DEF m
    <2>7. m.feeDelta \in [Tx -> Int] /\ m.anc \in [Tx -> Totals] /\ m.desc \in [Tx -> Totals]
      BY <2>5, PoolFields
    <2>8. fees \in [Tx -> Int] /\ \A u \in Tx : fees[u] = IF u = t THEN new ELSE m.feeDelta[u]
      BY <2>2, <2>7
    <2>9. more \in Totals
      BY <2>7, <1>MoreIs
    <2> HIDE DEF more
    <2>10. anc \in [Tx -> Totals] /\ \A u \in Tx : anc[u] = IF u = t THEN more ELSE m.anc[u]
      BY <2>7, <2>9
    <2>11. desc \in [Tx -> Totals]
           /\ \A u \in Tx : desc[u] = IF u \in FeeGoesTo(m, t) THEN More(m.desc[u], d) ELSE m.desc[u]
      BY <2>7, <1>MoreIs
    <2> HIDE DEF fees, anc, desc
    <2>12. r \in Pools /\ r.tx = m.tx /\ r.next = m.next /\ r.parents = m.parents /\ r.children = m.children
      BY <2>5, <2>8, <2>10, <2>11 DEF Pools
    <2>13. r.feeDelta = fees /\ r.anc = anc /\ r.desc = desc /\ r.mapDeltas = m.mapDeltas
      BY <2>5 DEF Pools
    <2> HIDE DEF r
    <2>14. CASE t \notin pool.tx
      <3>1. \A u \in Tx \ {t} : m.mapDeltas[u] = pool.mapDeltas[u]
        BY <2>3, <2>6
      <3>2. Exact(m)
        BY <2>5, <2>6, <2>14, <3>1, DeltaExact
      <3>3. pool' = m
        BY <2>4, <2>14
      <3> QED  BY <2>5, <3>2, <3>3
    <2>15. CASE t \in pool.tx
      <3>1. FeeGoesTo(m, t) = Up(pool, t)
        BY <2>5, UpIs, SameReach, SMT DEF FeeGoesTo
      <3>2. /\ \A u \in Tx : r.feeDelta[u] = IF u = t THEN pool.mapDeltas[t] + d ELSE pool.feeDelta[u]
            /\ \A u \in Tx : r.mapDeltas[u] = IF u = t THEN pool.mapDeltas[t] + d ELSE pool.mapDeltas[u]
        BY <2>3, <2>6, <2>8, <2>13 DEF new
      <3>3. /\ \A u \in Tx : r.anc[u] = IF u = t THEN More(pool.anc[t], d) ELSE pool.anc[u]
            /\ \A u \in Tx : r.desc[u] = IF u \in Up(pool, t) THEN More(pool.desc[u], d) ELSE pool.desc[u]
        BY <2>6, <2>10, <2>11, <2>13, <3>1 DEF more
      <3>4. r.tx = pool.tx /\ r.parents = pool.parents /\ r.children = pool.children /\ r.next = pool.next
        BY <2>5, <2>12
      <3>5. Exact(r)
        BY <2>12, <2>15, <3>2, <3>3, <3>4, <1>MoreExact
      <3>6. pool' = r
        BY <2>4, <2>15
      <3> QED  BY <2>12, <3>4, <3>5, <3>6
    <2> QED  BY <2>14, <2>15
  <1> QED  BY <1>PrioritiseKeeps

\* ClearPrioritisation touches mapDeltas only.
LEMMA ClearKeeps ==
    ASSUME NEW m \in Pools, NEW t \in Tx
    PROVE  LET r == ClearPrioritisation(m, t)
           IN  /\ r \in Pools
               /\ r.tx = m.tx
               /\ r.next = m.next
               /\ r.parents = m.parents
               /\ r.children = m.children
  <1>1. m.mapDeltas \in [Tx -> Int]
    BY PoolFields
  <1>2. [m.mapDeltas EXCEPT ![t] = 0] \in [Tx -> Int]
    BY <1>1, SMT
  <1> QED  BY <1>1, <1>2, SMTT(60) DEF ClearPrioritisation, Pools

\* The totals stay exact, unless t is an entry.
LEMMA ClearExact ==
    ASSUME NEW m \in Pools, Exact(m), NEW t \in Tx, t \notin m.tx
    PROVE  Exact(ClearPrioritisation(m, t))
  <1> DEFINE r == ClearPrioritisation(m, t)
             deltas == [m.mapDeltas EXCEPT ![t] = 0]
  <1>1. m.mapDeltas \in [Tx -> Int]
    BY PoolFields
  <1>2. \A u \in Tx \ {t} : deltas[u] = m.mapDeltas[u]
    BY <1>1
  <1>3. r = [m EXCEPT !.mapDeltas = deltas]
    BY DEF ClearPrioritisation
  <1>4. r \in Pools /\ r.tx = m.tx /\ r.parents = m.parents /\ r.children = m.children
    BY ClearKeeps
  <1> HIDE DEF r, deltas
  <1>5. r.desc = m.desc /\ r.anc = m.anc /\ r.feeDelta = m.feeDelta /\ r.mapDeltas = deltas
    BY <1>3 DEF Pools
  <1>6. Exact(r)
    BY <1>2, <1>4, <1>5, DeltaExact
  <1> QED  BY <1>6 DEF r

-----------------------------------------------------------------------------
(* What is removed.                                                        *)

\* What is added can be taken away.
LEMMA PlusMinus ==
    ASSUME NEW a \in Totals, NEW c \in Totals
    PROVE  Minus(Plus(a, c), c) = a /\ Minus(a, Nothing) = a /\ Plus(a, c) = Plus(c, a)
  BY SMT DEF Totals, Plus, Minus, Nothing

\* r is what m becomes when S leaves: the links of what stays are cut on both
\* sides.
Left(m, S, r) ==
    /\ r \in Pools /\ r.tx = m.tx \ S
    /\ \A o \in Outpoint : r.next[o] = IF m.next[o] \in S THEN NoTx ELSE m.next[o]
    /\ \A t \in Tx : \A p \in Tx :
        /\ p \in r.parents[t] <=> t \notin S /\ p \in m.parents[t] /\ ~(p \in S /\ t \in m.children[p])
        /\ t \in r.children[p] <=> p \notin S /\ t \in m.children[p] /\ ~(t \in S /\ p \in m.parents[t])

\* What RemoveStaged leaves of the pool.
LEMMA RemoveStagedIs ==
    ASSUME NEW m \in Pools, NEW S \in SUBSET Tx, NEW u
    PROVE  Left(m, S, RemoveStaged(m, S, u))
  <1> DEFINE anc      == LessRemoved(m, S, u)
             above    == [r \in S |-> Ancestors(m, r)]
             desc     == [t \in Tx |-> Minus(m.desc[t], Sum(m, {r \in S : t \in above[r]}))]
             children == [t \in Tx |-> m.children[t] \ {r \in S : t \in m.parents[r]}]
             parents  == [t \in Tx |-> m.parents[t] \ {r \in S : t \in children[r]}]
             Keep(f, none) == [t \in Tx |-> IF t \in S THEN none ELSE f[t]]
             next == [o \in Outpoint |-> IF m.next[o] \in S THEN NoTx ELSE m.next[o]]
             Tot(R) == Sum(m, R)
  <1>1. m.tx \in SUBSET Tx /\ m.next \in [Outpoint -> Tx \cup {NoTx}]
           /\ m.parents \in [Tx -> SUBSET Tx] /\ m.children \in [Tx -> SUBSET Tx]
           /\ m.desc \in [Tx -> Totals] /\ m.anc \in [Tx -> Totals]
           /\ m.feeDelta \in [Tx -> Int] /\ m.mapDeltas \in [Tx -> Int]
    BY PoolFields
  <1>2. Keep(desc, Nothing) \in [Tx -> Totals]
    <2>1. ASSUME NEW t \in Tx  PROVE  Sum(m, {r \in S : t \in above[r]}) \in Totals
      <3> DEFINE R == {r \in S : t \in above[r]}
      <3>1. R \in SUBSET Tx
        OBVIOUS
      <3> HIDE DEF R
      <3>2. Sum(m, R) \in Totals
        BY <3>1, TotalsType
      <3> QED  BY <3>2 DEF R
    <2> HIDE DEF above
    <2> QED  BY <1>1, <2>1, TotalsType
  <1>3. Keep(anc, Nothing) \in [Tx -> Totals]
    <2> DEFINE below == [r \in S |-> CalculateDescendants(m, {r}) \ {r}]
    <2>1. ASSUME NEW t \in Tx  PROVE  Sum(m, {r \in S : t \in below[r]}) \in Totals
      <3> DEFINE R == {r \in S : t \in below[r]}
      <3>1. R \in SUBSET Tx
        OBVIOUS
      <3> HIDE DEF R
      <3>2. Sum(m, R) \in Totals
        BY <3>1, TotalsType
      <3> QED  BY <3>2 DEF R
    <2>2. anc \in [Tx -> Totals]
      <3>1. CASE u
        <4>1. anc = [t \in Tx |-> Minus(m.anc[t], Sum(m, {r \in S : t \in below[r]}))]
          BY <3>1 DEF LessRemoved
        <4> HIDE DEF below, anc
        <4> QED  BY <1>1, <2>1, <4>1, TotalsType
      <3>2. CASE ~u
        <4>1. anc = m.anc
          BY <3>2 DEF LessRemoved
        <4> QED  BY <1>1, <4>1
      <3> QED  BY <3>1, <3>2
    <2> HIDE DEF anc
    <2> QED  BY <2>2, TotalsType
  <1>4. Keep(children, {}) \in [Tx -> SUBSET Tx] /\ Keep(parents, {}) \in [Tx -> SUBSET Tx]
    BY <1>1
  <1>5. Keep(m.feeDelta, 0) \in [Tx -> Int]
    BY <1>1, SMT
  <1>6. next \in [Outpoint -> Tx \cup {NoTx}] /\ m.tx \ S \in SUBSET Tx
    BY <1>1
  <1>7. RemoveStaged(m, S, u) =
            [tx |-> m.tx \ S, next |-> next, parents |-> Keep(parents, {}), children |-> Keep(children, {}),
             desc |-> Keep(desc, Nothing), anc |-> Keep(anc, Nothing),
             feeDelta |-> Keep(m.feeDelta, 0), mapDeltas |-> m.mapDeltas]
    BY ZenonT(40) DEF RemoveStaged
  <1> HIDE DEF next, Keep, desc, anc
  <1>8. /\ RemoveStaged(m, S, u) \in Pools /\ RemoveStaged(m, S, u).tx = m.tx \ S
        /\ RemoveStaged(m, S, u).next = next
        /\ RemoveStaged(m, S, u).parents = Keep(parents, {})
        /\ RemoveStaged(m, S, u).children = Keep(children, {})
    <2> HIDE DEF children, parents
    <2> DEFINE r == RemoveStaged(m, S, u)
    <2>1. /\ r.tx = m.tx \ S /\ r.next = next /\ r.parents = Keep(parents, {}) /\ r.children = Keep(children, {})
          /\ r.desc = Keep(desc, Nothing) /\ r.anc = Keep(anc, Nothing)
          /\ r.feeDelta = Keep(m.feeDelta, 0) /\ r.mapDeltas = m.mapDeltas
      <3>1. r = [tx |-> m.tx \ S, next |-> next, parents |-> Keep(parents, {}), children |-> Keep(children, {}),
                 desc |-> Keep(desc, Nothing), anc |-> Keep(anc, Nothing),
                 feeDelta |-> Keep(m.feeDelta, 0), mapDeltas |-> m.mapDeltas]
        BY <1>7
      <3> HIDE DEF r
      <3> QED  BY <3>1
    <2>2. r = [tx |-> r.tx, next |-> r.next, parents |-> r.parents, children |-> r.children,
               desc |-> r.desc, anc |-> r.anc, feeDelta |-> r.feeDelta, mapDeltas |-> r.mapDeltas]
      BY <1>7, <2>1
    <2> HIDE DEF r
    <2>3. r \in Pools
      BY <1>1, <1>2, <1>3, <1>4, <1>5, <1>6, <2>1, <2>2, PoolOf
    <2> QED  BY <2>1, <2>3 DEF r
  <1>9. \A o \in Outpoint : next[o] = IF m.next[o] \in S THEN NoTx ELSE m.next[o]
    BY DEF next
  <1>10. \A t \in Tx : \A p \in Tx : t \in children[p] <=> t \in m.children[p] /\ ~(t \in S /\ p \in m.parents[t])
    OBVIOUS
  <1> HIDE DEF children
  <1>11. \A t \in Tx : \A p \in Tx : p \in parents[t] <=> p \in m.parents[t] /\ ~(p \in S /\ t \in children[p])
    OBVIOUS
  <1> HIDE DEF parents
  <1>12. \A t \in Tx : /\ Keep(parents, {})[t] = IF t \in S THEN {} ELSE parents[t]
                       /\ Keep(children, {})[t] = IF t \in S THEN {} ELSE children[t]
    BY DEF Keep
  <1>13. \A t \in Tx : \A p \in Tx :
            /\ p \in Keep(parents, {})[t] <=>
                t \notin S /\ p \in m.parents[t] /\ ~(p \in S /\ t \in m.children[p])
            /\ t \in Keep(children, {})[p] <=>
                p \notin S /\ t \in m.children[p] /\ ~(t \in S /\ p \in m.parents[t])
    BY <1>10, <1>11, <1>12
  <1> QED  BY <1>8, <1>9, <1>13 DEF Left

\* RemoveStaged removes S and nothing else.
LEMMA RemoveStagedTx ==
    ASSUME NEW m \in Pools, NEW S \in SUBSET Tx, NEW u
    PROVE  RemoveStaged(m, S, u) \in Pools /\ RemoveStaged(m, S, u).tx = m.tx \ S
  <1> DEFINE r == RemoveStaged(m, S, u)
  <1>1. Left(m, S, r)
    BY RemoveStagedIs
  <1> HIDE DEF r
  <1>2. r \in Pools /\ r.tx = m.tx \ S
    BY <1>1 DEF Left
  <1> QED  BY <1>2 DEF r

\* The links of what stays are cut on both sides.
LEMMA RemoveKeepsLinks ==
    ASSUME NEW m \in Pools, NEW S \in SUBSET Tx, NEW u, NEW new, NEW late,
           Links(m, new, late), Spent(m)
    PROVE  Links(RemoveStaged(m, S, u), new, late) /\ Spent(RemoveStaged(m, S, u))
  <1> DEFINE r == RemoveStaged(m, S, u)
  <1>1. /\ r \in Pools /\ r.tx = m.tx \ S
        /\ \A o \in Outpoint : r.next[o] = IF m.next[o] \in S THEN NoTx ELSE m.next[o]
        /\ \A t \in Tx : \A p \in Tx :
            /\ p \in r.parents[t] <=> t \notin S /\ p \in m.parents[t] /\ ~(p \in S /\ t \in m.children[p])
            /\ t \in r.children[p] <=> p \notin S /\ t \in m.children[p] /\ ~(t \in S /\ p \in m.parents[t])
    <2>1. Left(m, S, r)
      BY RemoveStagedIs
    <2> HIDE DEF r
    <2> QED  BY <2>1 DEF Left
  <1>2. m.tx \in SUBSET Tx /\ m.next \in [Outpoint -> Tx \cup {NoTx}] /\ NoTx \notin Tx
    BY PoolFields, TxAssumption
  <1> HIDE DEF r
  <1>5. Links(r, new, late)
    <2> SUFFICES ASSUME NEW t \in Tx, NEW p \in Tx
                 PROVE  /\ p \in r.parents[t] <=>
                            t \in r.tx /\ p \in r.tx /\ Feeds(p, t) /\ (t \in new \/ p \notin late)
                        /\ t \in r.children[p] <=> p \in r.parents[t]
      BY DEF Links
    <2>1. /\ p \in m.parents[t] <=> t \in m.tx /\ p \in m.tx /\ Feeds(p, t) /\ (t \in new \/ p \notin late)
          /\ t \in m.children[p] <=> p \in m.parents[t]
      BY DEF Links
    <2> QED  BY <1>1, <2>1
  <1>6. Spent(r)
    <2>2. \A t \in r.tx : t \in m.tx /\ t \notin S
      BY <1>1
    <2>3. \A t \in r.tx : \A o \in Spends[t] : o \in Outpoint
      BY <1>1, <1>2, SpendsTx
    <2>4. ASSUME NEW o \in Outpoint, r.next[o] # NoTx
          PROVE  r.next[o] \in r.tx /\ o \in Spends[r.next[o]]
      <3>1. r.next[o] = m.next[o] /\ m.next[o] \notin S /\ m.next[o] # NoTx
        BY <1>1, <2>4
      <3>2. m.next[o] \in m.tx /\ o \in Spends[m.next[o]]
        BY <3>1 DEF Spent
      <3> QED  BY <1>1, <3>1, <3>2
    <2>5. ASSUME NEW t \in r.tx, NEW o \in Spends[t]
          PROVE  r.next[o] = t
      <3>1. m.next[o] = t /\ o \in Outpoint
        BY <2>2, <2>3 DEF Spent
      <3> QED  BY <1>1, <2>2, <3>1
    <2> QED  BY <2>4, <2>5 DEF Spent
  <1> QED  BY <1>5, <1>6 DEF r

\* Inputs are not lost when descendants go with what is removed.
LEMMA RemoveKeepsFed ==
    ASSUME NEW m \in Pools, NEW S \in SUBSET Tx, NEW u, NEW new, NEW late, NEW A,
           Links(m, new, late), Fed(m, A), \A p \in S : m.children[p] \subseteq S, S \cap late = {}
    PROVE  Fed(RemoveStaged(m, S, u), A)
  <1> DEFINE r == RemoveStaged(m, S, u)
  <1>1. r.tx = m.tx \ S
    BY RemoveStagedTx
  <1> HIDE DEF r
  <1>2. m.tx \in SUBSET Tx
    BY PoolFields
  <1>3. ASSUME NEW t \in r.tx, NEW o \in Spends[t], o \notin A, o[1] \in S
        PROVE  FALSE
    <2>1. t \in m.tx /\ t \in Tx /\ t \notin S /\ o[1] \in Tx
      BY <1>1, <1>2, <1>3
    <2>2. o[1] \in m.tx /\ o[1] \notin late /\ Feeds(o[1], t)
      BY <1>3, <2>1 DEF Fed, Feeds
    <2>3. t \in m.children[o[1]]
      BY <2>1, <2>2 DEF Links
    <2> QED  BY <1>3, <2>1, <2>3
  <1>4. Fed(r, A)
    BY <1>1, <1>3 DEF Fed
  <1> QED  BY <1>4 DEF r

\* Those of S that t is above.
Above(m, S, t) == {v \in S : t \in Ancestors(m, v)}

\* The totals of r are what those of m become when S leaves: what is gone has
\* none, and what stays has less by what S brought in below it.
TotalsLeft(m, S, f, r) ==
    /\ r.mapDeltas = m.mapDeltas
    /\ \A t \in S : r.desc[t] = Nothing /\ r.anc[t] = Nothing
    /\ \A t \in Tx \ S :
        /\ r.desc[t] = Minus(m.desc[t], Sum(m, Above(m, S, t)))
        /\ r.anc[t] = LessRemoved(m, S, f)[t]
        /\ r.feeDelta[t] = m.feeDelta[t]

\* The totals are exact when descendants go with what is removed, and when the
\* totals of what is below are updated instead.
LEMMA RemoveExact ==
    \A m \in Pools : \A S \in SUBSET Tx : \A f :
        /\ Tied(m)
        /\ Exact(m)
        /\ Tied(RemoveStaged(m, S, f))
        /\ \/ f = FALSE /\ \A p \in S : m.children[p] \subseteq S
           \/ f = TRUE /\ \A p \in S : m.parents[p] \subseteq S
        => Exact(RemoveStaged(m, S, f))
  \* The totals of a part are subtracted.
  <1>SumLess.
      ASSUME NEW m \in Pools, NEW A \in SUBSET Tx, NEW B \in SUBSET Tx, B \subseteq A
      PROVE  Minus(Sum(m, A), Sum(m, B)) = Sum(m, A \ B)
    <2> USE <1>SumLess
    <2> DEFINE C == A \ B
    <2>1. C \in SUBSET Tx /\ A = C \cup B /\ C \cap B = {}
      OBVIOUS
    <2> HIDE DEF C
    <2>2. Sum(m, A) = Plus(Sum(m, C), Sum(m, B))
      BY <2>1, SumSplit
    <2>3. Sum(m, C) \in Totals /\ Sum(m, B) \in Totals
      BY <2>1, TotalsType, ZenonT(40)
    <2> QED  BY <2>2, <2>3, PlusMinus DEF C
  \* RemoveStaged, member by member: the totals.
  <1>RemoveStagedTotals.
      ASSUME NEW m \in Pools, NEW S \in SUBSET Tx, NEW u
      PROVE  TotalsLeft(m, S, u, RemoveStaged(m, S, u))
    <2> DEFINE above    == [r \in S |-> Ancestors(m, r)]
               desc     == [t \in Tx |-> Minus(m.desc[t], Sum(m, {r \in S : t \in above[r]}))]
               children == [t \in Tx |-> m.children[t] \ {r \in S : t \in m.parents[r]}]
               parents  == [t \in Tx |-> m.parents[t] \ {r \in S : t \in children[r]}]
               Keep(f, none) == [t \in Tx |-> IF t \in S THEN none ELSE f[t]]
               next == [o \in Outpoint |-> IF m.next[o] \in S THEN NoTx ELSE m.next[o]]
               anc  == LessRemoved(m, S, u)
    <2>1. RemoveStaged(m, S, u) =
              [tx |-> m.tx \ S, next |-> next, parents |-> Keep(parents, {}), children |-> Keep(children, {}),
               desc |-> Keep(desc, Nothing), anc |-> Keep(anc, Nothing),
               feeDelta |-> Keep(m.feeDelta, 0), mapDeltas |-> m.mapDeltas]
      BY DEF RemoveStaged
    <2>2. \A t \in Tx : desc[t] = Minus(m.desc[t], Sum(m, Above(m, S, t)))
      <3> SUFFICES ASSUME NEW t \in Tx
                   PROVE  desc[t] = Minus(m.desc[t], Sum(m, Above(m, S, t)))
        OBVIOUS
      <3>1. {r \in S : t \in above[r]} = Above(m, S, t)
        BY DEF Above
      <3> HIDE DEF above
      <3> QED  BY <3>1
    <2> HIDE DEF next, desc, anc, parents, children
    <2>3. /\ \A f, none : \A t \in S : Keep(f, none)[t] = none
          /\ \A f, none : \A t \in Tx \ S : Keep(f, none)[t] = f[t]
      BY ZenonT(40)
    <2> HIDE DEF Keep
    <2> DEFINE r == RemoveStaged(m, S, u)
    <2>4. r = [tx |-> m.tx \ S, next |-> next, parents |-> Keep(parents, {}), children |-> Keep(children, {}),
               desc |-> Keep(desc, Nothing), anc |-> Keep(anc, Nothing),
               feeDelta |-> Keep(m.feeDelta, 0), mapDeltas |-> m.mapDeltas]
      BY <2>1
    <2> HIDE DEF r
    <2>5. r.desc = Keep(desc, Nothing) /\ r.anc = Keep(anc, Nothing) /\ r.feeDelta = Keep(m.feeDelta, 0) /\ r.mapDeltas = m.mapDeltas
      BY <2>4
    <2>6. \A t \in S : r.desc[t] = Nothing /\ r.anc[t] = Nothing
      BY <2>3, <2>5, SMTT(30)
    <2>7. ASSUME NEW t \in Tx \ S
          PROVE  /\ r.desc[t] = Minus(m.desc[t], Sum(m, Above(m, S, t)))
                 /\ r.anc[t] = anc[t]
                 /\ r.feeDelta[t] = m.feeDelta[t]
      <3>1. r.desc[t] = desc[t] /\ r.anc[t] = anc[t] /\ r.feeDelta[t] = m.feeDelta[t]
        BY <2>3, <2>5, SMTT(30)
      <3> QED  BY <2>2, <3>1
    <2>8. TotalsLeft(m, S, u, r)
      BY <2>5, <2>6, <2>7 DEF anc, TotalsLeft
    <2> QED  BY <2>8 DEF r
  \* What is left of the descendants and of the ancestors of what stays, when S
  \* goes with all that is below it, or with all that is above it.
  <1>RemoveReach.
      ASSUME NEW m \in Pools, Tied(m), NEW S \in SUBSET Tx, NEW f, NEW u \in Tx \ S,
             (\A p \in S : m.children[p] \subseteq S) \/ (\A p \in S : m.parents[p] \subseteq S)
      PROVE  /\ Down(RemoveStaged(m, S, f), u) = Down(m, u) \ S
             /\ Tied(RemoveStaged(m, S, f)) => Up(RemoveStaged(m, S, f), u) = Up(m, u) \ S
    <2> USE <1>RemoveReach
    <2> DEFINE r == RemoveStaged(m, S, f)
    <2>1. /\ r \in Pools /\ r.tx = m.tx \ S
          /\ \A o \in Outpoint : r.next[o] = IF m.next[o] \in S THEN NoTx ELSE m.next[o]
          /\ \A t \in Tx : \A p \in Tx :
              /\ p \in r.parents[t] <=> t \notin S /\ p \in m.parents[t] /\ ~(p \in S /\ t \in m.children[p])
              /\ t \in r.children[p] <=> p \notin S /\ t \in m.children[p] /\ ~(t \in S /\ p \in m.parents[t])
      <3>1. Left(m, S, r)
        BY RemoveStagedIs
      <3> HIDE DEF r
      <3> QED  BY <3>1 DEF Left
    <2> HIDE DEF r
    <2>2. m.children \in [Tx -> SUBSET Tx] /\ r.children \in [Tx -> SUBSET Tx]
      BY <2>1, PoolFields
    <2>3. \A p \in Tx : \A c \in Tx : c \in r.children[p] <=> p \notin S /\ c \in m.children[p] /\ c \notin S
      <3> TAKE p \in Tx
      <3> TAKE c \in Tx
      <3>1. c \in m.children[p] <=> p \in m.parents[c]
        BY DEF Tied
      <3>2. c \in r.children[p] <=> p \notin S /\ c \in m.children[p] /\ ~(c \in S /\ p \in m.parents[c])
        BY <2>1
      <3> QED  BY <3>1, <3>2
    <2>4. ASSUME NEW w \in Tx \ S
          PROVE  Down(r, w) = Down(m, w) \ S
      <3> DEFINE D == Down(m, w)
                 E == Down(r, w)
      <3>1. /\ D \in SUBSET Tx /\ w \in D /\ \A p \in D : m.children[p] \subseteq D
            /\ \A C \in SUBSET Tx : w \in C /\ (\A p \in C : m.children[p] \subseteq C) => D \subseteq C
        BY DownLeast
      <3>2. /\ E \in SUBSET Tx /\ w \in E /\ \A p \in E : r.children[p] \subseteq E
            /\ \A C \in SUBSET Tx : w \in C /\ (\A p \in C : r.children[p] \subseteq C) => E \subseteq C
        BY <2>1, DownLeast
      <3> HIDE DEF D, E
      <3>3. E \subseteq D \ S
        <4> DEFINE C == D \ S
        <4>1. C \in SUBSET Tx /\ w \in C
          BY <3>1
        <4>2. ASSUME NEW p \in C, NEW c \in r.children[p]
              PROVE  c \in C
          <5>1. p \in Tx /\ p \in D /\ c \in Tx
            BY <2>2, <3>1, <4>2
          <5>2. c \in m.children[p] /\ c \notin S
            BY <2>3, <4>2, <5>1
          <5> QED  BY <3>1, <5>1, <5>2
        <4> HIDE DEF C
        <4>3. E \subseteq C
          BY <3>2, <4>1, <4>2
        <4> QED  BY <4>3 DEF C
      <3>4. D \ S \subseteq E
        <4>1. ASSUME NEW p \in E, NEW c \in m.children[p]
              PROVE  c \in E \/ (c \in S /\ c \in Tx)
          <5>1. p \in Tx /\ p \notin S /\ c \in Tx
            BY <2>2, <3>2, <3>3, <4>1
          <5> QED  BY <2>3, <3>2, <4>1, <5>1
        <4>2. CASE \A p \in S : m.children[p] \subseteq S
          <5> DEFINE C == E \cup S
          <5>1. C \in SUBSET Tx /\ w \in C /\ \A p \in C : m.children[p] \subseteq C
            BY <3>2, <4>1, <4>2
          <5> HIDE DEF C
          <5>2. D \subseteq C
            BY <3>1, <5>1
          <5> QED  BY <5>2 DEF C
        <4>3. CASE \A p \in S : m.parents[p] \subseteq S
          <5>1. ASSUME NEW p \in E, NEW c \in m.children[p]
                PROVE  c \in E
            <6>1. p \in Tx /\ p \notin S
              BY <3>2, <3>3
            <6>2. c \in S /\ c \in Tx => p \in m.parents[c]
              BY <5>1, <6>1 DEF Tied
            <6> QED  BY <4>1, <4>3, <5>1, <6>1, <6>2
          <5>2. D \subseteq E
            BY <3>1, <3>2, <5>1
          <5> QED  BY <5>2
        <4> QED  BY <4>2, <4>3
      <3> QED  BY <3>3, <3>4 DEF D, E
    <2>5. ASSUME Tied(r)
          PROVE  Up(r, u) = Up(m, u) \ S
      <3>1. Up(r, u) \in SUBSET Tx /\ Up(m, u) \in SUBSET Tx
        BY <2>1, UpLeast
      <3>2. ASSUME NEW x \in Tx
            PROVE  x \in Up(r, u) <=> x \in Up(m, u) /\ x \notin S
        <4>1. x \in Up(r, u) <=> u \in Down(r, x)
          BY <2>1, <2>5, UpDown
        <4>2. x \in Up(m, u) <=> u \in Down(m, x)
          BY UpDown
        <4>3. CASE x \notin S
          <5>1. Down(r, x) = Down(m, x) \ S
            BY <2>4, <4>3
          <5> QED  BY <4>1, <4>2, <4>3, <5>1
        <4>4. CASE x \in S
          <5> DEFINE C == {x}
          <5>1. C \in SUBSET Tx /\ x \in C /\ \A p \in C : r.children[p] \subseteq C
            BY <2>2, <2>3, <4>4
          <5>2. u \notin C
            BY <4>4
          <5> HIDE DEF C
          <5>3. Down(r, x) \subseteq C
            BY <2>1, <5>1, DownLeast
          <5> QED  BY <4>1, <4>4, <5>2, <5>3
        <4> QED  BY <4>3, <4>4
      <3> QED  BY <3>1, <3>2
    <2>6. Down(r, u) = Down(m, u) \ S
      BY <2>4
    <2> QED  BY <2>5, <2>6 DEF r
  <1>RemoveExact.
      ASSUME NEW m \in Pools, Tied(m), Exact(m), NEW S \in SUBSET Tx, NEW f, Tied(RemoveStaged(m, S, f)),
             (f = FALSE /\ \A p \in S : m.children[p] \subseteq S) \/ (f = TRUE /\ \A p \in S : m.parents[p] \subseteq S)
      PROVE  Exact(RemoveStaged(m, S, f))
    <2> USE <1>RemoveExact
    <2> DEFINE r == RemoveStaged(m, S, f)
    <2>0. (\A p \in S : m.children[p] \subseteq S) \/ (\A p \in S : m.parents[p] \subseteq S)
      OBVIOUS
    <2>1. r \in Pools /\ r.tx = m.tx \ S
      BY RemoveStagedTx
    <2>2. /\ r.mapDeltas = m.mapDeltas
          /\ \A t \in S : r.desc[t] = Nothing /\ r.anc[t] = Nothing
          /\ \A t \in Tx \ S : /\ r.desc[t] = Minus(m.desc[t], Sum(m, Above(m, S, t)))
                               /\ r.anc[t] = LessRemoved(m, S, f)[t] /\ r.feeDelta[t] = m.feeDelta[t]
      <3>1. TotalsLeft(m, S, f, r)
        BY <1>RemoveStagedTotals, Zenon
      <3> QED  BY <3>1, Zenon DEF TotalsLeft
    <2>3. m.tx \in SUBSET Tx /\ m.desc \in [Tx -> Totals] /\ m.anc \in [Tx -> Totals]
      BY PoolFields
    <2>4. ASSUME NEW t \in Tx \ S
          PROVE  /\ Above(m, S, t) = Down(m, t) \cap S /\ Down(m, t) \in SUBSET Tx /\ Up(m, t) \in SUBSET Tx
                 /\ Down(r, t) = Down(m, t) \ S /\ Up(r, t) = Up(m, t) \ S
      <3>1. Down(r, t) = Down(m, t) \ S /\ Up(r, t) = Up(m, t) \ S
        BY <2>0, <1>RemoveReach, SMTT(30)
      <3>2. \A v \in S : t \in Ancestors(m, v) <=> v \in Down(m, t)
        <4> TAKE v \in S
        <4>1. Up(m, v) = {v} \cup Ancestors(m, v) /\ t # v
          BY UpIs
        <4>2. v \in Down(m, t) <=> t \in Up(m, v)
          BY UpDown
        <4> QED  BY <4>1, <4>2
      <3>3. Above(m, S, t) = Down(m, t) \cap S
        BY <3>2 DEF Above
      <3> QED  BY <3>1, <3>3, DownLeast, UpLeast, ZenonT(40)
    <2> HIDE DEF r
    <2>5. ASSUME NEW t \in Tx \ S
          PROVE  LessRemoved(m, S, f)[t] = Minus(m.anc[t], Sum(m, Up(m, t) \cap S))
      <3>1. CASE f = TRUE
        <4> DEFINE below == [v \in S |-> CalculateDescendants(m, {v}) \ {v}]
                   R == {v \in S : t \in below[v]}
        <4>0. LessRemoved(m, S, TRUE)[t] = Minus(m.anc[t], Sum(m, R))
          BY DEF LessRemoved
        <4>1. LessRemoved(m, S, f)[t] = Minus(m.anc[t], Sum(m, R))
          BY <3>1, <4>0
        <4>2. \A v \in S : t \in below[v] <=> v \in Up(m, t)
          <5> TAKE v \in S
          <5>1. below[v] = Down(m, v) \ {v} /\ t # v
            BY DEF Down
          <5>2. t \in Down(m, v) <=> v \in Up(m, t)
            BY UpDown
          <5> HIDE DEF below
          <5> QED  BY <5>1, <5>2
        <4> HIDE DEF below
        <4>3. R = Up(m, t) \cap S
          BY <4>2
        <4> HIDE DEF R
        <4> QED  BY <4>1, <4>3
      <3>2. CASE f = FALSE
        <4>1. \A p \in S : m.children[p] \subseteq S
          BY <3>2
        <4>2. ASSUME NEW v \in S, v \in Up(m, t)
              PROVE  FALSE
          <5>1. t \in Down(m, v)
            BY <4>2, UpDown
          <5>2. Down(m, v) \subseteq S
            BY <4>1, DownLeast
          <5> QED  BY <5>1, <5>2
        <4>3. Up(m, t) \cap S = {}
          BY <4>2
        <4>4. Sum(m, {}) = Nothing
          BY SumOne
        <4>5. LessRemoved(m, S, f)[t] = m.anc[t]
          <5>1. LessRemoved(m, S, FALSE) = m.anc
            BY DEF LessRemoved
          <5> QED  BY <3>2, <5>1
        <4>6. m.anc[t] \in Totals
          BY <2>3
        <4> QED  BY <4>3, <4>4, <4>5, <4>6, PlusMinus
      <3> QED  BY <3>1, <3>2
    <2>6. ASSUME NEW A \in SUBSET Tx
          PROVE  Minus(Sum(m, A), Sum(m, A \cap S)) = Sum(r, A \ S)
      <3> DEFINE B == A \cap S
      <3>1. B \in SUBSET Tx /\ B \subseteq A /\ A \ S = A \ B /\ A \ S \in SUBSET Tx
        OBVIOUS
      <3> HIDE DEF B
      <3>2. Minus(Sum(m, A), Sum(m, B)) = Sum(m, A \ S)
        BY <3>1, <1>SumLess, SMT
      <3>3. Sum(r, A \ S) = Sum(m, A \ S)
        <4>1. \A t \in A \ S : r.feeDelta[t] = m.feeDelta[t]
          BY <2>2
        <4> QED  BY <2>1, <3>1, <4>1, SumSame, ZenonT(40)
      <3> QED  BY <3>2, <3>3 DEF B
    <2>7. ASSUME NEW t \in r.tx
          PROVE  /\ r.desc[t] = Sum(r, Down(r, t)) /\ Alike(r.anc[t], Sum(r, Up(r, t)))
                 /\ r.feeDelta[t] = r.mapDeltas[t]
      <3>1. t \in Tx \ S /\ t \in m.tx
        BY <2>1, <2>3
      <3>2. m.desc[t] = Sum(m, Down(m, t)) /\ Alike(m.anc[t], Sum(m, Up(m, t))) /\ m.feeDelta[t] = m.mapDeltas[t]
        BY <3>1 DEF Exact
      <3>3. r.desc[t] = Sum(r, Down(r, t))
        BY <2>2, <2>4, <2>6, <3>1, <3>2, ZenonT(40)
      <3>4. r.anc[t] = Minus(m.anc[t], Sum(m, Up(m, t) \cap S))
        BY <2>2, <2>5, <3>1
      <3>5. Up(m, t) \in SUBSET Tx /\ Up(r, t) = Up(m, t) \ S
        BY <2>4, <3>1
      <3>6. m.anc[t] \in Totals /\ Sum(m, Up(m, t)) \in Totals /\ Sum(m, Up(m, t) \cap S) \in Totals
        <4>1. Up(m, t) \cap S \in SUBSET Tx
          OBVIOUS
        <4> QED  BY <2>3, <3>1, <3>5, <4>1, TotalsType
      <3>7. Alike(Minus(m.anc[t], Sum(m, Up(m, t) \cap S)), Minus(Sum(m, Up(m, t)), Sum(m, Up(m, t) \cap S)))
        BY <3>2, <3>6, AlikePlus
      <3>8. Minus(Sum(m, Up(m, t)), Sum(m, Up(m, t) \cap S)) = Sum(r, Up(r, t))
        BY <2>6, <3>5
      <3> QED  BY <2>2, <3>1, <3>2, <3>3, <3>4, <3>7, <3>8
    <2>8. ASSUME NEW t \in Tx \ r.tx
          PROVE  r.desc[t] = Nothing /\ r.anc[t] = Nothing
      <3>1. CASE t \in S
        BY <2>2, <3>1
      <3>2. CASE t \notin S
        <4>1. t \in Tx \ S /\ t \notin m.tx /\ m.desc[t] = Nothing /\ m.anc[t] = Nothing
          BY <2>1, <3>2 DEF Exact
        <4>2. Down(m, t) \subseteq {t} /\ Up(m, t) \subseteq {t}
          <5> DEFINE C == {t}
          <5>1. m.children[t] \in SUBSET Tx /\ m.parents[t] \in SUBSET Tx
            BY PoolFields
          <5>2. m.children[t] = {} /\ m.parents[t] = {}
            BY <4>1, <5>1 DEF Tied
          <5>3. C \in SUBSET Tx /\ t \in C /\ (\A p \in C : m.children[p] \subseteq C) /\ (\A p \in C : m.parents[p] \subseteq C)
            BY <5>2
          <5> HIDE DEF C
          <5>4. Down(m, t) \subseteq C /\ Up(m, t) \subseteq C
            BY <5>3, DownLeast, UpLeast
          <5> QED  BY <5>4 DEF C
        <4>3. Down(m, t) \cap S = {} /\ Up(m, t) \cap S = {}
          BY <3>2, <4>2
        <4>4. Sum(m, {}) = Nothing /\ Nothing \in Totals
          BY SumOne, TotalsType
        <4>5. Minus(Nothing, Nothing) = Nothing
          BY <4>4, PlusMinus
        <4>6. r.desc[t] = Minus(m.desc[t], Sum(m, Above(m, S, t))) /\ Above(m, S, t) = Down(m, t) \cap S
          BY <2>2, <2>4, <4>1
        <4>7. r.anc[t] = Minus(m.anc[t], Sum(m, Up(m, t) \cap S))
          BY <2>2, <2>5, <4>1
        <4> QED  BY <4>1, <4>3, <4>4, <4>5, <4>6, <4>7
      <3> QED  BY <3>1, <3>2
    <2>9. Exact(r)
      BY <2>7, <2>8 DEF Exact
    <2> QED  BY <2>9 DEF r
  <1> QED  BY <1>RemoveExact

\* What removeRecursive starts from is t, or what spends t.
LEMMA RootsAre ==
    ASSUME NEW m \in Pools, NEW t \in Tx
    PROVE  /\ Roots(m, t) \in SUBSET Tx /\ (t \in m.tx => t \in Roots(m, t))
           /\ Spent(m) => \A u \in m.tx : t \notin m.tx /\ Feeds(t, u) => u \in Roots(m, t)
           /\ Spent(m) => \A u \in Roots(m, t) : u = t \/ Feeds(t, u)
  <1>1. m.next \in [Outpoint -> Tx \cup {NoTx}] /\ m.tx \in SUBSET Tx /\ NoTx \notin Tx
    BY PoolFields, TxAssumption
  <1>2. \A o \in Outputs(t) : m.next[o] \in Tx \cup {NoTx}
    BY <1>1, OutpointTx
  <1>3. Roots(m, t) \in SUBSET Tx
    BY <1>2 DEF Roots
  <1>4. ASSUME Spent(m), NEW u \in m.tx, t \notin m.tx, Feeds(t, u)
        PROVE  u \in Roots(m, t)
    <2>1. PICK o \in Spends[u] : o[1] = t
      BY <1>4 DEF Feeds
    <2>2. o \in Outputs(t) /\ m.next[o] = u /\ u # NoTx
      BY <1>1, <1>4, <2>1, SpendsTx, OutpointTx DEF Spent
    <2> QED  BY <1>4, <2>2 DEF Roots
  <1>5. ASSUME Spent(m), NEW u \in Roots(m, t), u # t
        PROVE  Feeds(t, u)
    <2>1. PICK o \in Outputs(t) : m.next[o] = u /\ u # NoTx
      BY <1>5 DEF Roots
    <2>2. o \in Outpoint /\ o[1] = t
      BY OutpointTx
    <2>3. o \in Spends[u]
      BY <1>5, <2>1, <2>2 DEF Spent
    <2> QED  BY <2>2, <2>3 DEF Feeds
  <1>6. t \in m.tx => t \in Roots(m, t)
    BY DEF Roots
  <1> QED  BY <1>3, <1>4, <1>5, <1>6

\* removeRecursive leaves neither t nor anything that spends it.
LEMMA RemoveRecursiveKeeps ==
    ASSUME NEW m \in Pools, NEW t \in Tx, NEW new, NEW late, Links(m, new, late), Spent(m),
           CalculateDescendants(m, Roots(m, t)) \cap late = {}
    PROVE  LET r == removeRecursive(m, t)
           IN  /\ r \in Pools
               /\ Links(r, new, late)
               /\ Spent(r)
               /\ r.tx = m.tx \ CalculateDescendants(m, Roots(m, t))
               /\ \A A : Fed(m, A) => Fed(r, A)
               /\ Exact(m) => Exact(r)
               /\ t \notin r.tx
               /\ t \notin m.tx => \A u \in r.tx : ~Feeds(t, u)
  <1> DEFINE S == CalculateDescendants(m, Roots(m, t))
             r == removeRecursive(m, t)
  <1>1. S \in SUBSET Tx /\ Roots(m, t) \subseteq S /\ \A p \in S : m.children[p] \subseteq S
    BY RootsAre, Descendants, ZenonT(40)
  <1>2. S \cap late = {}
    OBVIOUS
  <1>3. r = RemoveStaged(m, S, FALSE)
    BY DEF removeRecursive
  <1> HIDE DEF S, r
  <1>4. r \in Pools /\ r.tx = m.tx \ S
    BY <1>1, <1>3, RemoveStagedTx
  <1>5. Links(r, new, late) /\ Spent(r)
    BY <1>1, <1>3, RemoveKeepsLinks
  <1>6. ASSUME NEW A, Fed(m, A)
        PROVE  Fed(r, A)
    BY <1>1, <1>2, <1>3, <1>6, RemoveKeepsFed
  <1>7. t \notin r.tx
    BY <1>1, <1>4, RootsAre
  <1>8. t \notin m.tx => \A u \in r.tx : ~Feeds(t, u)
    BY <1>1, <1>4, RootsAre
  <1>9. ASSUME Exact(m)
        PROVE  Exact(r)
    <2>1. Tied(m) /\ Tied(r)
      BY <1>5, LinksTied
    <2> QED  BY <1>1, <1>3, <1>9, <2>1, RemoveExact
  <1> QED  BY <1>4, <1>5, <1>6, <1>7, <1>8, <1>9 DEF S, r

\* removeConflicts leaves nothing that spends an input of t.
LEMMA ConflictsKeep ==
    ASSUME NEW m \in Pools, NEW t \in Tx, t \notin m.tx, NEW lost, NEW A,
           Links(m, {}, {}), Spent(m), Fed(m, A), Exact(m)
    PROVE  LET r == removeConflicts(m, t, lost)
           IN  /\ r \in Pools
               /\ Links(r, {}, {})
               /\ Spent(r)
               /\ Fed(r, A)
               /\ Exact(r)
               /\ r.tx \subseteq m.tx
               /\ \A u \in r.tx : Spends[u] \cap Spends[t] = {}
  <1> DEFINE q == Listing(Spends[t])
             F == [o \in Outpoint |-> [x \in Pools |-> Conflict(x, o, t, lost)]]
             Good == {x \in Pools : Links(x, {}, {}) /\ Spent(x) /\ Fed(x, A) /\ Exact(x) /\ x.tx \subseteq m.tx}
             I == [n \in 0 .. Len(q) |-> {x \in Good : \A i \in 1 .. n : \A u \in x.tx : q[i] \notin Spends[u]}]
  <1>1. q \in [1 .. Len(q) -> Spends[t]] /\ Len(q) \in Nat /\ Range(q) = Spends[t]
    BY ListingLists, TxAssumption, SMT
  <1> HIDE DEF q
  <1>2. m \in I[0]
    <2>1. 0 \in 0 .. Len(q) /\ 1 .. 0 = {}
      BY <1>1, SMT
    <2>2. m \in Good
      OBVIOUS
    <2>3. I[0] = {x \in Good : \A i \in 1 .. 0 : \A u \in x.tx : q[i] \notin Spends[u]}
      BY <2>1
    <2> HIDE DEF I, Good
    <2> QED  BY <2>1, <2>2, <2>3
  <1>3. ASSUME NEW n \in 1 .. Len(q), NEW x \in I[n - 1]
        PROVE  F[q[n]][x] \in I[n]
    <2>1. n - 1 \in 0 .. Len(q) /\ n \in 0 .. Len(q) /\ \A i \in 1 .. n : i \in 1 .. n - 1 \/ i = n
      BY <1>1, SMT
    <2>2. x \in Pools /\ Links(x, {}, {}) /\ Spent(x) /\ Fed(x, A) /\ Exact(x) /\ x.tx \subseteq m.tx
          /\ \A i \in 1 .. n - 1 : \A u \in x.tx : q[i] \notin Spends[u]
      BY <2>1
    <2> DEFINE o == q[n]
               c == x.next[o]
               z == Conflict(x, o, t, lost)
    <2>3. o \in Outpoint /\ o \in Spends[t]
      BY <1>1, SpendsTx
    <2>4. F[o][x] = z
      BY <2>2, <2>3
    <2> HIDE DEF o, F, I
    <2>5. \A u \in x.tx : o \in Spends[u] => u = c
      BY <2>2 DEF Spent
    <2>6. x.tx \in SUBSET Tx /\ x.next \in [Outpoint -> Tx \cup {NoTx}] /\ NoTx \notin Tx
      BY <2>2, PoolFields, TxAssumption
    <2>7. z \in Good /\ z.tx \subseteq x.tx /\ \A u \in z.tx : o \notin Spends[u]
      <3>1. CASE c \in {NoTx, t}
        <4>1. z = x
          BY <3>1 DEF Conflict
        <4>2. \A u \in x.tx : u # NoTx /\ u # t
          BY <2>2, <2>6
        <4> QED  BY <2>2, <2>5, <3>1, <4>1, <4>2
      <3>2. CASE c \notin {NoTx, t}
        <4> DEFINE y == removeRecursive(x, c)
        <4>1. c \in Tx
          BY <2>3, <2>6, <3>2
        <4>2. CalculateDescendants(x, Roots(x, c)) \cap {} = {}
          OBVIOUS
        <4>3. /\ y \in Pools /\ Links(y, {}, {}) /\ Spent(y) /\ Fed(y, A) /\ y.tx \subseteq x.tx
              /\ c \notin y.tx /\ Exact(y)
          <5>1. /\ y \in Pools /\ Links(y, {}, {}) /\ Spent(y) /\ c \notin y.tx
                /\ y.tx = x.tx \ CalculateDescendants(x, Roots(x, c))
            BY <2>2, <4>1, <4>2, RemoveRecursiveKeeps
          <5>2. Fed(y, A) /\ Exact(y)
            BY <2>2, <4>1, <4>2, RemoveRecursiveKeeps
          <5> QED  BY <5>1, <5>2
        <4>4. z = y \/ z = ClearPrioritisation(y, c)
          BY <3>2, ZenonT(40) DEF Conflict
        <4> HIDE DEF y, z
        <4>5. z \in Pools /\ z.tx = y.tx /\ z.next = y.next /\ z.parents = y.parents /\ z.children = y.children
          <5>1. CASE z = y
            BY <4>3, <5>1
          <5>2. CASE z = ClearPrioritisation(y, c)
            BY <4>1, <4>3, <5>2, ClearKeeps, ZenonT(40)
          <5> QED  BY <4>4, <5>1, <5>2
        <4>6. Links(z, {}, {}) /\ Spent(z) /\ Fed(z, A)
          BY <4>3, <4>5, SameLinks
        <4>7. Exact(z)
          BY <4>1, <4>3, <4>4, ClearExact
        <4> QED  BY <2>2, <2>5, <4>3, <4>5, <4>6, <4>7
      <3> QED  BY <3>1, <3>2
    <2> HIDE DEF z, Good
    <2>8. \A i \in 1 .. n : \A u \in z.tx : q[i] \notin Spends[u]
      BY <2>1, <2>2, <2>7 DEF o
    <2>9. I[n] = {y \in Good : \A i \in 1 .. n : \A u \in y.tx : q[i] \notin Spends[u]}
      BY <2>1 DEF I
    <2> QED  BY <2>4, <2>7, <2>8, <2>9, ZenonT(40) DEF o
  <1>4. Run(F, m, q) \in I[Len(q)]
    <2> HIDE DEF F, I
    <2> QED  BY <1>1, <1>2, <1>3, RunInduction, ZenonT(40)
  <1>5. Len(q) \in 0 .. Len(q)
    BY <1>1, SMTT(30)
  <1> DEFINE r == removeConflicts(m, t, lost)
  <1>6. r = Run(F, m, q)
    BY DEF removeConflicts, q
  <1> HIDE DEF F, r
  <1>7. r \in Good /\ \A i \in 1 .. Len(q) : \A u \in r.tx : q[i] \notin Spends[u]
    BY <1>4, <1>5, <1>6
  <1>8. \A o \in Spends[t] : \E i \in 1 .. Len(q) : q[i] = o
    BY <1>1, ZenonT(40) DEF Range
  <1>9. \A u \in r.tx : Spends[u] \cap Spends[t] = {}
    <2> TAKE u \in r.tx
    <2>1. ASSUME NEW o \in Spends[u], o \in Spends[t]
          PROVE  FALSE
      <3>1. PICK i \in 1 .. Len(q) : q[i] = o
        BY <1>8, <2>1
      <3> QED  BY <1>7, <3>1
    <2> QED  BY <2>1
  <1> QED  BY <1>7, <1>9 DEF r

-----------------------------------------------------------------------------
(* A transaction is added.                                                 *)

\* addUnchecked, member by member.
LEMMA AddIs ==
    ASSUME NEW m \in Pools, NEW t \in Tx
    PROVE  LET r == addUnchecked(m, t)
           IN  /\ r \in Pools
               /\ r.tx = m.tx \cup {t}
               /\ \A o \in Outpoint : r.next[o] = IF o \in Spends[t] THEN t ELSE m.next[o]
               /\ \A u \in Tx : r.parents[u] = IF u = t THEN ParentsInPool(m, t) ELSE m.parents[u]
               /\ \A u \in Tx : r.children[u] =
                    IF u \in ParentsInPool(m, t) THEN m.children[u] \cup {t} ELSE m.children[u]
  <1> DEFINE A   == AncestorsOfNew(m, t)
             P   == ParentsInPool(m, t)
             new == [m EXCEPT !.feeDelta[t] = m.mapDeltas[t]]
             own == Own(new, t)
             next     == [o \in Outpoint |-> IF o \in Spends[t] THEN t ELSE m.next[o]]
             parents  == [m.parents EXCEPT ![t] = P]
             children == [u \in Tx |-> IF u \in P THEN m.children[u] \cup {t} ELSE m.children[u]]
             desc == [u \in Tx |-> IF u = t THEN own ELSE IF u \in A THEN Plus(m.desc[u], own) ELSE m.desc[u]]
             anc == [m.anc EXCEPT ![t] = Plus(own, Sum(m, A))]
  <1>1. m.tx \in SUBSET Tx /\ m.next \in [Outpoint -> Tx \cup {NoTx}]
           /\ m.parents \in [Tx -> SUBSET Tx] /\ m.children \in [Tx -> SUBSET Tx]
           /\ m.desc \in [Tx -> Totals] /\ m.anc \in [Tx -> Totals]
           /\ m.feeDelta \in [Tx -> Int] /\ m.mapDeltas \in [Tx -> Int]
    BY PoolFields
  <1>2. P \in SUBSET Tx
    BY <1>1 DEF ParentsInPool
  <1> HIDE DEF P
  <1>3. A \in SUBSET Tx
    BY <1>1, <1>2, ReachLeast, SMT DEF AncestorsOfNew, P
  <1>4. new \in Pools /\ new.feeDelta \in [Tx -> Int]
    BY <1>1 DEF Pools
  <1>5. own \in Totals /\ Sum(m, A) \in Totals
    BY <1>3, <1>4, TotalsType
  <1> HIDE DEF A, new, own
  <1>6. next \in [Outpoint -> Tx \cup {NoTx}] /\ m.tx \cup {t} \in SUBSET Tx
    BY <1>1
  <1>7. parents \in [Tx -> SUBSET Tx]
    BY <1>1, <1>2, SMT
  <1>8. children \in [Tx -> SUBSET Tx]
    BY <1>1
  <1>9. desc \in [Tx -> Totals]
    BY <1>1, <1>5, TotalsType
  <1>10. anc \in [Tx -> Totals]
    <2>1. Plus(own, Sum(m, A)) \in Totals
      BY <1>5, TotalsType
    <2> QED  BY <1>1, <2>1, SMT
  <1>11. addUnchecked(m, t) =
            [tx |-> m.tx \cup {t}, next |-> next, parents |-> parents, children |-> children,
             desc |-> desc, anc |-> anc, feeDelta |-> new.feeDelta, mapDeltas |-> m.mapDeltas]
    BY DEF addUnchecked, P, A, new, own
  <1>12. \A u \in Tx : parents[u] = IF u = t THEN P ELSE m.parents[u]
    BY <1>1, SMT
  <1> HIDE DEF parents, desc, anc
  <1>13. /\ \A o \in Outpoint : next[o] = IF o \in Spends[t] THEN t ELSE m.next[o]
         /\ \A u \in Tx : children[u] = IF u \in P THEN m.children[u] \cup {t} ELSE m.children[u]
    BY ZenonT(40)
  <1> HIDE DEF next, children
  <1>14. /\ addUnchecked(m, t) \in Pools /\ addUnchecked(m, t).tx = m.tx \cup {t}
         /\ addUnchecked(m, t).next = next /\ addUnchecked(m, t).parents = parents
         /\ addUnchecked(m, t).children = children
    <2> DEFINE r == addUnchecked(m, t)
    <2>1. /\ r.tx = m.tx \cup {t} /\ r.next = next /\ r.parents = parents /\ r.children = children
          /\ r.desc = desc /\ r.anc = anc /\ r.feeDelta = new.feeDelta /\ r.mapDeltas = m.mapDeltas
      <3>1. r = [tx |-> m.tx \cup {t}, next |-> next, parents |-> parents, children |-> children,
                 desc |-> desc, anc |-> anc, feeDelta |-> new.feeDelta, mapDeltas |-> m.mapDeltas]
        BY <1>11
      <3> HIDE DEF r
      <3> QED  BY <3>1
    <2>2. r = [tx |-> r.tx, next |-> r.next, parents |-> r.parents, children |-> r.children,
               desc |-> r.desc, anc |-> r.anc, feeDelta |-> r.feeDelta, mapDeltas |-> r.mapDeltas]
      BY <1>11, <2>1
    <2> HIDE DEF r
    <2>3. r \in Pools
      BY <1>1, <1>4, <1>6, <1>7, <1>8, <1>9, <1>10, <2>1, <2>2, PoolOf
    <2> QED  BY <2>1, <2>3 DEF r
  <1> QED  BY <1>12, <1>13, <1>14 DEF P

\* A transaction counts for itself and for all that is above it.
LEMMA AddExact ==
    \A m \in Pools : \A t \in Tx \ m.tx :
        Tied(m) /\ Exact(m) /\ Tied(addUnchecked(m, t)) => Exact(addUnchecked(m, t))
  \* addUnchecked, member by member: the totals.
  <1>AddTotals.
      ASSUME NEW m \in Pools, NEW t \in Tx
      PROVE  LET r == addUnchecked(m, t)
                 A == AncestorsOfNew(m, t)
             IN  /\ r.mapDeltas = m.mapDeltas
                 /\ r.feeDelta = [m.feeDelta EXCEPT ![t] = m.mapDeltas[t]]
                 /\ r.anc = [m.anc EXCEPT ![t] = Plus(Own(r, t), Sum(m, A))]
                 /\ r.desc = [u \in Tx |-> IF u = t THEN Own(r, t)
                                           ELSE IF u \in A THEN Plus(m.desc[u], Own(r, t)) ELSE m.desc[u]]
    <2> DEFINE A   == AncestorsOfNew(m, t)
               P   == ParentsInPool(m, t)
               new == [m EXCEPT !.feeDelta[t] = m.mapDeltas[t]]
               own == Own(new, t)
               next     == [o \in Outpoint |-> IF o \in Spends[t] THEN t ELSE m.next[o]]
               parents  == [m.parents EXCEPT ![t] = P]
               children == [u \in Tx |-> IF u \in P THEN m.children[u] \cup {t} ELSE m.children[u]]
               desc == [u \in Tx |-> IF u = t THEN own ELSE IF u \in A THEN Plus(m.desc[u], own) ELSE m.desc[u]]
               anc == [m.anc EXCEPT ![t] = Plus(own, Sum(m, A))]
               r == addUnchecked(m, t)
    <2>1. r = [tx |-> m.tx \cup {t}, next |-> next, parents |-> parents, children |-> children,
               desc |-> desc, anc |-> anc, feeDelta |-> new.feeDelta, mapDeltas |-> m.mapDeltas]
      BY DEF addUnchecked
    <2>2. new.feeDelta = [m.feeDelta EXCEPT ![t] = m.mapDeltas[t]]
      BY DEF Pools
    <2> HIDE DEF new, next, parents, children, desc, anc, r
    <2>3. r.desc = desc /\ r.anc = anc /\ r.feeDelta = new.feeDelta /\ r.mapDeltas = m.mapDeltas
      BY <2>1
    <2>4. own = Own(r, t)
      BY <2>3 DEF Own, ModifiedFee
    <2> HIDE DEF own, A
    <2>5. /\ anc = [m.anc EXCEPT ![t] = Plus(Own(r, t), Sum(m, A))]
          /\ desc = [u \in Tx |-> IF u = t THEN Own(r, t)
                                  ELSE IF u \in A THEN Plus(m.desc[u], Own(r, t)) ELSE m.desc[u]]
      BY <2>4 DEF anc, desc
    <2> QED  BY <2>2, <2>3, <2>5 DEF r, A
  \* What is above and below an entry once t is added.
  <1>AddReach.
      ASSUME NEW m \in Pools, Tied(m), NEW t \in Tx, t \notin m.tx, Tied(addUnchecked(m, t))
      PROVE  LET r == addUnchecked(m, t)
                 A == AncestorsOfNew(m, t)
             IN  /\ A \in SUBSET (Tx \ {t})
                 /\ Up(r, t) = {t} \cup A
                 /\ Down(r, t) = {t}
                 /\ \A u \in Tx \ {t} : /\ Up(r, u) = Up(m, u) /\ t \notin Up(m, u) /\ t \notin Down(m, u)
                                        /\ Down(r, u) = IF u \in A THEN Down(m, u) \cup {t} ELSE Down(m, u)
    <2> USE <1>AddReach
    <2> DEFINE r == addUnchecked(m, t)
               P == ParentsInPool(m, t)
               A == AncestorsOfNew(m, t)
    <2>1. /\ r \in Pools /\ r.tx = m.tx \cup {t}
          /\ \A o \in Outpoint : r.next[o] = IF o \in Spends[t] THEN t ELSE m.next[o]
          /\ \A u \in Tx : r.parents[u] = IF u = t THEN P ELSE m.parents[u]
          /\ \A u \in Tx : r.children[u] = IF u \in P THEN m.children[u] \cup {t} ELSE m.children[u]
      BY AddIs, ZenonT(40)
    <2>2. Tied(r)
      OBVIOUS
    <2> HIDE DEF r
    <2>3. P \subseteq m.tx /\ m.tx \in SUBSET Tx
      BY PoolFields DEF ParentsInPool
    <2>4. /\ A \in SUBSET Tx /\ P \subseteq A /\ \A p \in A : m.parents[p] \subseteq A
          /\ \A C \in SUBSET Tx : P \subseteq C /\ (\A p \in C : m.parents[p] \subseteq C) => A \subseteq C
      <3>1. m.parents \in [Tx -> SUBSET Tx] /\ P \in SUBSET Tx
        BY <2>3, PoolFields
      <3> HIDE DEF P
      <3>2. A = Reach(m.parents, P)
        BY DEF AncestorsOfNew, P
      <3> HIDE DEF A
      <3> QED  BY <3>1, <3>2, ReachLeast, SMT
    <2> HIDE DEF P, A
    <2>5. /\ m.parents \in [Tx -> SUBSET Tx] /\ m.parents[t] = {}
          /\ \A u \in Tx : t \notin m.parents[u] /\ t \notin m.children[u]
      <3>1. m.parents \in [Tx -> SUBSET Tx] /\ m.parents[t] \in SUBSET Tx
        BY PoolFields
      <3> QED  BY <3>1 DEF Tied
    <2> DEFINE N == Tx \ {t}
    <2>6. N \in SUBSET Tx /\ \A p \in N : m.parents[p] \subseteq N /\ m.children[p] \subseteq N
      <3>1. \A p \in N : m.parents[p] \in SUBSET Tx /\ m.children[p] \in SUBSET Tx
        BY PoolFields
      <3> QED  BY <2>5, <3>1
    <2>7. A \subseteq N
      <3>1. P \subseteq N
        BY <2>3
      <3> HIDE DEF N
      <3> QED  BY <2>4, <2>6, <3>1
    <2>8. ASSUME NEW u \in N
          PROVE  Up(m, u) \subseteq N /\ Down(m, u) \subseteq N
      <3>1. u \in Tx
        OBVIOUS
      <3> HIDE DEF N
      <3> QED  BY <2>6, <2>8, <3>1, UpLeast, DownLeast
    <2>9. ASSUME NEW u \in N
          PROVE  Up(r, u) = Up(m, u)
      <3> DEFINE D == Up(m, u)
                 E == Up(r, u)
      <3>1. /\ D \in SUBSET Tx /\ u \in D /\ \A p \in D : m.parents[p] \subseteq D
            /\ \A C \in SUBSET Tx : u \in C /\ (\A p \in C : m.parents[p] \subseteq C) => D \subseteq C
        BY UpLeast
      <3>2. /\ E \in SUBSET Tx /\ u \in E /\ \A p \in E : r.parents[p] \subseteq E
            /\ \A C \in SUBSET Tx : u \in C /\ (\A p \in C : r.parents[p] \subseteq C) => E \subseteq C
        BY <2>1, UpLeast
      <3>3. D \subseteq N
        BY <2>8
      <3> HIDE DEF D, E
      <3>4. \A p \in D : p \in Tx /\ r.parents[p] = m.parents[p]
        BY <2>1, <3>1, <3>3
      <3>5. E \subseteq D
        BY <3>1, <3>2, <3>4
      <3>6. D \subseteq E
        BY <3>1, <3>2, <3>4, <3>5
      <3> QED  BY <3>5, <3>6 DEF D, E
    <2>10. Up(r, t) = {t} \cup A
      <3> DEFINE E == Up(r, t)
                 C == {t} \cup A
      <3>1. /\ E \in SUBSET Tx /\ t \in E /\ \A p \in E : r.parents[p] \subseteq E
            /\ \A B \in SUBSET Tx : t \in B /\ (\A p \in B : r.parents[p] \subseteq B) => E \subseteq B
        BY <2>1, UpLeast
      <3> HIDE DEF E
      <3>2. r.parents[t] = P /\ \A p \in N : r.parents[p] = m.parents[p]
        BY <2>1
      <3>3. C \in SUBSET Tx /\ t \in C /\ \A p \in C : r.parents[p] \subseteq C
        BY <2>4, <2>7, <3>2
      <3>4. E \subseteq C
        <4> HIDE DEF C
        <4> QED  BY <3>1, <3>3
      <3>5. \A p \in E : m.parents[p] \subseteq E
        BY <2>5, <3>1, <3>2
      <3>6. A \subseteq E
        BY <2>4, <3>1, <3>2, <3>5
      <3> QED  BY <3>1, <3>4, <3>6 DEF E
    <2>11. ASSUME NEW u \in Tx, NEW x \in Tx
           PROVE  x \in Down(r, u) <=> IF x = t THEN u = t \/ u \in A ELSE u # t /\ x \in Down(m, u)
      <3>1. x \in Down(r, u) <=> u \in Up(r, x)
        BY <2>1, <2>2, UpDown
      <3>2. CASE x = t
        BY <2>10, <3>1, <3>2
      <3>3. CASE x # t
        <4>1. x \in N
          BY <3>3
        <4>2. Up(r, x) = Up(m, x) /\ t \notin Up(m, x)
          BY <2>8, <2>9, <4>1
        <4>3. x \in Down(m, u) <=> u \in Up(m, x)
          BY UpDown
        <4> QED  BY <3>1, <3>3, <4>2, <4>3
      <3> QED  BY <3>2, <3>3
    <2>12. \A u \in Tx : Down(r, u) \in SUBSET Tx /\ Down(m, u) \in SUBSET Tx
      BY <2>1, DownLeast
    <2>13. Down(r, t) = {t}
      BY <2>11, <2>12
    <2>14. ASSUME NEW u \in Tx \ {t}
           PROVE  Down(r, u) = IF u \in A THEN Down(m, u) \cup {t} ELSE Down(m, u)
      <3>1. t \notin Down(m, u)
        BY <2>8
      <3>2. CASE u \in A
        <4>1. \A x \in Tx : x \in Down(r, u) <=> x \in Down(m, u) \cup {t}
          BY <2>11, <3>1, <3>2
        <4> QED  BY <2>12, <3>2, <4>1
      <3>3. CASE u \notin A
        <4>1. \A x \in Tx : x \in Down(r, u) <=> x \in Down(m, u)
          BY <2>11, <3>1, <3>3
        <4> QED  BY <2>12, <3>3, <4>1
      <3> QED  BY <3>2, <3>3
    <2>15. /\ A \in SUBSET (Tx \ {t}) /\ Up(r, t) = {t} \cup A /\ Down(r, t) = {t}
           /\ \A u \in Tx \ {t} : /\ Up(r, u) = Up(m, u) /\ t \notin Up(m, u) /\ t \notin Down(m, u)
                                  /\ Down(r, u) = IF u \in A THEN Down(m, u) \cup {t} ELSE Down(m, u)
      BY <2>7, <2>8, <2>9, <2>10, <2>13, <2>14
    <2> QED  BY <2>15 DEF r, A
  <1>AddExact.
      ASSUME NEW m \in Pools, Tied(m), Exact(m), NEW t \in Tx, t \notin m.tx, Tied(addUnchecked(m, t))
      PROVE  Exact(addUnchecked(m, t))
    <2> USE <1>AddExact
    <2> DEFINE r == addUnchecked(m, t)
               A == AncestorsOfNew(m, t)
               own == Own(r, t)
    <2>1. r \in Pools /\ r.tx = m.tx \cup {t}
      BY AddIs
    <2>2. /\ r.mapDeltas = m.mapDeltas /\ r.feeDelta = [m.feeDelta EXCEPT ![t] = m.mapDeltas[t]]
          /\ r.anc = [m.anc EXCEPT ![t] = Plus(own, Sum(m, A))]
          /\ r.desc = [u \in Tx |-> IF u = t THEN own ELSE IF u \in A THEN Plus(m.desc[u], own) ELSE m.desc[u]]
      BY <1>AddTotals
    <2>3. /\ A \in SUBSET (Tx \ {t}) /\ Up(r, t) = {t} \cup A /\ Down(r, t) = {t}
          /\ \A u \in Tx \ {t} : /\ Up(r, u) = Up(m, u) /\ t \notin Up(m, u) /\ t \notin Down(m, u)
                                 /\ Down(r, u) = IF u \in A THEN Down(m, u) \cup {t} ELSE Down(m, u)
      BY <1>AddReach, ZenonT(40)
    <2> HIDE DEF r, A
    <2>4. /\ m.tx \in SUBSET Tx /\ m.feeDelta \in [Tx -> Int]
          /\ m.desc \in [Tx -> Totals] /\ m.anc \in [Tx -> Totals]
      BY PoolFields
    <2>5. \A u \in Tx : /\ r.feeDelta[u] = IF u = t THEN m.mapDeltas[t] ELSE m.feeDelta[u]
                        /\ r.anc[u] = IF u = t THEN Plus(own, Sum(m, A)) ELSE m.anc[u]
                        /\ r.desc[u] = IF u = t THEN own ELSE IF u \in A THEN Plus(m.desc[u], own) ELSE m.desc[u]
      BY <2>2, <2>4
    <2>6. own = Sum(r, {t}) /\ own \in Totals
      BY <2>1, SumOne, TotalsType
    <2>7. ASSUME NEW B \in SUBSET Tx, t \notin B
          PROVE  Sum(r, B) = Sum(m, B) /\ Sum(r, B \cup {t}) = Plus(Sum(m, B), own) /\ Sum(m, B) \in Totals
      <3>1. \A u \in B : r.feeDelta[u] = m.feeDelta[u]
        BY <2>5, <2>7
      <3>2. Sum(r, B) = Sum(m, B)
        BY <2>1, <3>1, SumSame
      <3>3. {t} \in SUBSET Tx /\ B \cap {t} = {}
        BY <2>7
      <3>4. Sum(r, B \cup {t}) = Plus(Sum(r, B), Sum(r, {t}))
        BY <2>1, <3>3, SumSplit
      <3> QED  BY <2>6, <3>2, <3>4, TotalsType
    <2> HIDE DEF own
    <2>8. /\ r.desc[t] = Sum(r, Down(r, t)) /\ Alike(r.anc[t], Sum(r, Up(r, t))) /\ r.feeDelta[t] = r.mapDeltas[t]
      <3>1. r.desc[t] = Sum(r, Down(r, t)) /\ r.feeDelta[t] = r.mapDeltas[t]
        BY <2>2, <2>3, <2>5, <2>6
      <3>2. A \in SUBSET Tx /\ t \notin A /\ A \cup {t} = {t} \cup A
        BY <2>3
      <3>3. Sum(r, A \cup {t}) = Plus(Sum(m, A), own) /\ Sum(m, A) \in Totals
        BY <2>7, <3>2
      <3>4. Plus(Sum(m, A), own) = Plus(own, Sum(m, A))
        BY <2>6, <3>3, PlusMinus
      <3>5. r.anc[t] = Sum(r, Up(r, t))
        BY <2>3, <2>5, <3>2, <3>3, <3>4
      <3> QED  BY <3>1, <3>5 DEF Alike
    <2>9. ASSUME NEW u \in m.tx
          PROVE  /\ r.desc[u] = Sum(r, Down(r, u)) /\ Alike(r.anc[u], Sum(r, Up(r, u)))
                 /\ r.feeDelta[u] = r.mapDeltas[u]
      <3>1. u \in Tx /\ u # t /\ Down(m, u) \in SUBSET Tx /\ Up(m, u) \in SUBSET Tx
        BY <2>4, DownLeast, UpLeast
      <3>2. m.desc[u] = Sum(m, Down(m, u)) /\ Alike(m.anc[u], Sum(m, Up(m, u))) /\ m.feeDelta[u] = m.mapDeltas[u]
        BY DEF Exact
      <3>3. /\ Up(r, u) = Up(m, u) /\ t \notin Up(m, u) /\ t \notin Down(m, u)
            /\ Down(r, u) = IF u \in A THEN Down(m, u) \cup {t} ELSE Down(m, u)
        BY <2>3, <3>1
      <3>4. Sum(r, Up(m, u)) = Sum(m, Up(m, u)) /\ Sum(r, Down(m, u)) = Sum(m, Down(m, u))
            /\ Sum(r, Down(m, u) \cup {t}) = Plus(Sum(m, Down(m, u)), own)
        BY <2>7, <3>1, <3>3
      <3>5. /\ r.feeDelta[u] = m.feeDelta[u] /\ r.anc[u] = m.anc[u]
            /\ r.desc[u] = IF u \in A THEN Plus(m.desc[u], own) ELSE m.desc[u]
        BY <2>5, <3>1
      <3>6. CASE u \in A
        BY <2>2, <3>2, <3>3, <3>4, <3>5, <3>6
      <3>7. CASE u \notin A
        BY <2>2, <3>2, <3>3, <3>4, <3>5, <3>7
      <3> QED  BY <3>6, <3>7
    <2>10. ASSUME NEW u \in Tx \ r.tx
           PROVE  r.desc[u] = Nothing /\ r.anc[u] = Nothing
      <3>1. u # t /\ u \notin m.tx
        BY <2>1
      <3>2. m.desc[u] = Nothing /\ m.anc[u] = Nothing
        BY <3>1 DEF Exact
      <3>3. u \notin A
        <4> SUFFICES ASSUME u \in A
                     PROVE  FALSE
          OBVIOUS
        <4>1. t \in Down(r, u)
          BY <2>3, <3>1
        <4>2. {u} \in SUBSET Tx /\ u \in {u} /\ \A p \in {u} : r.children[p] \subseteq {u}
          <5>1. r.children[u] \in SUBSET Tx
            BY <2>1, PoolFields
          <5>2. Tied(r)
            BY DEF r
          <5> QED  BY <5>1, <5>2 DEF Tied
        <4>3. Down(r, u) \subseteq {u}
          BY <2>1, <4>2, DownLeast
        <4> QED  BY <3>1, <4>1, <4>3
      <3> QED  BY <2>5, <3>1, <3>2, <3>3
    <2>11. Exact(r)
      BY <2>1, <2>8, <2>9, <2>10 DEF Exact
    <2> QED  BY <2>11 DEF r
  <1> QED  BY <1>AddExact

\* Whatever spends t already is not linked to it.
LEMMA AddLinks ==
    ASSUME NEW m \in Pools, NEW t \in Tx, t \notin m.tx, NoConflict(m, t), ~Feeds(t, t),
           NEW new, NEW late, Links(m, new, late), Spent(m),
           \A u \in m.tx : u \in new => ~Feeds(t, u)
    PROVE  Links(addUnchecked(m, t), new \cup {t}, late \cup {t}) /\ Spent(addUnchecked(m, t))
  <1> DEFINE r == addUnchecked(m, t)
             P == ParentsInPool(m, t)
  <1>1. /\ r \in Pools /\ r.tx = m.tx \cup {t}
        /\ \A o \in Outpoint : r.next[o] = IF o \in Spends[t] THEN t ELSE m.next[o]
        /\ \A u \in Tx : r.parents[u] = IF u = t THEN P ELSE m.parents[u]
        /\ \A u \in Tx : r.children[u] = IF u \in P THEN m.children[u] \cup {t} ELSE m.children[u]
    BY AddIs, ZenonT(40)
  <1> HIDE DEF r
  <1>2. \A p \in Tx : p \in P <=> p \in m.tx /\ Feeds(p, t)
    BY DEF ParentsInPool, Feeds
  <1> HIDE DEF P
  <1>3. m.tx \in SUBSET Tx /\ m.next \in [Outpoint -> Tx \cup {NoTx}] /\ NoTx \notin Tx
    BY PoolFields, TxAssumption
  <1>4. Links(r, new \cup {t}, late \cup {t})
    <2> SUFFICES ASSUME NEW u \in Tx, NEW p \in Tx
                 PROVE  /\ p \in r.parents[u] <=>
                            u \in r.tx /\ p \in r.tx /\ Feeds(p, u) /\ (u \in new \cup {t} \/ p \notin late \cup {t})
                        /\ u \in r.children[p] <=> p \in r.parents[u]
      BY DEF Links
    <2>1. /\ p \in m.parents[u] <=> u \in m.tx /\ p \in m.tx /\ Feeds(p, u) /\ (u \in new \/ p \notin late)
          /\ u \in m.children[p] <=> p \in m.parents[u]
      BY DEF Links
    <2>2. r.children[p] = IF p \in P THEN m.children[p] \cup {t} ELSE m.children[p]
      BY <1>1
    <2>3. CASE u = t
      <3>1. r.parents[u] = P
        BY <1>1, <2>3
      <3>2. p \in P <=> p \in m.tx /\ Feeds(p, t)
        BY <1>2
      <3>3. ~(p \in m.parents[u]) /\ ~(u \in m.children[p])
        BY <2>1, <2>3
      <3> QED  BY <1>1, <2>2, <2>3, <3>1, <3>2, <3>3
    <2>4. CASE u # t
      <3>1. r.parents[u] = m.parents[u] /\ (u \in r.tx <=> u \in m.tx)
        BY <1>1, <2>4
      <3>2. u \in r.children[p] <=> u \in m.children[p]
        BY <2>2, <2>4
      <3>3. CASE p = t
        BY <1>1, <2>1, <2>4, <3>1, <3>2, <3>3
      <3>4. CASE p # t
        BY <1>1, <2>1, <2>4, <3>1, <3>2, <3>4
      <3> QED  BY <3>3, <3>4
    <2> QED  BY <2>3, <2>4
  <1>5. Spent(r)
    <2>1. \A o \in Spends[t] : m.next[o] = NoTx /\ o \in Outpoint
      BY SpendsTx DEF NoConflict
    <2>2. \A u \in m.tx : \A o \in Spends[u] : m.next[o] = u /\ o \in Outpoint /\ u # NoTx /\ o \notin Spends[t]
      BY <1>3, <2>1, SpendsTx, ZenonT(40) DEF Spent
    <2>3. \A u \in r.tx : \A o \in Spends[u] : r.next[o] = u
      BY <1>1, <2>1, <2>2
    <2>4. ASSUME NEW o \in Outpoint, r.next[o] # NoTx
          PROVE  r.next[o] \in r.tx /\ o \in Spends[r.next[o]]
      <3>1. CASE o \in Spends[t]
        BY <1>1, <3>1
      <3>2. CASE o \notin Spends[t]
        <4>1. r.next[o] = m.next[o]
          BY <1>1, <3>2
        <4> QED  BY <1>1, <2>4, <4>1 DEF Spent
      <3> QED  BY <3>1, <3>2
    <2> QED  BY <2>3, <2>4 DEF Spent
  <1> QED  BY <1>4, <1>5 DEF r

\* A transaction with its inputs at hand is added.
LEMMA AddFed ==
    ASSUME NEW m \in Pools, NEW t \in Tx, NEW A, Fed(m, A), \A o \in Spends[t] : o[1] \in m.tx \/ o \in A
    PROVE  Fed(addUnchecked(m, t), A)
  <1>1. addUnchecked(m, t).tx = m.tx \cup {t}
    BY AddIs
  <1> QED  BY <1>1 DEF Fed
=============================================================================
