------------------------------ MODULE HostProofs ------------------------------
(***************************************************************************)
(* What the host makes of what a device sends, proved for every run, every *)
(* snapshot and every size of screen.  First a single snapshot             *)
(* (MTS1Codec, MTS1Decode): both readers read back exactly what was        *)
(* written and tell a changed byte or a cut.  Then the viewer              *)
(* (MTV1Viewer): its hotspots are an exact count of the records read, and  *)
(* what diff reports is true of the two runs.  Last the terminal           *)
(* (MTV1Tui): what replay, export and the charts show is the run.          *)
(***************************************************************************)
EXTENDS MTV1Tui, MTS1Decode, FiniteSetTheorems, WellFoundedInduction, TLAPS

(* Sets of naturals, sequences and folds *)
(* A set of naturals has a least one. *)
LEMMA LeastNat ==
  ASSUME NEW T, T \subseteq Nat, T # {}
  PROVE  \E n \in T : \A m \in T : n <= m
<1>1. PICK n \in T : \A m \in T : ~(<<m, n>> \in OpToRel(<, Nat))
  BY WFMin, NatLessThanWellFounded
<1>2. \A m \in T : ~(m < n)
  BY <1>1 DEF OpToRel
<1>3. n \in Nat /\ \A m \in T : m \in Nat
  OBVIOUS
<1> QED
  BY <1>2, <1>3

(* Induction up to n, G being the set of the good numbers *)
LEMMA UpTo ==
  ASSUME NEW n \in Nat, NEW G, 0 \in G,
         \A i \in 1..n : i - 1 \in G => i \in G
  PROVE  \A i \in 0..n : i \in G
<1> DEFINE Bad == {i \in 0..n : i \notin G}
<1> SUFFICES ASSUME Bad # {} PROVE FALSE
  OBVIOUS
<1>1. Bad \subseteq Nat
  OBVIOUS
<1>2. PICK i \in Bad : \A j \in Bad : i <= j
  BY <1>1, LeastNat
<1>3. i \in 1..n /\ i - 1 \in 0..n /\ i - 1 < i
  OBVIOUS
<1> QED
  BY <1>2, <1>3

(* g folds F over the subsets of S, from b on, and takes c[s] off s first. *)
IsFold(g, S, b, F, c) ==
  \A s \in SUBSET S : g[s] = IF s = {} THEN b ELSE F[<<g[s \ {c[s]}], c[s]>>]

(* A fold over a finite set, which takes the elements in an order c of its   *)
(* own, satisfies the equation it is defined by.                             *)
LEMMA FoldExists ==
  ASSUME NEW S, IsFiniteSet(S), NEW A, NEW b \in A, NEW F \in [A \X S -> A],
         NEW c, \A s \in SUBSET S : s # {} => c[s] \in s
  PROVE  \E g \in [SUBSET S -> A] : IsFold(g, S, b, F, c)
<1> DEFINE Small(n) == {s \in SUBSET S : Cardinality(s) <= n}
           Eq(g, D) == \A s \in D : g[s] = IF s = {} THEN b
                                           ELSE F[<<g[s \ {c[s]}], c[s]>>]
           N == Cardinality(S)
           G == {n \in Nat : \E g \in [Small(n) -> A] : Eq(g, Small(n))}
<1>1. \A s \in SUBSET S : IsFiniteSet(s) /\ Cardinality(s) \in Nat
  BY FS_Subset, FS_CardinalityType
<1>2. N \in Nat /\ \A s \in SUBSET S : Cardinality(s) <= N
  BY <1>1, FS_Subset
<1>3. \A s \in SUBSET S : Cardinality(s) = 0 <=> s = {}
  BY <1>1, FS_EmptySet
<1>4. \A s \in SUBSET S : s # {} => /\ s \ {c[s]} \in SUBSET S
                                    /\ Cardinality(s \ {c[s]}) = Cardinality(s) - 1
  BY <1>1, FS_RemoveElement
<1>5. 0 \in G
  <2>1. Small(0) = {{}}
    BY <1>1, <1>3
  <2> DEFINE g == [s \in Small(0) |-> b]
  <2>2. g \in [Small(0) -> A] /\ Eq(g, Small(0))
    BY <2>1
  <2> QED
    BY <2>2
<1>6. ASSUME NEW n \in 1..N, n - 1 \in G
      PROVE  n \in G
  <2>1. PICK g \in [Small(n - 1) -> A] : Eq(g, Small(n - 1))
    BY <1>6
  <2> DEFINE h == [s \in Small(n) |->
                     IF s \in Small(n - 1) THEN g[s] ELSE F[<<g[s \ {c[s]}], c[s]>>]]
  <2>2. \A s \in Small(n) : s # {} => s \ {c[s]} \in Small(n - 1)
    BY <1>1, <1>4
  <2>3. Small(n - 1) \subseteq Small(n) /\ {} \in Small(n - 1)
    BY <1>1, <1>3
  <2> HIDE DEF Small
  <2>4. ASSUME NEW s \in Small(n)
        PROVE  h[s] \in A /\ h[s] = IF s = {} THEN b ELSE F[<<h[s \ {c[s]}], c[s]>>]
    <3>1. CASE s \in Small(n - 1)
      <4>1. h[s] = g[s]
        BY <3>1
      <4>2. s # {} => h[s \ {c[s]}] = g[s \ {c[s]}]
        BY <2>2, <2>3
      <4> QED
        BY <2>1, <3>1, <4>1, <4>2
    <3>2. CASE s \notin Small(n - 1)
      <4>1. s # {} /\ c[s] \in S /\ h[s] = F[<<g[s \ {c[s]}], c[s]>>]
        BY <2>3, <3>2 DEF Small
      <4>2. g[s \ {c[s]}] \in A /\ h[s \ {c[s]}] = g[s \ {c[s]}]
        BY <2>1, <2>2, <2>3, <4>1
      <4> QED
        BY <4>1, <4>2
    <3> QED
      BY <3>1, <3>2
  <2>5. h \in [Small(n) -> A] /\ Eq(h, Small(n))
    BY <2>4
  <2> HIDE DEF h, Eq
  <2> QED
    BY <2>5
<1> HIDE DEF G
<1>7. N \in G
  BY <1>2, <1>5, <1>6, UpTo
<1>8. PICK g \in [Small(N) -> A] : Eq(g, Small(N))
  BY <1>7 DEF G
<1>9. Small(N) = SUBSET S
  BY <1>2
<1> HIDE DEF Small, N
<1> QED
  BY <1>8, <1>9 DEF IsFold

(* The largest element of a set of naturals that has a bound *)
LEMMA MaxIn ==
  ASSUME NEW n \in Nat, NEW s \in SUBSET (0..n), s # {}
  PROVE  Max(s) \in s /\ \A y \in s : Max(s) >= y
<1> DEFINE T == {n - y : y \in s}
<1>0. \A y \in s : n - y \in Nat
  OBVIOUS
<1>1. T \subseteq Nat /\ T # {}
  BY <1>0
<1>2. PICK m \in T : \A k \in T : m <= k
  BY <1>1, LeastNat
<1>3. PICK x \in s : m = n - x
  BY <1>2
<1>4. \A y \in s : x >= y
  BY <1>2, <1>3
<1> QED
  BY <1>3, <1>4 DEF Max

(* The fold of the library takes the members of 1..i from the greatest down. *)
LEMMA MaxUpTo ==
  ASSUME NEW i \in Nat \ {0}
  PROVE  Max(1..i) = i /\ (1..i) \ {Max(1..i)} = 1..(i - 1)
<1>1. 1..i \in SUBSET (0..i) /\ 1..i # {} /\ i \in 1..i
  OBVIOUS
<1>2. Max(1..i) \in 1..i /\ Max(1..i) >= i
  BY <1>1, MaxIn
<1> QED
  BY <1>2

(* The least member of a set of naturals is in it and below every member. *)
LEMMA MinIn ==
  ASSUME NEW T, T \subseteq Nat, T # {}
  PROVE  Min(T) \in T /\ \A y \in T : Min(T) <= y
<1>1. PICK n \in T : \A m \in T : n <= m
  BY LeastNat
<1> QED
  BY <1>1 DEF Min

(* The folds of a sequence take its last element last.                       *)
IsLeftFold(g, n, b, F) ==
  \A s \in SUBSET (1..n) :
    g[s] = IF s = {} THEN b ELSE F[<<g[s \ {Max(s)}], Max(s)>>]

(* There is a function that folds every subset of 1..n. *)
LEMMA LeftFoldExists ==
  ASSUME NEW n \in Nat, NEW A, NEW b \in A, NEW F \in [A \X (1..n) -> A]
  PROVE  \E g \in [SUBSET (1..n) -> A] : IsLeftFold(g, n, b, F)
<1> DEFINE c == [s \in SUBSET (1..n) |-> Max(s)]
<1>1. ASSUME NEW s \in SUBSET (1..n), s # {}
      PROVE  c[s] \in s
  <2>1. s \in SUBSET (0..n)
    OBVIOUS
  <2>2. Max(s) \in s
    BY <1>1, <2>1, MaxIn
  <2> QED
    BY <2>2
<1>2. IsFiniteSet(1..n)
  BY FS_Interval
<1>3. \A s \in SUBSET (1..n) : c[s] = Max(s)
  OBVIOUS
<1> DEFINE S == 1..n
<1> HIDE DEF c, S
<1>4. F \in [A \X S -> A] /\ IsFiniteSet(S) /\ \A s \in SUBSET S : s # {} => c[s] \in s
  BY <1>1, <1>2 DEF S
<1>5. PICK g \in [SUBSET S -> A] : IsFold(g, S, b, F, c)
  BY <1>4, FoldExists
<1>6. \A s \in SUBSET S : g[s] = IF s = {} THEN b ELSE F[<<g[s \ {Max(s)}], Max(s)>>]
  BY <1>3, <1>5 DEF S, IsFold
<1> QED
  BY <1>6 DEF S, IsLeftFold

(* So it is a sequence of values, each made from the one before.             *)
IsChain(f, n, b, F) == f[0] = b /\ \A i \in 1..n : f[i] = F[<<f[i - 1], i>>]

(* Its values at 1..0, 1..1, ... are the steps of a loop over 1..n. *)
LEMMA LeftFoldChain ==
  ASSUME NEW n \in Nat, NEW b, NEW F, NEW g, IsLeftFold(g, n, b, F)
  PROVE  IsChain([i \in 0..n |-> g[1..i]], n, b, F)
<1> DEFINE f == [i \in 0..n |-> g[1..i]]
<1>1. f[0] = b
  <2>1. 1..0 = {} /\ 1..0 \in SUBSET (1..n) /\ 0 \in 0..n
    OBVIOUS
  <2>2. g[1..0] = b
    BY <2>1 DEF IsLeftFold
  <2> QED
    BY <2>1, <2>2
<1>2. ASSUME NEW i \in 1..n
      PROVE  f[i] = F[<<f[i - 1], i>>]
  <2>1. 1..i \in SUBSET (1..n) /\ 1..i # {} /\ i \in Nat \ {0}
    OBVIOUS
  <2>2. Max(1..i) = i /\ (1..i) \ {Max(1..i)} = 1..(i - 1)
    BY <2>1, MaxUpTo
  <2>3. g[1..i] = F[<<g[1..(i - 1)], i>>]
    BY <2>1, <2>2 DEF IsLeftFold
  <2>4. f[i] = g[1..i] /\ f[i - 1] = g[1..(i - 1)]
    OBVIOUS
  <2> QED
    BY <2>3, <2>4
<1> HIDE DEF f
<1>3. IsChain(f, n, b, F)
  BY <1>1, <1>2 DEF IsChain
<1> QED
  BY <1>3 DEF f

(* A loop over 1..n has a value after each step. *)
LEMMA ChainExists ==
  ASSUME NEW n \in Nat, NEW A, NEW b \in A, NEW F \in [A \X (1..n) -> A]
  PROVE  \E f \in [0..n -> A] : IsChain(f, n, b, F)
<1>1. PICK g \in [SUBSET (1..n) -> A] : IsLeftFold(g, n, b, F)
  BY LeftFoldExists
<1>2. [i \in 0..n |-> g[1..i]] \in [0..n -> A]
  OBVIOUS
<1>3. IsChain([i \in 0..n |-> g[1..i]], n, b, F)
  BY <1>1, LeftFoldChain
<1> QED
  BY <1>2, <1>3

(* Sums over finite sets *)

Pick(s) == CHOOSE x \in s : TRUE

(* g adds up f over every subset of S, the way MapThenSumSet does           *)
SumIter(f, S, g) ==
  g = [s \in SUBSET S |-> IF s = {} THEN 0 ELSE f[Pick(s)] + g[s \ {Pick(s)}]]

Total(f, S) == (CHOOSE g : SumIter(f, S, g))[S]

(* Induction over the subsets of a finite set, G being the set of the good  *)
(* ones.                                                                    *)
LEMMA SubsetInduction ==
  ASSUME NEW S, IsFiniteSet(S), NEW G,
         \A s \in SUBSET S : (\A r \in SUBSET s : r # s => r \in G) => s \in G
  PROVE  S \in G
<1> DEFINE Bad == {s \in SUBSET S : s \notin G}
           N == {Cardinality(s) : s \in Bad}
<1>1. \A s \in SUBSET S : IsFiniteSet(s) /\ Cardinality(s) \in Nat
  BY FS_Subset, FS_CardinalityType
<1> SUFFICES ASSUME Bad # {} PROVE FALSE
  OBVIOUS
<1>2. N \subseteq Nat /\ N # {}
  BY <1>1
<1> HIDE DEF N
<1>3. PICK n \in N : \A m \in N : n <= m
  BY <1>2, LeastNat
<1>4. \A m \in N : ~(m < n)
  BY <1>2, <1>3
<1>5. PICK s \in Bad : n = Cardinality(s)
  BY DEF N
<1>6. ASSUME NEW r \in SUBSET s, r # s
      PROVE  r \in G
  <2>1. r \in SUBSET S /\ Cardinality(r) \in Nat /\ Cardinality(r) < Cardinality(s)
    BY <1>1, <1>5, <1>6, FS_Subset
  <2> QED
    BY <1>4, <1>5, <2>1 DEF N
<1> QED
  BY <1>5, <1>6

(* What is left without the chosen element is a smaller set. *)
LEMMA PickIn ==
  ASSUME NEW s, s # {}
  PROVE  Pick(s) \in s /\ s \ {Pick(s)} \in SUBSET s /\ s \ {Pick(s)} # s
<1>1. Pick(s) \in s
  BY DEF Pick
<1> QED
  BY <1>1

(* Two such functions agree where both are defined. *)
LEMMA ItersAgree ==
  ASSUME NEW f, NEW g, NEW S, NEW h, NEW T, NEW R \in SUBSET S, R \in SUBSET T,
         IsFiniteSet(R), SumIter(f, S, g), SumIter(f, T, h)
  PROVE  g[R] = h[R]
<1> DEFINE G == {s \in SUBSET R : g[s] = h[s]}
<1>1. ASSUME NEW s \in SUBSET R, \A r \in SUBSET s : r # s => r \in G
      PROVE  s \in G
  <2>1. /\ s = {} => g[s] = 0 /\ h[s] = 0
        /\ s # {} => /\ g[s] = f[Pick(s)] + g[s \ {Pick(s)}]
                     /\ h[s] = f[Pick(s)] + h[s \ {Pick(s)}]
    BY DEF SumIter
  <2>2. s # {} => g[s \ {Pick(s)}] = h[s \ {Pick(s)}]
    BY <1>1, PickIn
  <2> QED
    BY <2>1, <2>2
<1> HIDE DEF G
<1>2. R \in G
  BY <1>1, SubsetInduction
<1> QED
  BY <1>2 DEF G

(* Every finite set has one. *)
LEMMA IterExists ==
  ASSUME NEW f, NEW S, IsFiniteSet(S), \A x \in S : f[x] \in Int
  PROVE  \E g : SumIter(f, S, g)
<1> DEFINE F == [p \in Int \X S |-> f[p[2]] + p[1]]
           c == [s \in SUBSET S |-> Pick(s)]
<1>1. F \in [Int \X S -> Int] /\ 0 \in Int
  OBVIOUS
<1>2. \A s \in SUBSET S : s # {} => c[s] \in s
  BY PickIn
<1>3. \A x \in Int, y \in S : F[<<x, y>>] = f[y] + x
  OBVIOUS
<1>4. \A s \in SUBSET S : c[s] = Pick(s)
  OBVIOUS
<1> HIDE DEF F, c
<1>5. PICK g \in [SUBSET S -> Int] : IsFold(g, S, 0, F, c)
  BY <1>1, <1>2, FoldExists
<1>6. ASSUME NEW s \in SUBSET S
      PROVE  g[s] = IF s = {} THEN 0 ELSE f[Pick(s)] + g[s \ {Pick(s)}]
  <2>1. s # {} => Pick(s) \in S /\ g[s \ {Pick(s)}] \in Int
    BY <1>5, PickIn
  <2> QED
    BY <1>3, <1>4, <1>5, <2>1 DEF IsFold
<1>7. g = [s \in SUBSET S |-> g[s]]
  BY <1>5
<1> QED
  BY <1>6, <1>7 DEF SumIter

(* A sum takes its chosen element off. *)
LEMMA TotalUnfolds ==
  ASSUME NEW f, NEW S, IsFiniteSet(S), \A x \in S : f[x] \in Int
  PROVE  /\ Total(f, {}) = 0
         /\ S # {} => Total(f, S) = f[Pick(S)] + Total(f, S \ {Pick(S)})
<1> DEFINE It(s) == CHOOSE g : SumIter(f, s, g)
           R == S \ {Pick(S)}
<1>1. IsFiniteSet({}) /\ IsFiniteSet(R)
  BY FS_EmptySet, FS_Subset
<1>2. SumIter(f, S, It(S)) /\ SumIter(f, {}, It({})) /\ SumIter(f, R, It(R))
  BY <1>1, IterExists
<1>2a. R \in SUBSET S /\ R \in SUBSET R
  OBVIOUS
<1> HIDE DEF It
<1>3. It({})[{}] = 0
  BY <1>2 DEF SumIter
<1>4. It(S)[R] = It(R)[R]
  <2> HIDE DEF R
  <2>1. ASSUME NEW g, NEW h, SumIter(f, S, g), SumIter(f, R, h)
        PROVE  g[R] = h[R]
    BY ONLY <1>1, <1>2a, <2>1, ItersAgree
  <2> QED
    BY <1>2, <2>1
<1>5. S # {} => It(S)[S] = f[Pick(S)] + It(S)[R]
  BY <1>2 DEF SumIter
<1> QED
  BY <1>3, <1>4, <1>5 DEF Total, It

(* A sum of integers is an integer, and takes any element off. *)
LEMMA TotalPeels ==
  ASSUME NEW f, NEW S, IsFiniteSet(S), \A x \in S : f[x] \in Int
  PROVE  /\ Total(f, S) \in Int
         /\ \A x \in S : Total(f, S) = f[x] + Total(f, S \ {x})
<1> DEFINE G == {s \in SUBSET S : /\ Total(f, s) \in Int
                                  /\ \A x \in s : Total(f, s) = f[x] + Total(f, s \ {x})}
<1>1. ASSUME NEW s \in SUBSET S, \A r \in SUBSET s : r # s => r \in G
      PROVE  s \in G
  <2>1. IsFiniteSet(s) /\ \A x \in s : f[x] \in Int
    BY FS_Subset
  <2>2. CASE s = {}
    <3>1. Total(f, s) = 0
      BY <2>1, <2>2, TotalUnfolds
    <3> QED
      BY <2>2, <3>1
  <2>3. CASE s # {}
    <3> DEFINE p == Pick(s)
    <3>1. p \in s /\ f[p] \in Int /\ s \ {p} \in G
      BY <1>1, <2>3, PickIn
    <3>2. Total(f, s) = f[p] + Total(f, s \ {p}) /\ Total(f, s \ {p}) \in Int
      BY <2>1, <2>3, <3>1, TotalUnfolds
    <3> HIDE DEF p
    <3>3. ASSUME NEW x \in s, x # p
          PROVE  Total(f, s) = f[x] + Total(f, s \ {x})
      <4> DEFINE r == (s \ {p}) \ {x}
      <4>1. r = (s \ {x}) \ {p} /\ x \in s \ {p} /\ p \in s \ {x}
        BY <3>1, <3>3
      <4>2. s \ {x} \in G /\ r \in G
        BY <1>1, <3>1, <3>3
      <4>3. Total(f, s \ {p}) = f[x] + Total(f, r)
        BY <3>1, <4>1
      <4>4. Total(f, s \ {x}) = f[p] + Total(f, r)
        BY <4>1, <4>2
      <4>5. Total(f, r) \in Int /\ f[x] \in Int
        BY <4>2
      <4> HIDE DEF r, G
      <4> QED
        BY <3>1, <3>2, <4>3, <4>4, <4>5
    <3> QED
      BY <3>1, <3>2, <3>3
  <2> QED
    BY <2>2, <2>3
<1> HIDE DEF G
<1>2. S \in G
  BY <1>1, SubsetInduction
<1> QED
  BY <1>2 DEF G

(* It depends on the values of the elements alone. *)
LEMMA TotalSame ==
  ASSUME NEW f, NEW g, NEW S, IsFiniteSet(S), \A x \in S : f[x] \in Int /\ f[x] = g[x]
  PROVE  Total(f, S) = Total(g, S)
<1> DEFINE G == {s \in SUBSET S : Total(f, s) = Total(g, s)}
<1>1. ASSUME NEW s \in SUBSET S, \A r \in SUBSET s : r # s => r \in G
      PROVE  s \in G
  <2>1. IsFiniteSet(s) /\ \A x \in s : f[x] \in Int /\ f[x] = g[x] /\ g[x] \in Int
    BY FS_Subset
  <2>2. s # {} => Pick(s) \in S /\ Total(f, s \ {Pick(s)}) = Total(g, s \ {Pick(s)})
    BY <1>1, PickIn
  <2>3. /\ s = {} => Total(f, s) = 0 /\ Total(g, s) = 0
        /\ s # {} => /\ Total(f, s) = f[Pick(s)] + Total(f, s \ {Pick(s)})
                     /\ Total(g, s) = g[Pick(s)] + Total(g, s \ {Pick(s)})
    BY <2>1, TotalUnfolds
  <2> QED
    BY <2>1, <2>2, <2>3, PickIn
<1> HIDE DEF G
<1>2. S \in G
  BY <1>1, SubsetInduction
<1> QED
  BY <1>2 DEF G

(* A sum of naturals is a natural. *)
LEMMA TotalNat ==
  ASSUME NEW f, NEW S, IsFiniteSet(S), \A x \in S : f[x] \in Nat
  PROVE  Total(f, S) \in Nat
<1> DEFINE G == {s \in SUBSET S : Total(f, s) \in Nat}
<1>1. ASSUME NEW s \in SUBSET S, \A r \in SUBSET s : r # s => r \in G
      PROVE  s \in G
  <2>1. IsFiniteSet(s) /\ \A x \in s : f[x] \in Int
    BY FS_Subset
  <2>2. s # {} => f[Pick(s)] \in Nat /\ Total(f, s \ {Pick(s)}) \in Nat
    BY <1>1, PickIn
  <2>3. CASE s = {}
    <3>1. Total(f, s) = 0
      BY <2>1, <2>3, TotalUnfolds
    <3> QED
      BY <3>1
  <2>4. CASE s # {}
    <3>1. Total(f, s) = f[Pick(s)] + Total(f, s \ {Pick(s)})
      BY <2>1, <2>4, TotalUnfolds
    <3> QED
      BY <2>2, <2>4, <3>1
  <2> QED
    BY <2>3, <2>4
<1> HIDE DEF G
<1>2. S \in G
  BY <1>1, SubsetInduction
<1> QED
  BY <1>2 DEF G
(* Tables and sequences *)
LEMMA TableSeq ==
  ASSUME NEW n \in Nat, NEW S, NEW f \in [1..n -> S]
  PROVE  f \in Seq(S) /\ Len(f) = n
OBVIOUS

(* Two sequences of one length that agree everywhere are one. *)
LEMMA SameSeq ==
  ASSUME NEW S, NEW s \in Seq(S), NEW t \in Seq(S), Len(s) = Len(t),
         \A i \in 1..Len(s) : s[i] = t[i]
  PROVE  s = t
OBVIOUS

(* Sequences of bytes *)
ByteSeq == Seq(SUBSET (0..7))

(* A sequence of n bytes *)
Block(s, n) == s \in ByteSeq /\ Len(s) = n

(* The n bytes of s are in data after the first offset ones. *)
Has(data, offset, s, n) == \A k \in 1..n : data[offset + k] = s[k]

(* write_u16le and write_u32le put the bytes they are asked for. *)
LEMMA WriteLEType ==
  ASSUME NEW n \in Nat, NEW word
  PROVE  Block(WriteLE(word, n), n)
BY DEF WriteLE, ByteSeq, Block

(* A bit of a word is a bit of one of its bytes. *)
LEMMA BitPlace ==
  ASSUME NEW n \in Nat, NEW x \in 0..(8 * n - 1)
  PROVE  /\ x \div 8 \in 0..(n - 1) /\ x % 8 \in 0..7
         /\ x = 8 * (x \div 8) + (x % 8)
OBVIOUS

(* The readers of the viewer take out the word that the writer put in. *)
THEOREM ViewerReadsWord ==
  ASSUME NEW n \in Nat, NEW word \in Words(n), NEW data \in ByteSeq,
         NEW offset \in Nat, Has(data, offset, WriteLE(word, n), n)
  PROVE  ReadLE(data, offset, n) = word
<1>1. ASSUME NEW k \in 0..(n - 1)
      PROVE  data[offset + k + 1] = {b \in 0..7 : 8 * k + b \in word}
  <2>1. k + 1 \in 1..n /\ offset + (k + 1) = offset + k + 1
    OBVIOUS
  <2>2. data[offset + k + 1] = WriteLE(word, n)[k + 1]
    BY <2>1 DEF Has
  <2>3. WriteLE(word, n)[k + 1] = {b \in 0..7 : 8 * (k + 1 - 1) + b \in word}
    BY <2>1 DEF WriteLE
  <2>4. k + 1 - 1 = k
    OBVIOUS
  <2> QED
    BY <2>2, <2>3, <2>4
<1>2. ASSUME NEW x \in ReadLE(data, offset, n)
      PROVE  x \in word
  <2>1. PICK k \in 0..(n - 1) : x \in {8 * k + b : b \in data[offset + k + 1]}
    BY DEF ReadLE
  <2>2. PICK b \in data[offset + k + 1] : x = 8 * k + b
    BY <2>1
  <2> QED
    BY <1>1, <2>2
<1>3. ASSUME NEW x \in word
      PROVE  x \in ReadLE(data, offset, n)
  <2>1. PICK k \in 0..(n - 1), b \in 0..7 : x = 8 * k + b
    BY BitPlace DEF Words
  <2>2. b \in data[offset + k + 1]
    BY <1>1, <2>1
  <2>3. x \in {8 * k + c : c \in data[offset + k + 1]}
    BY <2>1, <2>2
  <2> QED
    BY <2>3 DEF ReadLE
<1> QED
  BY <1>2, <1>3

(* And so does struct.unpack, as mt_decode.py uses it. *)
THEOREM ScriptReadsWord ==
  ASSUME NEW n \in Nat, NEW word \in Words(n), NEW data \in ByteSeq,
         NEW offset \in Nat, Has(data, offset, WriteLE(word, n), n)
  PROVE  Unpack(data, offset, n) = word
<1>1. ASSUME NEW x \in 0..(8 * n - 1)
      PROVE  x % 8 \in data[offset + 1 + x \div 8] <=> x \in word
  <2>1. /\ x \div 8 \in 0..(n - 1) /\ x % 8 \in 0..7
        /\ x = 8 * (x \div 8) + (x % 8)
    BY BitPlace
  <2> DEFINE k == x \div 8
             r == x % 8
  <2> HIDE DEF k, r
  <2>2. k \in 0..(n - 1) /\ r \in 0..7 /\ x = 8 * k + r
    BY <2>1 DEF k, r
  <2>3. k + 1 \in 1..n /\ offset + (k + 1) = offset + 1 + k /\ k + 1 - 1 = k
    BY <2>2
  <2>4. data[offset + 1 + k] = WriteLE(word, n)[k + 1]
    BY <2>3 DEF Has
  <2>5. WriteLE(word, n)[k + 1] = {b \in 0..7 : 8 * (k + 1 - 1) + b \in word}
    BY <2>2, <2>3 DEF WriteLE
  <2>6. r \in data[offset + 1 + k] <=> x \in word
    BY <2>2, <2>3, <2>4, <2>5
  <2> QED
    BY <2>6 DEF k, r
<1>2. word \subseteq 0..(8 * n - 1)
  BY DEF Words
<1> QED
  BY <1>1, <1>2 DEF Unpack
-----------------------------------------------------------------------------
(* A record *)

(* The concatenation of two blocks, and a part of a part *)
LEMMA Join ==
  ASSUME NEW m \in Nat, NEW n \in Nat, NEW s, NEW t, Block(s, m), Block(t, n)
  PROVE  Block(s \o t, m + n) /\ Has(s \o t, 0, s, m) /\ Has(s \o t, m, t, n)
BY DEF Block, Has, ByteSeq

(* A part of a part of a file is a part of the file. *)
LEMMA Inner ==
  ASSUME NEW u, NEW s, NEW x, NEW m \in Nat, NEW i \in Nat, NEW n \in Nat,
         NEW o \in Nat, Has(u, o, s, m), Has(s, i, x, n), i + n <= m
  PROVE  Has(u, o + i, x, n)
<1> SUFFICES ASSUME NEW k \in 1..n PROVE u[(o + i) + k] = x[k]
  BY DEF Has
<1>1. i + k \in 1..m /\ o + (i + k) = (o + i) + k
  OBVIOUS
<1> QED
  BY <1>1 DEF Has

(* A part of the left one of two blocks *)
LEMMA Within ==
  ASSUME NEW u, NEW s, NEW x, NEW m \in Nat, NEW i \in Nat, NEW n \in Nat,
         Has(u, 0, s, m), Has(s, i, x, n), i + n <= m
  PROVE  Has(u, i, x, n)
<1>1. Has(u, 0 + i, x, n) /\ 0 + i = i
  BY Inner
<1> QED
  BY <1>1

(* Where the parts of a record are in its 24 bytes *)
LEMMA Parts ==
  ASSUME NEW a, NEW b, NEW c, NEW d, NEW e, NEW f,
         Block(a, 8), Block(b, 4), Block(c, 4), Block(d, 2), Block(e, 2), Block(f, 4),
         NEW bytes, bytes = a \o b \o c \o d \o e \o f
  PROVE  /\ Block(bytes, 24)
         /\ Has(bytes, 0, a, 8) /\ Has(bytes, 8, b, 4) /\ Has(bytes, 12, c, 4)
         /\ Has(bytes, 16, d, 2) /\ Has(bytes, 20, f, 4)
<1> DEFINE ab == a \o b
<1>1. Block(ab, 12) /\ Has(ab, 0, a, 8) /\ Has(ab, 8, b, 4)
  <2>1. 8 \in Nat /\ 4 \in Nat /\ 8 + 4 = 12
    OBVIOUS
  <2>2. Block(ab, 8 + 4) /\ Has(ab, 0, a, 8) /\ Has(ab, 8, b, 4)
    BY <2>1, Join
  <2> QED
    BY <2>1, <2>2
<1> HIDE DEF ab
<1> DEFINE abc == ab \o c
<1>2. Block(abc, 16) /\ Has(abc, 0, ab, 12) /\ Has(abc, 12, c, 4)
  <2>1. 12 \in Nat /\ 4 \in Nat /\ 12 + 4 = 16
    OBVIOUS
  <2>2. Block(abc, 12 + 4) /\ Has(abc, 0, ab, 12) /\ Has(abc, 12, c, 4)
    BY <1>1, <2>1, Join
  <2> QED
    BY <2>1, <2>2
<1> HIDE DEF abc
<1> DEFINE abcd == abc \o d
<1>3. Block(abcd, 18) /\ Has(abcd, 0, abc, 16) /\ Has(abcd, 16, d, 2)
  <2>1. 16 \in Nat /\ 2 \in Nat /\ 16 + 2 = 18
    OBVIOUS
  <2>2. Block(abcd, 16 + 2) /\ Has(abcd, 0, abc, 16) /\ Has(abcd, 16, d, 2)
    BY <1>2, <2>1, Join
  <2> QED
    BY <2>1, <2>2
<1> HIDE DEF abcd
<1> DEFINE abcde == abcd \o e
<1>4. Block(abcde, 20) /\ Has(abcde, 0, abcd, 18) /\ Has(abcde, 18, e, 2)
  <2>1. 18 \in Nat /\ 2 \in Nat /\ 18 + 2 = 20
    OBVIOUS
  <2>2. Block(abcde, 18 + 2) /\ Has(abcde, 0, abcd, 18) /\ Has(abcde, 18, e, 2)
    BY <1>3, <2>1, Join
  <2> QED
    BY <2>1, <2>2
<1> HIDE DEF abcde
<1> DEFINE all == abcde \o f
<1>5. Block(all, 24) /\ Has(all, 0, abcde, 20) /\ Has(all, 20, f, 4)
  <2>1. 20 \in Nat /\ 4 \in Nat /\ 20 + 4 = 24
    OBVIOUS
  <2>2. Block(all, 20 + 4) /\ Has(all, 0, abcde, 20) /\ Has(all, 20, f, 4)
    BY <1>4, <2>1, Join
  <2> QED
    BY <2>1, <2>2
<1> HIDE DEF all
<1>6. Has(all, 0, abcd, 18) /\ Has(all, 16, d, 2)
  BY <1>3, <1>4, <1>5, Within
<1>7. Has(all, 0, abc, 16) /\ Has(all, 12, c, 4)
  BY <1>2, <1>3, <1>6, Within
<1>8. Has(all, 0, ab, 12) /\ Has(all, 8, b, 4)
  BY <1>1, <1>2, <1>7, Within
<1>9. Has(all, 0, a, 8)
  BY <1>1, <1>8, Within
<1>10. bytes = all
  BY DEF ab, abc, abcd, abcde, all
<1> QED
  BY <1>5, <1>6, <1>7, <1>8, <1>9, <1>10

(* The fields of a record are at their places. *)
LEMMA RecordLayout ==
  ASSUME NEW r \in RecordType
  PROVE  /\ Block(RecordBytes(r), 24)
         /\ Has(RecordBytes(r), 0, WriteLE(r.ptr, 8), 8)
         /\ Has(RecordBytes(r), 8, WriteLE(r.size, 4), 4)
         /\ Has(RecordBytes(r), 12, WriteLE(r.file_id, 4), 4)
         /\ Has(RecordBytes(r), 16, WriteLE(r.line, 2), 2)
         /\ Has(RecordBytes(r), 20, WriteLE(r.seq, 4), 4)
<1> DEFINE a == WriteLE(r.ptr, 8)
           b == WriteLE(r.size, 4)
           c == WriteLE(r.file_id, 4)
           d == WriteLE(r.line, 2)
           e == <<StateUsed, {}>>
           f == WriteLE(r.seq, 4)
<1>1. Block(a, 8) /\ Block(b, 4) /\ Block(c, 4) /\ Block(d, 2) /\ Block(f, 4)
  BY WriteLEType
<1>2. Block(e, 2)
  BY DEF ByteSeq, StateUsed, Block
<1>3. RecordBytes(r) = a \o b \o c \o d \o e \o f
  BY DEF RecordBytes
<1> HIDE DEF a, b, c, d, e, f
<1>4. /\ Block(RecordBytes(r), 24) /\ Has(RecordBytes(r), 0, a, 8) /\ Has(RecordBytes(r), 8, b, 4)
      /\ Has(RecordBytes(r), 12, c, 4) /\ Has(RecordBytes(r), 16, d, 2)
      /\ Has(RecordBytes(r), 20, f, 4)
  BY <1>1, <1>2, <1>3, Parts
<1> QED
  BY <1>4 DEF a, b, c, d, f

(* A field that is at place o of a record is read at that place. *)
LEMMA FieldRead ==
  ASSUME NEW bytes, NEW data \in ByteSeq, NEW offset \in Nat,
         Has(data, offset, bytes, 24),
         NEW o \in Nat, NEW n \in Nat, NEW w \in Words(n), o + n <= 24,
         Has(bytes, o, WriteLE(w, n), n)
  PROVE  ReadLE(data, offset + o, n) = w /\ Unpack(data, offset + o, n) = w
<1>1. offset + o \in Nat /\ 24 \in Nat
  OBVIOUS
<1>2. Has(data, offset + o, WriteLE(w, n), n)
  BY <1>1, Inner
<1> QED
  BY <1>1, <1>2, ViewerReadsWord, ScriptReadsWord

(* Wherever in a file the 24 bytes of a record are, both readers return     *)
(* exactly that record, whatever its values.                                *)
THEOREM RecordRoundTrip ==
  ASSUME NEW r \in RecordType, NEW data \in ByteSeq, NEW offset \in Nat,
         Has(data, offset, RecordBytes(r), RecordSize)
  PROVE  RecordOf(data, offset) = r /\ ParseRecord(data, offset) = r
<1>1. Has(data, offset, RecordBytes(r), 24)
  BY DEF RecordSize
<1>2. /\ r.ptr \in Words(8) /\ r.size \in Words(4) /\ r.file_id \in Words(4)
      /\ r.line \in Words(2) /\ r.seq \in Words(4)
      /\ r = [ptr |-> r.ptr, size |-> r.size, file_id |-> r.file_id,
              line |-> r.line, seq |-> r.seq]
  BY DEF RecordType
<1>3. ReadLE(data, offset + 0, 8) = r.ptr /\ Unpack(data, offset + 0, 8) = r.ptr
  <2>1. Has(RecordBytes(r), 0, WriteLE(r.ptr, 8), 8)
    BY RecordLayout
  <2>2. 0 \in Nat /\ 8 \in Nat /\ 0 + 8 <= 24 /\ r.ptr \in Words(8)
    BY <1>2
  <2> QED
    BY <1>1, <2>1, <2>2, FieldRead
<1>4. ReadLE(data, offset + 8, 4) = r.size /\ Unpack(data, offset + 8, 4) = r.size
  <2>1. Has(RecordBytes(r), 8, WriteLE(r.size, 4), 4)
    BY RecordLayout
  <2>2. 8 \in Nat /\ 4 \in Nat /\ 8 + 4 <= 24 /\ r.size \in Words(4)
    BY <1>2
  <2> QED
    BY <1>1, <2>1, <2>2, FieldRead
<1>5. ReadLE(data, offset + 12, 4) = r.file_id /\ Unpack(data, offset + 12, 4) = r.file_id
  <2>1. Has(RecordBytes(r), 12, WriteLE(r.file_id, 4), 4)
    BY RecordLayout
  <2>2. 12 \in Nat /\ 4 \in Nat /\ 12 + 4 <= 24 /\ r.file_id \in Words(4)
    BY <1>2
  <2> QED
    BY <1>1, <2>1, <2>2, FieldRead
<1>6. ReadLE(data, offset + 16, 2) = r.line /\ Unpack(data, offset + 16, 2) = r.line
  <2>1. Has(RecordBytes(r), 16, WriteLE(r.line, 2), 2)
    BY RecordLayout
  <2>2. 16 \in Nat /\ 2 \in Nat /\ 16 + 2 <= 24 /\ r.line \in Words(2)
    BY <1>2
  <2> QED
    BY <1>1, <2>1, <2>2, FieldRead
<1>7. ReadLE(data, offset + 20, 4) = r.seq /\ Unpack(data, offset + 20, 4) = r.seq
  <2>1. Has(RecordBytes(r), 20, WriteLE(r.seq, 4), 4)
    BY RecordLayout
  <2>2. 20 \in Nat /\ 4 \in Nat /\ 20 + 4 <= 24 /\ r.seq \in Words(4)
    BY <1>2
  <2> QED
    BY <1>1, <2>1, <2>2, FieldRead
<1>8. offset + 0 = offset
  OBVIOUS
<1> QED
  BY <1>2, <1>3, <1>4, <1>5, <1>6, <1>7, <1>8 DEF RecordOf, ParseRecord

-----------------------------------------------------------------------------
(* The checksum *)

Crc == SUBSET (0..31)

(* The highest bit of the polynomial is set: a step of the checksum tells    *)
(* the bit it shifted out.                                                   *)
LEMMA PolyTop == 31 \in Poly /\ Poly \in Crc
BY DEF Poly, Crc

(* One step of the checksum, and the bit by which it can be undone. *)
LEMMA CrcBitType ==
  ASSUME NEW c \in Crc
  PROVE  CrcBit(c) \in Crc /\ (31 \in CrcBit(c) <=> 0 \in c)
<1>1. Shift(c) \in SUBSET (0..30)
  BY DEF Shift, Crc
<1>2. 31 \notin Shift(c) /\ Shift(c) \subseteq 0..31 /\ Poly \subseteq 0..31
  BY <1>1, PolyTop DEF Crc
<1>3. CASE 0 \in c
  BY <1>2, <1>3, PolyTop DEF CrcBit, SymDiff, Crc
<1>4. CASE 0 \notin c
  BY <1>2, <1>4 DEF CrcBit, Crc
<1> QED
  BY <1>3, <1>4

(* The highest bit tells whether the polynomial was added, so no two words    *)
(* are shifted to the same one.                                              *)
LEMMA CrcBitInjective ==
  ASSUME NEW c \in Crc, NEW d \in Crc, CrcBit(c) = CrcBit(d)
  PROVE  c = d
<1>1. 0 \in c <=> 0 \in d
  BY CrcBitType
<1>2. Shift(c) = Shift(d)
  <2>1. CASE 0 \in c
    <3>1. SymDiff(Shift(c), Poly) = SymDiff(Shift(d), Poly)
      BY <1>1, <2>1 DEF CrcBit
    <3>2. \A x : x \in Shift(c) <=> x \in Shift(d)
      BY <3>1 DEF SymDiff
    <3> QED
      BY <3>2
  <2>2. CASE 0 \notin c
    BY <1>1, <2>2 DEF CrcBit
  <2> QED
    BY <2>1, <2>2
<1>3. \A x \in 1..31 : x \in c <=> x - 1 \in Shift(c)
  BY DEF Shift, Crc
<1>4. \A x \in 1..31 : x \in d <=> x - 1 \in Shift(d)
  BY DEF Shift, Crc
<1>5. \A x \in 0..31 : x \in c <=> x \in d
  BY <1>1, <1>2, <1>3, <1>4
<1>6. c \subseteq 0..31 /\ d \subseteq 0..31
  BY DEF Crc
<1> QED
  BY <1>5, <1>6

(* A byte of the checksum is eight of these steps. *)
LEMMA CrcByteChain ==
  ASSUME NEW c \in Crc, NEW byte \in SUBSET (0..7)
  PROVE  \E f \in [0..8 -> Crc] :
           /\ f[0] = SymDiff(c, byte)
           /\ \A i \in 1..8 : f[i] = CrcBit(f[i - 1])
           /\ CrcByte(c, byte) = f[8]
<1> DEFINE b == SymDiff(c, byte)
           F == [p \in Crc \X (1..8) |-> CrcBit(p[1])]
           By(g) == g = [bits \in 0..8 |-> IF bits = 0 THEN b ELSE CrcBit(g[bits - 1])]
           h == CHOOSE g : By(g)
<1>1. b \in Crc
  BY DEF SymDiff, Crc
<1>2. F \in [Crc \X (1..8) -> Crc]
  BY CrcBitType
<1>3. \A x \in Crc, i \in 1..8 : F[<<x, i>>] = CrcBit(x)
  OBVIOUS
<1>4. CrcByte(c, byte) = h[8]
  BY DEF CrcByte
<1> HIDE DEF b, F
<1>5. PICK f \in [0..8 -> Crc] : IsChain(f, 8, b, F)
  BY <1>1, <1>2, ChainExists
<1>6. f[0] = b /\ \A i \in 1..8 : f[i] = CrcBit(f[i - 1])
  <2>1. \A i \in 1..8 : f[i - 1] \in Crc
    OBVIOUS
  <2> QED
    BY <1>3, <1>5, <2>1 DEF IsChain
<1>7. By(f)
  <2>1. f = [i \in 0..8 |-> f[i]]
    BY <1>5
  <2>2. \A i \in 0..8 : f[i] = IF i = 0 THEN b ELSE CrcBit(f[i - 1])
    BY <1>5, <1>6
  <2> QED
    BY <2>1, <2>2
<1>8. By(h)
  BY <1>7
<1> HIDE DEF h
<1>9. /\ h = [i \in 0..8 |-> h[i]] /\ h[0] = b
      /\ \A i \in 1..8 : h[i] = CrcBit(h[i - 1])
  BY <1>8
<1>10. h \in [0..8 -> Crc]
  <2> DEFINE G == {i \in 0..8 : h[i] \in Crc}
  <2>1. 0 \in G
    BY <1>1, <1>9
  <2>2. ASSUME NEW i \in 1..8, i - 1 \in G
        PROVE  i \in G
    BY <1>9, <2>2, CrcBitType
  <2> HIDE DEF G
  <2>3. \A i \in 0..8 : i \in G
    BY <2>1, <2>2, UpTo
  <2> QED
    BY <1>9, <2>3 DEF G
<1> QED
  BY <1>4, <1>9, <1>10 DEF b

(* Different words stay different, and a byte makes a difference.            *)
LEMMA CrcByteInjective ==
  ASSUME NEW c \in Crc, NEW d \in Crc, NEW x \in SUBSET (0..7), NEW y \in SUBSET (0..7)
  PROVE  /\ CrcByte(c, x) \in Crc
         /\ CrcByte(c, x) = CrcByte(d, x) => c = d
         /\ CrcByte(c, x) = CrcByte(c, y) => x = y
<1>1. \A u \in Crc, z \in SUBSET (0..7) : CrcByte(u, z) \in Crc
  BY CrcByteChain
<1>2. ASSUME NEW u \in Crc, NEW v \in Crc, NEW w \in SUBSET (0..7),
             NEW z \in SUBSET (0..7), CrcByte(u, w) = CrcByte(v, z)
      PROVE  SymDiff(u, w) = SymDiff(v, z)
  <2>1. PICK f \in [0..8 -> Crc] :
          /\ f[0] = SymDiff(u, w) /\ \A i \in 1..8 : f[i] = CrcBit(f[i - 1])
          /\ CrcByte(u, w) = f[8]
    BY CrcByteChain
  <2>2. PICK g \in [0..8 -> Crc] :
          /\ g[0] = SymDiff(v, z) /\ \A i \in 1..8 : g[i] = CrcBit(g[i - 1])
          /\ CrcByte(v, z) = g[8]
    BY CrcByteChain
  <2> DEFINE G == {i \in 0..8 : f[8 - i] = g[8 - i]}
  <2>3. 0 \in G
    <3>1. f[8] = g[8]
      BY <1>2, <2>1, <2>2
    <3>2. 8 - 0 = 8 /\ 0 \in 0..8
      OBVIOUS
    <3> QED
      BY <3>1, <3>2
  <2>4. ASSUME NEW i \in 1..8, i - 1 \in G
        PROVE  i \in G
    <3>1. 8 - (i - 1) \in 1..8 /\ (8 - (i - 1)) - 1 = 8 - i /\ 8 - i \in 0..8
      OBVIOUS
    <3>2. f[8 - (i - 1)] = CrcBit(f[8 - i]) /\ g[8 - (i - 1)] = CrcBit(g[8 - i])
      BY <2>1, <2>2, <3>1
    <3>3. f[8 - i] = g[8 - i]
      BY <2>4, <3>1, <3>2, CrcBitInjective
    <3> QED
      BY <3>3
  <2> HIDE DEF G
  <2>5. 8 \in G
    BY <2>3, <2>4, UpTo
  <2>6. f[0] = g[0]
    BY <2>5 DEF G
  <2> QED
    BY <2>1, <2>2, <2>6
<1>3. \A a, b, e : SymDiff(a, e) = SymDiff(b, e) => a = b
  BY DEF SymDiff
<1>4. \A a, b, e : SymDiff(e, a) = SymDiff(e, b) => a = b
  BY DEF SymDiff
<1> QED
  BY <1>1, <1>2, <1>3, <1>4

(* A byte of the checksum can be undone: different checksums stay different. *)
LEMMA CrcByteStart ==
  ASSUME NEW c \in Crc, NEW d \in Crc, NEW x \in SUBSET (0..7),
         CrcByte(c, x) = CrcByte(d, x)
  PROVE  c = d
BY CrcByteInjective

(* Different bytes take a checksum to different checksums. *)
LEMMA CrcByteTold ==
  ASSUME NEW c \in Crc, NEW x \in SUBSET (0..7), NEW y \in SUBSET (0..7),
         CrcByte(c, x) = CrcByte(c, y)
  PROVE  x = y
BY CrcByteInjective

(* The loop over the bytes *)
LEMMA CrcLoopChain ==
  ASSUME NEW bytes \in ByteSeq, NEW c \in Crc
  PROVE  \E f \in [0..Len(bytes) -> Crc] :
           /\ f[0] = c
           /\ \A i \in 1..Len(bytes) : f[i] = CrcByte(f[i - 1], bytes[i])
           /\ CrcLoop(bytes, c) = f[Len(bytes)]
<1> DEFINE n == Len(bytes)
           F == [p \in Crc \X (1..n) |-> CrcByte(p[1], bytes[p[2]])]
           By(g) == g = [i \in 0..n |->
                           IF i = 0 THEN c
                           ELSE UNION {CrcByte(u, bytes[i]) : u \in {g[i - 1]}}]
           h == CHOOSE g : By(g)
<1>0. n \in Nat /\ \A i \in 1..n : bytes[i] \in SUBSET (0..7)
  BY DEF ByteSeq
<1>1. \A u, byte : UNION {CrcByte(v, byte) : v \in {u}} = CrcByte(u, byte)
  OBVIOUS
<1>2. F \in [Crc \X (1..n) -> Crc]
  BY <1>0, CrcByteInjective
<1>3. \A x \in Crc, i \in 1..n : F[<<x, i>>] = CrcByte(x, bytes[i])
  OBVIOUS
<1>4. CrcLoop(bytes, c) = h[n]
  BY DEF CrcLoop
<1> HIDE DEF F, n
<1>5. PICK f \in [0..n -> Crc] : IsChain(f, n, c, F)
  BY <1>0, <1>2, ChainExists
<1>6. f[0] = c /\ \A i \in 1..n : f[i] = CrcByte(f[i - 1], bytes[i])
  <2>1. \A i \in 1..n : f[i - 1] \in Crc
    BY <1>0
  <2> QED
    BY <1>3, <1>5, <2>1 DEF IsChain
<1>7. By(f)
  <2>1. f = [i \in 0..n |-> f[i]]
    BY <1>5
  <2>2. \A i \in 0..n : f[i] = IF i = 0 THEN c
                               ELSE UNION {CrcByte(u, bytes[i]) : u \in {f[i - 1]}}
    BY <1>0, <1>1, <1>5, <1>6
  <2> QED
    BY <2>1, <2>2
<1>8. By(h)
  BY <1>7
<1> HIDE DEF h
<1>9. /\ h = [i \in 0..n |-> h[i]] /\ h[0] = c
      /\ \A i \in 1..n : h[i] = CrcByte(h[i - 1], bytes[i])
  <2>1. \A i \in 0..n : h[i] = IF i = 0 THEN c
                               ELSE UNION {CrcByte(u, bytes[i]) : u \in {h[i - 1]}}
    BY <1>8
  <2>2. h = [i \in 0..n |-> h[i]]
    BY <1>8
  <2>3. 0 \in 0..n /\ \A i \in 1..n : i \in 0..n /\ i # 0
    BY <1>0
  <2> QED
    BY <1>1, <2>1, <2>2, <2>3
<1>10. h \in [0..n -> Crc]
  <2> DEFINE G == {i \in 0..n : h[i] \in Crc}
  <2>1. 0 \in G
    BY <1>0, <1>9
  <2>2. ASSUME NEW i \in 1..n, i - 1 \in G
        PROVE  i \in G
    <3>1. h[i - 1] \in Crc /\ bytes[i] \in SUBSET (0..7) /\ h[i] = CrcByte(h[i - 1], bytes[i])
      BY <1>0, <1>9, <2>2
    <3>2. h[i] \in Crc
      BY <3>1, CrcByteInjective
    <3> QED
      BY <3>2
  <2> HIDE DEF G
  <2>3. \A i \in 0..n : i \in G
    BY <1>0, <2>1, <2>2, UpTo
  <2> QED
    BY <1>9, <2>3 DEF G
<1> QED
  BY <1>4, <1>9, <1>10 DEF n

(* A checksum depends on where it starts, and on every byte: two blocks that  *)
(* differ in one byte have different ones.                                   *)
LEMMA CrcStart ==
  ASSUME NEW bytes \in ByteSeq, NEW c \in Crc, NEW d \in Crc
  PROVE  /\ CrcLoop(bytes, c) \in Crc
         /\ CrcLoop(bytes, c) = CrcLoop(bytes, d) => c = d
<1> DEFINE n == Len(bytes)
<1>0. n \in Nat /\ \A i \in 1..n : bytes[i] \in SUBSET (0..7)
  BY DEF ByteSeq
<1>1. PICK f \in [0..n -> Crc] :
        /\ f[0] = c /\ \A i \in 1..n : f[i] = CrcByte(f[i - 1], bytes[i])
        /\ CrcLoop(bytes, c) = f[n]
  BY CrcLoopChain
<1>2. PICK g \in [0..n -> Crc] :
        /\ g[0] = d /\ \A i \in 1..n : g[i] = CrcByte(g[i - 1], bytes[i])
        /\ CrcLoop(bytes, d) = g[n]
  BY CrcLoopChain
<1> HIDE DEF n
<1> DEFINE G == {i \in 0..n : f[i] = g[i] => c = d}
<1>3. 0 \in G
  BY <1>0, <1>1, <1>2
<1>4. ASSUME NEW i \in 1..n, i - 1 \in G
      PROVE  i \in G
  <2>1. i - 1 \in 0..n /\ f[i - 1] \in Crc /\ g[i - 1] \in Crc
    BY <1>0
  <2>2. /\ f[i] = CrcByte(f[i - 1], bytes[i]) /\ g[i] = CrcByte(g[i - 1], bytes[i])
        /\ bytes[i] \in SUBSET (0..7)
    BY <1>0, <1>1, <1>2
  <2>3. f[i] = g[i] => f[i - 1] = g[i - 1]
    BY <2>1, <2>2, CrcByteStart
  <2> QED
    BY <1>4, <2>3
<1> HIDE DEF G
<1>5. n \in G
  <2>1. \A i \in 0..n : i \in G
    BY <1>0, <1>3, <1>4, UpTo
  <2> QED
    BY <1>0, <2>1
<1>6. f[n] \in Crc
  BY <1>0
<1> QED
  BY <1>1, <1>2, <1>5, <1>6 DEF G

(* Files that differ in one byte have different checksums. *)
LEMMA CrcOneByte ==
  ASSUME NEW s \in ByteSeq, NEW t \in ByteSeq, Len(s) = Len(t),
         NEW k \in 1..Len(s), s[k] # t[k],
         \A i \in 1..Len(s) : i # k => s[i] = t[i],
         NEW c \in Crc
  PROVE  CrcLoop(s, c) # CrcLoop(t, c)
<1> DEFINE n == Len(s)
<1>0. /\ n \in Nat /\ n = Len(t) /\ k \in 1..n
      /\ \A i \in 1..n : s[i] \in SUBSET (0..7) /\ t[i] \in SUBSET (0..7)
      /\ \A i \in 1..n : i # k => s[i] = t[i]
  BY DEF ByteSeq
<1>1. PICK f \in [0..n -> Crc] :
        /\ f[0] = c /\ \A i \in 1..n : f[i] = CrcByte(f[i - 1], s[i])
        /\ CrcLoop(s, c) = f[n]
  BY CrcLoopChain
<1>2. PICK g \in [0..n -> Crc] :
        /\ g[0] = c /\ \A i \in 1..n : g[i] = CrcByte(g[i - 1], t[i])
        /\ CrcLoop(t, c) = g[n]
  <2>1. PICK g \in [0..Len(t) -> Crc] :
          /\ g[0] = c /\ \A i \in 1..Len(t) : g[i] = CrcByte(g[i - 1], t[i])
          /\ CrcLoop(t, c) = g[Len(t)]
    BY CrcLoopChain
  <2> QED
    BY <1>0, <2>1
<1> HIDE DEF n
<1> DEFINE G == {i \in 0..n : f[i] = g[i] <=> i < k}
<1>3. 0 \in G
  BY <1>0, <1>1, <1>2
<1>4. ASSUME NEW i \in 1..n, i - 1 \in G
      PROVE  i \in G
  <2>1. i - 1 \in 0..n /\ f[i - 1] \in Crc /\ g[i - 1] \in Crc
    BY <1>0
  <2>2. f[i - 1] = g[i - 1] <=> i - 1 < k
    BY <1>4
  <2>2a. /\ f[i] = CrcByte(f[i - 1], s[i]) /\ g[i] = CrcByte(g[i - 1], t[i])
         /\ s[i] \in SUBSET (0..7) /\ t[i] \in SUBSET (0..7)
    BY <1>0, <1>1, <1>2
  <2>3. CASE i < k
    <3>1. i - 1 < k /\ s[i] = t[i]
      BY <1>0, <2>3
    <3> QED
      BY <1>1, <1>2, <2>2, <2>3, <3>1
  <2>4. CASE i = k
    <3>1. f[i - 1] = g[i - 1] /\ s[i] # t[i]
      BY <1>0, <2>2, <2>4
    <3>2. f[i] # g[i]
      BY <2>1, <2>2a, <3>1, CrcByteTold
    <3> QED
      BY <1>0, <2>4, <3>2
  <2>5. CASE i > k
    <3>1. f[i - 1] # g[i - 1] /\ s[i] = t[i]
      BY <1>0, <2>2, <2>5
    <3>2. f[i] # g[i]
      BY <2>1, <2>2a, <3>1, CrcByteStart
    <3> QED
      BY <1>0, <2>5, <3>2
  <2> QED
    BY <1>0, <2>3, <2>4, <2>5
<1> HIDE DEF G
<1>5. n \in G
  <2>1. \A i \in 0..n : i \in G
    BY <1>0, <1>3, <1>4, UpTo
  <2> QED
    BY <1>0, <2>1
<1> QED
  BY <1>0, <1>1, <1>2, <1>5 DEF G

-----------------------------------------------------------------------------
(* Numbers and their bits *)

PowerOf == [b \in 0..30 |-> 2^b]

(* The powers of two that PowerOf computes, those the counts of a snapshot   *)
(* need.                                                                     *)
LEMMA Powers ==
  /\ PowerOf[0] = 1 /\ PowerOf[1] = 2 /\ PowerOf[2] = 4 /\ PowerOf[3] = 8
  /\ PowerOf[4] = 16 /\ PowerOf[5] = 32 /\ PowerOf[6] = 64 /\ PowerOf[7] = 128
  /\ PowerOf[8] = 256 /\ PowerOf[9] = 512 /\ PowerOf[10] = 1024
  /\ PowerOf[11] = 2048 /\ PowerOf[12] = 4096 /\ PowerOf[13] = 8192
  /\ PowerOf[14] = 16384 /\ PowerOf[15] = 32768 /\ PowerOf[16] = 65536
  /\ PowerOf[17] = 131072 /\ PowerOf[18] = 262144 /\ PowerOf[19] = 524288
  /\ PowerOf[20] = 1048576 /\ PowerOf[21] = 2097152 /\ PowerOf[22] = 4194304
  /\ PowerOf[23] = 8388608 /\ PowerOf[24] = 16777216 /\ PowerOf[25] = 33554432
  /\ PowerOf[26] = 67108864 /\ PowerOf[27] = 134217728
  /\ PowerOf[28] = 268435456 /\ PowerOf[29] = 536870912 /\ PowerOf[30] = 1073741824
BY SMT DEF PowerOf

(* The bits of a number that TLC can hold, listed. *)
LEMMA UpTo30 ==
  ASSUME NEW i \in 0..30
  PROVE  \/ i \in {0, 1, 2, 3, 4, 5, 6, 7, 8, 9, 10, 11, 12, 13, 14, 15}
         \/ i \in {16, 17, 18, 19, 20, 21, 22, 23, 24, 25, 26, 27, 28, 29, 30}
OBVIOUS

(* Every power of two is twice the one before, so none is 0. *)
LEMMA PowerDoubles ==
  /\ \A i \in 0..30 : PowerOf[i] \in Nat \ {0} /\ (i >= 28 => PowerOf[i] >= PowerOf[28])
  /\ \A i \in 1..30 : PowerOf[i] = 2 * PowerOf[i - 1]
<1>1. ASSUME NEW i \in 0..30
      PROVE  PowerOf[i] \in Nat \ {0} /\ (i >= 28 => PowerOf[i] >= PowerOf[28])
  BY Powers, UpTo30
<1>2. ASSUME NEW i \in 1..30
      PROVE  PowerOf[i] = 2 * PowerOf[i - 1]
  <2>1. i \in 0..30 /\ i # 0
    OBVIOUS
  <2> QED
    BY <2>1, Powers, UpTo30
<1> QED
  BY <1>1, <1>2

(* The bits of a number, by quotient and remainder. *)
LEMMA BitsByPower ==
  ASSUME NEW n
  PROVE  BitsOf(n) = {b \in 0..30 : (n \div PowerOf[b]) % 2 = 1}
<1>1. \A b \in 0..30 : PowerOf[b] = 2^b
  BY Zenon DEF PowerOf
<1> QED
  BY <1>1, Zenon DEF BitsOf

(* The value of bits is the sum of their powers of two. *)
LEMMA ValueByPower ==
  ASSUME NEW B \in SUBSET (0..30)
  PROVE  ValueOf(B) = Total(PowerOf, B)
<1> DEFINE Z(g) == g = [s \in SUBSET B |->
                          IF s = {} THEN 0 ELSE 2^Pick(s) + g[s \ {Pick(s)}]]
<1>1. ValueOf(B) = (CHOOSE g : Z(g))[B]
  BY Zenon DEF ValueOf, MapThenSumSet, MapThenFoldSet, Pick
<1>2. \A s \in SUBSET B : s # {} => PowerOf[Pick(s)] = 2^Pick(s)
  <2>1. \A s \in SUBSET B : s # {} => Pick(s) \in 0..30
    BY PickIn
  <2> QED
    BY <2>1, Zenon DEF PowerOf
<1>3. \A g : SumIter(PowerOf, B, g) <=> Z(g)
  <2> TAKE g
  <2>1. \A s \in SUBSET B :
          (IF s = {} THEN 0 ELSE 2^Pick(s) + g[s \ {Pick(s)}]) =
          (IF s = {} THEN 0 ELSE PowerOf[Pick(s)] + g[s \ {Pick(s)}])
    BY <1>2, Zenon
  <2>2. [s \in SUBSET B |-> IF s = {} THEN 0 ELSE 2^Pick(s) + g[s \ {Pick(s)}]] =
        [s \in SUBSET B |-> IF s = {} THEN 0 ELSE PowerOf[Pick(s)] + g[s \ {Pick(s)}]]
    BY <2>1, Zenon
  <2> QED
    BY <2>2, Zenon DEF SumIter
<1> HIDE DEF Z
<1>4. (CHOOSE g : SumIter(PowerOf, B, g)) = (CHOOSE g : Z(g))
  BY <1>3
<1> QED
  BY <1>1, <1>4 DEF Total
(* The remainder by 2 * q has the bit of q above the remainder by q. *)
LEMMA HalfMod ==
  ASSUME NEW n \in Nat, NEW q \in Nat \ {0}
  PROVE  n % (2 * q) = (n % q) + (IF (n \div q) % 2 = 1 THEN q ELSE 0)
<1> DEFINE d == n \div q
           r == n % q
           e == d \div 2
           b == d % 2
<1>1. n = q * d + r /\ d \in Nat /\ r \in 0..(q - 1)
  OBVIOUS
<1>2. d = 2 * e + b /\ e \in Nat /\ b \in {0, 1}
  BY <1>1
<1>3. b = d % 2
  OBVIOUS
<1> HIDE DEF d, r, e, b
<1> DEFINE x == r + (IF b = 1 THEN q ELSE 0)
           m == 2 * q
<1>4. x \in 0..(m - 1) /\ m \in Nat \ {0}
  BY <1>1, <1>2
<1>5. n = m * e + x
  <2>1. CASE b = 0
    <3>1. q * d = q * (2 * e)
      BY <1>1, <1>2, <2>1
    <3>2. q * (2 * e) = (2 * q) * e
      BY <1>1, <1>2
    <3>3. x = r /\ n = q * d + r
      BY <1>1, <2>1
    <3> QED
      BY <3>1, <3>2, <3>3
  <2>2. CASE b = 1
    <3>1. q * d = q * (2 * e + 1)
      BY <1>1, <1>2, <2>2
    <3>2. q * (2 * e + 1) = (2 * q) * e + q
      BY <1>1, <1>2
    <3>3. x = r + q /\ n = q * d + r /\ q \in Int /\ r \in Int
      BY <1>1, <2>2
    <3>4. (2 * q) * e \in Int
      BY <1>2
    <3> HIDE DEF x
    <3> QED
      BY <3>1, <3>2, <3>3, <3>4
  <2> QED
    BY <1>2, <2>1, <2>2
<1> HIDE DEF x, m
<1>6. n % m = x
  BY <1>2, <1>4, <1>5
<1> QED
  BY <1>3, <1>6 DEF x, m, d, r

(* A number that its bits were taken from *)
LEMMA NumberRead ==
  ASSUME NEW n \in Nat, n < PowerOf[28]
  PROVE  /\ BitsOf(n) \in Words(4) /\ ValueOf(BitsOf(n)) = n
         /\ \A b \in BitsOf(n) : b < 28
<1> DEFINE B == BitsOf(n)
<1>1. /\ PowerOf[0] = 1 /\ \A b \in 0..30 : PowerOf[b] \in Nat \ {0}
      /\ \A i \in 1..30 : PowerOf[i] = 2 * PowerOf[i - 1]
      /\ \A b \in 28..30 : PowerOf[b] > n
  <2>1. \A b \in 28..30 : b \in 0..30 /\ b >= 28
    OBVIOUS
  <2>2. PowerOf[28] \in Nat
    BY PowerDoubles
  <2> QED
    BY <2>1, <2>2, Powers, PowerDoubles
<1>2. /\ B \in SUBSET (0..30)
      /\ \A b \in 0..30 : b \in B <=> (n \div PowerOf[b]) % 2 = 1
  <2>1. B = {b \in 0..30 : (n \div PowerOf[b]) % 2 = 1}
    BY BitsByPower
  <2> QED
    BY <2>1
<1>2a. B \in SUBSET (0..30)
  BY <1>2
<1>3. ValueOf(B) = Total(PowerOf, B)
  BY <1>2a, ValueByPower
<1> HIDE DEF B
<1>4. Total(PowerOf, B) = n
  <2> DEFINE Q(i) == IF i = 31 THEN 2 * PowerOf[30] ELSE PowerOf[i]
             Low(i) == {b \in B : b < i}
             G == {i \in 0..31 : Total(PowerOf, Low(i)) = n % Q(i)}
  <2>1. \A i \in 0..31 : IsFiniteSet(Low(i)) /\ Low(i) \in SUBSET (0..30)
    <3>1. \A i \in 0..31 : Low(i) \in SUBSET (0..30)
      BY <1>2a
    <3>2. IsFiniteSet(0..30)
      <4> DEFINE m == 30
      <4>1. m \in Int
        OBVIOUS
      <4> HIDE DEF m
      <4>2. IsFiniteSet(0..m)
        BY <4>1, FS_Interval
      <4> QED
        BY <4>2 DEF m
    <3> HIDE DEF Low
    <3> QED
      BY <3>1, <3>2, FS_Subset
  <2>1a. \A b \in B : b \in Int /\ b >= 0 /\ b < 31 /\ PowerOf[b] \in Int
    BY <1>1, <1>2a
  <2>1b. Low(0) = {} /\ Low(31) = B
    BY <2>1a
  <2>1c. \A i \in 0..31 : \A x \in Low(i) : PowerOf[x] \in Int
    BY <2>1a
  <2>2. 0 \in G
    <3>1. n % 1 = 0 /\ Q(0) = 1
      BY <1>1
    <3>2. Total(PowerOf, {}) = 0
      BY FS_EmptySet, TotalUnfolds
    <3> QED
      BY <3>1, <3>2, <2>1b
  <2>3. ASSUME NEW i \in 1..31, i - 1 \in G
        PROVE  i \in G
    <3> DEFINE k == i - 1
               q == PowerOf[k]
    <3>1. k \in 0..30 /\ k \in 0..31 /\ k # 31 /\ i = k + 1
      OBVIOUS
    <3>2. q \in Nat \ {0} /\ Q(i) = 2 * q /\ Q(k) = q
      BY <1>1, <3>1
    <3>3. k \in B <=> (n \div q) % 2 = 1
      BY <1>2, <3>1
    <3>4. Total(PowerOf, Low(k)) = n % q
      BY <2>3, <3>2
    <3>5. n % q \in Int
      BY <3>2
    <3> HIDE DEF q, k
    <3>6. n % (2 * q) = (n % q) + (IF (n \div q) % 2 = 1 THEN q ELSE 0)
      BY <3>2, HalfMod
    <3>7. CASE k \in B
      <4>1. Low(i) \ {k} = Low(k) /\ k \in Low(i)
        <5>1. \A b \in B : b < i /\ b # k <=> b < k
          BY <2>1a, <3>1
        <5>2. k < i
          BY <3>1
        <5> QED
          BY <5>1, <5>2, <3>7
      <4>2. \A x \in Low(i) : PowerOf[x] \in Int
        BY <2>1c
      <4>2a. IsFiniteSet(Low(i))
        <5>1. i \in 0..31
          OBVIOUS
        <5> QED
          BY <5>1, <2>1
      <4> HIDE DEF Low
      <4>3. Total(PowerOf, Low(i)) = PowerOf[k] + Total(PowerOf, Low(i) \ {k})
        <5>1. \A x \in Low(i) : Total(PowerOf, Low(i)) = PowerOf[x] + Total(PowerOf, Low(i) \ {x})
          BY <4>2, <4>2a, TotalPeels
        <5> QED
          BY <4>1, <5>1
      <4>4. n % (2 * q) = (n % q) + q
        BY <3>3, <3>6, <3>7
      <4>5. PowerOf[k] = q
        BY DEF q
      <4> HIDE DEF Q
      <4>5a. Total(PowerOf, Low(i)) = q + (n % q)
        BY <3>4, <4>1, <4>3, <4>5
      <4>5b. q \in Int
        BY <3>2
      <4>6. Total(PowerOf, Low(i)) = n % Q(i)
        BY <3>2, <3>5, <4>4, <4>5a, <4>5b
      <4> QED
        BY <4>6
    <3>8. CASE k \notin B
      <4>1. Low(i) = Low(k)
        BY <2>1a, <3>1, <3>8
      <4>2. n % (2 * q) = n % q
        BY <3>3, <3>5, <3>6, <3>8
      <4> HIDE DEF Low, Q
      <4>3. Total(PowerOf, Low(i)) = n % Q(i)
        BY <3>2, <3>4, <4>1, <4>2
      <4> QED
        BY <4>3
    <3> QED
      BY <3>7, <3>8
  <2> HIDE DEF G
  <2>4. \A i \in 0..31 : i \in G
    BY <2>2, <2>3, UpTo
  <2>5. 31 \in 0..31 /\ Q(31) = 2 * PowerOf[30]
    OBVIOUS
  <2>6. n % (2 * PowerOf[30]) = n
    <3>1. \A m \in Nat : m > n => n % (2 * m) = n
      OBVIOUS
    <3> QED
      BY <1>1, <3>1
  <2>7. 31 \in G
    BY <2>4, <2>5
  <2>8. Total(PowerOf, Low(31)) = n % Q(31)
    BY <2>7 DEF G
  <2> HIDE DEF Low, Q
  <2> QED
    BY <2>1b, <2>5, <2>6, <2>8
<1>5. ASSUME NEW b \in B, b >= 28
      PROVE  FALSE
  <2>1. b \in 28..30 /\ b \in 0..30
    BY <1>2a, <1>5
  <2>2. PowerOf[b] > n /\ PowerOf[b] \in Nat /\ (n \div PowerOf[b]) % 2 = 1
    BY <1>1, <1>2, <2>1
  <2>3. \A m \in Nat : m > n => n \div m = 0
    OBVIOUS
  <2> QED
    BY <2>2, <2>3
<1>6. B \in Words(4)
  BY <1>2a DEF Words
<1>7. \A b \in B : b < 28
  BY <1>2a, <1>5
<1> QED
  BY <1>3, <1>4, <1>6, <1>7 DEF B

-----------------------------------------------------------------------------
(* A snapshot *)

(* Rows of 24 bytes, one after the other *)
LEMMA Rows ==
  ASSUME NEW n \in Nat, NEW table \in Seq(ByteSeq), Len(table) = n,
         \A k \in 1..n : Len(table[k]) = 24
  PROVE  /\ Block(FlattenSeq(table), 24 * n)
         /\ \A k \in 1..n : Has(FlattenSeq(table), 24 * (k - 1), table[k], 24)
<1> DEFINE Flat(g) == g = [i \in 1..n |-> IF i = 1 THEN table[i] ELSE g[i - 1] \o table[i]]
           h == CHOOSE g : Flat(g)
<1>0. \A k \in 1..n : Block(table[k], 24) /\ table[k] \in ByteSeq
  BY DEF Block
<1>1. CASE n = 0
  <2>1. FlattenSeq(table) = table /\ table = <<>>
    BY <1>1 DEF FlattenSeq
  <2> QED
    BY <1>1, <2>1 DEF Block, ByteSeq
<1>2. CASE n # 0
  <2>1. FlattenSeq(table) = h[n]
    BY <1>2 DEF FlattenSeq
  <2> DEFINE F == [p \in ByteSeq \X (1..n) |-> p[1] \o table[p[2]]]
  <2>2. F \in [ByteSeq \X (1..n) -> ByteSeq] /\ <<>> \in ByteSeq
    <3>1. \A s \in ByteSeq, i \in 1..n : s \o table[i] \in ByteSeq
      BY <1>0 DEF ByteSeq
    <3>2. <<>> \in ByteSeq
      BY DEF ByteSeq
    <3> QED
      BY <3>1, <3>2
  <2>3. \A s \in ByteSeq, i \in 1..n : F[<<s, i>>] = s \o table[i]
    OBVIOUS
  <2> HIDE DEF F
  <2>4. PICK f \in [0..n -> ByteSeq] : IsChain(f, n, <<>>, F)
    BY <2>2, ChainExists
  <2>5. f[0] = <<>> /\ \A i \in 1..n : f[i] = f[i - 1] \o table[i]
    <3>1. \A i \in 1..n : f[i - 1] \in ByteSeq
      OBVIOUS
    <3> QED
      BY <2>3, <2>4, <3>1 DEF IsChain
  <2> DEFINE g0 == [i \in 1..n |-> f[i]]
  <2>6. Flat(g0)
    <3>1. ASSUME NEW i \in 1..n
          PROVE  f[i] = IF i = 1 THEN table[i] ELSE g0[i - 1] \o table[i]
      <4>1. CASE i = 1
        <5>0. 1 \in 1..n /\ 1 - 1 = 0
          BY <1>2
        <5>1. f[1] = <<>> \o table[1]
          BY <2>5, <5>0
        <5>2. <<>> \o table[1] = table[1]
          BY <1>0, <1>2 DEF ByteSeq
        <5> QED
          BY <4>1, <5>1, <5>2
      <4>2. CASE i # 1
        <5>0. i \in 1..n /\ i - 1 \in 1..n
          BY <1>0, <4>2
        <5>1. i - 1 \in 1..n /\ f[i] = f[i - 1] \o table[i]
          BY <2>5, <5>0
        <5>2. g0[i - 1] = f[i - 1]
          BY <5>1
        <5> QED
          BY <4>2, <5>1, <5>2
      <4> QED
        BY <4>1, <4>2
    <3> QED
      BY <3>1
  <2> HIDE DEF g0
  <2>7. Flat(h)
    BY <2>6
  <2>8. /\ h[1] = table[1]
        /\ \A i \in 1..n : i # 1 => h[i] = h[i - 1] \o table[i]
    <3>1. 1 \in 1..n
      BY <1>2
    <3> HIDE DEF h
    <3> QED
      BY <2>7, <3>1
  <2> HIDE DEF h
  <2> DEFINE Ok(i) == /\ Block(h[i], 24 * i)
                      /\ \A k \in 1..i : Has(h[i], 24 * (k - 1), table[k], 24)
             G == {i \in 0..n : i = 0 \/ Ok(i)}
  <2>9. ASSUME NEW i \in 1..n, i - 1 \in G
        PROVE  i \in G
    <3>1. CASE i = 1
      <4>1. Block(h[1], 24 * 1)
        BY <1>0, <1>2, <2>8
      <4>2. Has(h[1], 24 * (1 - 1), table[1], 24)
        BY <2>8 DEF Has
      <4> QED
        BY <3>1, <4>1, <4>2
    <3>2. CASE i # 1
      <4> DEFINE j == i - 1
                 m == 24 * j
      <4>1. Ok(j) /\ j \in 1..n /\ i = j + 1 /\ m \in Nat
        BY <2>9, <3>2
      <4>2. h[i] = h[j] \o table[i] /\ Block(h[j], m) /\ Block(table[i], 24)
        BY <1>0, <2>8, <3>2, <4>1
      <4>3. 24 * i = m + 24 /\ 24 * (i - 1) = m
        BY <4>1
      <4> HIDE DEF Ok, m, j
      <4>4. Block(h[i], m + 24) /\ Has(h[i], 0, h[j], m) /\ Has(h[i], m, table[i], 24)
        BY <4>1, <4>2, Join
      <4>5. ASSUME NEW k \in 1..j
            PROVE  Has(h[i], 24 * (k - 1), table[k], 24)
        <5>1. Has(h[j], 24 * (k - 1), table[k], 24)
          BY <4>1 DEF Ok
        <5>2. 24 * (k - 1) \in Nat /\ 24 * (k - 1) + 24 <= m /\ 24 \in Nat
          BY <4>1 DEF m
        <5> QED
          BY <4>1, <4>4, <5>1, <5>2, Within
      <4>6. \A k \in 1..i : k \in 1..j \/ k = i
        BY <4>1
      <4>7. Ok(i)
        BY <4>3, <4>4, <4>5, <4>6 DEF Ok
      <4> QED
        BY <4>7
    <3> QED
      BY <3>1, <3>2
  <2>10. 0 \in G
    OBVIOUS
  <2> HIDE DEF G
  <2>11. \A i \in 0..n : i \in G
    BY <2>9, <2>10, UpTo
  <2>12. n \in 0..n
    OBVIOUS
  <2>13. Ok(n)
    BY <1>2, <2>11, <2>12 DEF G
  <2> QED
    BY <2>1, <2>13
<1> QED
  BY <1>1, <1>2

(* What is in two blocks, one after the other, is in each of them. *)
LEMMA Split ==
  ASSUME NEW w, NEW u, NEW t, NEW m \in Nat, NEW n \in Nat, NEW k,
         Block(u, m), Block(t, n), k = m + n, Has(w, 0, u \o t, k)
  PROVE  Has(w, 0, u, m) /\ Has(w, m, t, n)
<1>1. Has(u \o t, 0, u, m) /\ Has(u \o t, m, t, n)
  BY Join
<1>2. k \in Nat /\ 0 + 0 = 0 /\ 0 + m = m
  OBVIOUS
<1>3. Has(w, 0, u, m)
  BY <1>1, <1>2, Within
<1>4. Has(w, m, t, n)
  BY <1>1, <1>2, Within
<1> QED
  BY <1>3, <1>4

(* The fields of the header, one after the other *)
HeadMade(head, a, b, c, d, e, f, g, h, i) ==
  head = a \o b \o c \o d \o e \o f \o g \o h \o i

(* Where in the 32 bytes of the header each field is. *)
LEMMA HeadParts ==
  ASSUME NEW a, NEW b, NEW c, NEW d, NEW e, NEW f, NEW g, NEW h, NEW i,
         Block(a, 4), Block(b, 2), Block(c, 2), Block(d, 4), Block(e, 4),
         Block(f, 4), Block(g, 4), Block(h, 4), Block(i, 4),
         NEW head, HeadMade(head, a, b, c, d, e, f, g, h, i)
  PROVE  /\ Block(head, 32)
         /\ \A w : Has(w, 0, head, 32) =>
              /\ Has(w, 0, a, 4) /\ Has(w, 4, b, 2) /\ Has(w, 6, c, 2)
              /\ Has(w, 8, d, 4) /\ Has(w, 12, e, 4) /\ Has(w, 16, f, 4)
              /\ Has(w, 20, g, 4) /\ Has(w, 24, h, 4) /\ Has(w, 28, i, 4)
<1>0. \A m \in {2, 4, 6, 8, 12, 16, 20, 24, 28} : m \in Nat
  OBVIOUS
<1> DEFINE h2 == a \o b
           h3 == h2 \o c
           h4 == h3 \o d
           h5 == h4 \o e
           h6 == h5 \o f
           h7 == h6 \o g
           h8 == h7 \o h
           h9 == h8 \o i
<1>1. head = h9
  BY DEF HeadMade
<1>2. Block(h2, 4 + 2)
  BY Join
<1>3. 4 + 2 = 6
  OBVIOUS
<1> HIDE DEF h2
<1>4. Block(h3, 6 + 2)
  BY <1>2, <1>3, Join
<1>5. 6 + 2 = 8
  OBVIOUS
<1> HIDE DEF h3
<1>6. Block(h4, 8 + 4)
  BY <1>4, <1>5, Join
<1>7. 8 + 4 = 12
  OBVIOUS
<1> HIDE DEF h4
<1>8. Block(h5, 12 + 4)
  BY <1>6, <1>7, Join
<1>9. 12 + 4 = 16
  OBVIOUS
<1> HIDE DEF h5
<1>10. Block(h6, 16 + 4)
  BY <1>8, <1>9, Join
<1>11. 16 + 4 = 20
  OBVIOUS
<1> HIDE DEF h6
<1>12. Block(h7, 20 + 4)
  BY <1>10, <1>11, Join
<1>13. 20 + 4 = 24
  OBVIOUS
<1> HIDE DEF h7
<1>14. Block(h8, 24 + 4)
  BY <1>12, <1>13, Join
<1>15. 24 + 4 = 28
  OBVIOUS
<1> HIDE DEF h8
<1>16. Block(h9, 28 + 4)
  BY <1>14, <1>15, Join
<1>17. 28 + 4 = 32
  OBVIOUS
<1> HIDE DEF h9
<1>18. ASSUME NEW w, Has(w, 0, h9, 32)
       PROVE  /\ Has(w, 0, a, 4) /\ Has(w, 4, b, 2) /\ Has(w, 6, c, 2)
              /\ Has(w, 8, d, 4) /\ Has(w, 12, e, 4) /\ Has(w, 16, f, 4)
              /\ Has(w, 20, g, 4) /\ Has(w, 24, h, 4) /\ Has(w, 28, i, 4)
  <2>1. Has(w, 0, h8, 28) /\ Has(w, 28, i, 4)
    BY <1>14, <1>15, <1>17, <1>18, Split DEF h9
  <2>2. Has(w, 0, h7, 24) /\ Has(w, 24, h, 4)
    BY <1>12, <1>13, <1>15, <2>1, Split DEF h8
  <2>3. Has(w, 0, h6, 20) /\ Has(w, 20, g, 4)
    BY <1>10, <1>11, <1>13, <2>2, Split DEF h7
  <2>4. Has(w, 0, h5, 16) /\ Has(w, 16, f, 4)
    BY <1>8, <1>9, <1>11, <2>3, Split DEF h6
  <2>5. Has(w, 0, h4, 12) /\ Has(w, 12, e, 4)
    BY <1>6, <1>7, <1>9, <2>4, Split DEF h5
  <2>6. Has(w, 0, h3, 8) /\ Has(w, 8, d, 4)
    BY <1>4, <1>5, <1>7, <2>5, Split DEF h4
  <2>7. Has(w, 0, h2, 6) /\ Has(w, 6, c, 2)
    BY <1>2, <1>3, <1>5, <2>6, Split DEF h3
  <2>8. Has(w, 0, a, 4) /\ Has(w, 4, b, 2)
    BY <1>3, <2>7, Split DEF h2
  <2> QED
    BY <2>1, <2>2, <2>3, <2>4, <2>5, <2>6, <2>7, <2>8
<1> QED
  BY <1>1, <1>16, <1>17, <1>18

(* What mt_snapshot_write finds *)
IsWritten(s) ==
  /\ {s.current_used, s.peak_used, s.total_allocs, s.total_frees, s.seq}
       \subseteq Words(4)
  /\ s.frag_na \in BOOLEAN /\ s.drops \in BOOLEAN
  /\ s.records \in Seq(RecordType) /\ Len(s.records) <= 65536

(* How many records it writes, if the buffer holds a header *)
LEMMA CountFits ==
  ASSUME NEW s, IsWritten(s), NEW cap \in Nat, cap >= 36
  PROVE  /\ FinalCount(s, cap) \in Nat /\ FinalCount(s, cap) <= Len(s.records)
         /\ \A k \in 1..FinalCount(s, cap) : s.records[k] \in RecordType
         /\ FinalCount(s, cap) <= PowerOf[16]
         /\ FinalCount(s, cap) = Min({Len(s.records), (cap - 36) \div 24})
         /\ FinalCount(s, cap) < Len(s.records) <=> 36 + Len(s.records) * 24 > cap
<1> DEFINE l == Len(s.records)
           q == (cap - 36) \div 24
<1>1. l \in Nat /\ l <= PowerOf[16]
  <2> DEFINE max == 65536
  <2>1. PowerOf[16] = max
    BY Powers
  <2>2. l \in Nat /\ l <= max
    BY DEF IsWritten
  <2> HIDE DEF max
  <2> QED
    BY <2>1, <2>2
<1>2. q \in Nat /\ FinalCount(s, cap) = IF 36 + l * 24 > cap THEN q ELSE l
  BY DEF FinalCount, HeaderSize, RecordSize
<1> HIDE DEF l
<1>3. 36 + l * 24 > cap <=> q < l
  BY <1>1
<1> HIDE DEF q
<1>4. Min({l, q}) \in {l, q} /\ Min({l, q}) <= l /\ Min({l, q}) <= q
  <2>1. {l, q} \subseteq Nat /\ {l, q} # {}
    BY <1>1, <1>2
  <2> QED
    BY <2>1, MinIn
<1>5. FinalCount(s, cap) = Min({l, q}) /\ FinalCount(s, cap) <= l
  BY <1>1, <1>2, <1>3, <1>4
<1>6. /\ FinalCount(s, cap) \in Nat /\ FinalCount(s, cap) <= l
      /\ FinalCount(s, cap) <= PowerOf[16]
      /\ FinalCount(s, cap) < l <=> 36 + l * 24 > cap
  <2>1. PowerOf[16] \in Nat
    BY Powers
  <2> QED
    BY <1>1, <1>2, <1>3, <1>5, <2>1
<1>7. \A k \in 1..FinalCount(s, cap) : s.records[k] \in RecordType
  <2>1. \A k \in 1..l : s.records[k] \in RecordType
    BY DEF IsWritten, l
  <2> QED
    BY <1>1, <1>6, <2>1
<1> QED
  BY <1>5, <1>6, <1>7 DEF l, q

(* The checksum of a file, as far as its first len bytes *)
CrcOf(p, len) == SymDiff(CrcLoop(SubSeq(p, 37, len), CrcLoop(SubSeq(p, 1, 32), Ones)), Ones)

(* What mt_snapshot_write puts into the header fits its fields, and the      *)
(* count, below 2^28, comes back from its bits.                              *)
LEMMA WordBits ==
  ASSUME NEW s, IsWritten(s), NEW cap \in Nat, cap >= 36
  PROVE  /\ Version \in Words(2) /\ FlagBits(s, cap) \in Words(2)
         /\ BitsOf(FinalCount(s, cap)) \in Words(4)
         /\ ValueOf(BitsOf(FinalCount(s, cap))) = FinalCount(s, cap)
         /\ \A b \in BitsOf(FinalCount(s, cap)) : b < 28
         /\ \A f \in {"current_used", "peak_used", "total_allocs", "total_frees", "seq"} :
              s[f] \in Words(4)
<1>1. Version \in Words(2) /\ FlagBits(s, cap) \in Words(2)
  <2>1. 0..3 \subseteq 0..15 /\ 0 \in 0..15 /\ 8 * 2 - 1 = 15
    OBVIOUS
  <2>2. FlagBits(s, cap) \subseteq 0..3
    BY DEF FlagBits
  <2> QED
    BY <2>1, <2>2 DEF Version, Words
<1>2. FinalCount(s, cap) \in Nat /\ FinalCount(s, cap) < PowerOf[28]
  <2>1. FinalCount(s, cap) \in Nat /\ FinalCount(s, cap) <= PowerOf[16]
    BY CountFits
  <2>2. PowerOf[16] < PowerOf[28] /\ PowerOf[16] \in Nat /\ PowerOf[28] \in Nat
    BY Powers
  <2> QED
    BY <2>1, <2>2
<1>3. /\ s.current_used \in Words(4) /\ s.peak_used \in Words(4)
      /\ s.total_allocs \in Words(4) /\ s.total_frees \in Words(4)
      /\ s.seq \in Words(4)
  BY DEF IsWritten
<1> QED
  BY <1>1, <1>2, <1>3, NumberRead

(* The header of a snapshot in a file p *)
LEMMA HeadLayout ==
  ASSUME NEW s, NEW cap
  PROVE  /\ Block(HeadBytes(s, cap), 32)
         /\ \A w : Has(w, 0, HeadBytes(s, cap), 32) =>
              /\ Has(w, 0, Magic, 4) /\ Has(w, 4, WriteLE(Version, 2), 2)
              /\ Has(w, 6, WriteLE(FlagBits(s, cap), 2), 2)
              /\ Has(w, 8, WriteLE(BitsOf(FinalCount(s, cap)), 4), 4)
              /\ Has(w, 12, WriteLE(s.current_used, 4), 4)
              /\ Has(w, 16, WriteLE(s.peak_used, 4), 4)
              /\ Has(w, 20, WriteLE(s.total_allocs, 4), 4)
              /\ Has(w, 24, WriteLE(s.total_frees, 4), 4)
              /\ Has(w, 28, WriteLE(s.seq, 4), 4)
<1> DEFINE a == Magic
           b == WriteLE(Version, 2)
           c == WriteLE(FlagBits(s, cap), 2)
           d == WriteLE(BitsOf(FinalCount(s, cap)), 4)
           e == WriteLE(s.current_used, 4)
           f == WriteLE(s.peak_used, 4)
           g == WriteLE(s.total_allocs, 4)
           h == WriteLE(s.total_frees, 4)
           i == WriteLE(s.seq, 4)
<1>1. Block(a, 4)
  BY DEF Magic, Block, ByteSeq
<1>2. /\ Block(b, 2) /\ Block(c, 2) /\ Block(d, 4) /\ Block(e, 4) /\ Block(f, 4)
      /\ Block(g, 4) /\ Block(h, 4) /\ Block(i, 4)
  BY WriteLEType
<1>3. HeadBytes(s, cap) = a \o b \o c \o d \o e \o f \o g \o h \o i
  BY DEF HeadBytes
<1> HIDE DEF a, b, c, d, e, f, g, h, i
<1> DEFINE head == HeadBytes(s, cap)
<1>4. head = a \o b \o c \o d \o e \o f \o g \o h \o i
  BY <1>3
<1> HIDE DEF head
<1>4a. HeadMade(head, a, b, c, d, e, f, g, h, i)
  BY <1>4 DEF HeadMade
<1>5. /\ Block(head, 32)
      /\ \A w : Has(w, 0, head, 32) =>
              /\ Has(w, 0, a, 4) /\ Has(w, 4, b, 2) /\ Has(w, 6, c, 2)
              /\ Has(w, 8, d, 4) /\ Has(w, 12, e, 4) /\ Has(w, 16, f, 4)
              /\ Has(w, 20, g, 4) /\ Has(w, 24, h, 4) /\ Has(w, 28, i, 4)
  BY <1>1, <1>2, <1>4a, HeadParts
<1> QED
  BY <1>5 DEF a, b, c, d, e, f, g, h, i, head

(* The part of a file that a block fills *)
LEMMA PartIs ==
  ASSUME NEW p \in ByteSeq, NEW s, NEW o \in Nat, NEW m \in Nat, Block(s, m),
         Len(p) >= o + m, Has(p, o, s, m)
  PROVE  SubSeq(p, o + 1, o + m) = s
<1> DEFINE t == SubSeq(p, o + 1, o + m)
<1>1. /\ Len(t) = m /\ t \in Seq(SUBSET (0..7))
      /\ \A i \in 1..m : t[i] = p[o + i]
  <2>1. p \in Seq(SUBSET (0..7)) /\ (o + m) - (o + 1) + 1 = m
    BY DEF ByteSeq
  <2>2. t \in Seq(SUBSET (0..7)) /\ Len(t) = m
    BY <2>1
  <2>3. ASSUME NEW i \in 1..m
        PROVE  t[i] = p[o + i]
    <3>1. t[i] = p[(o + 1) + i - 1] /\ (o + 1) + i - 1 = o + i
      BY <2>1
    <3> QED
      BY <3>1
  <2> QED
    BY <2>2, <2>3
<1>2. /\ Len(s) = m /\ s \in Seq(SUBSET (0..7))
      /\ \A i \in 1..m : p[o + i] = s[i]
  BY DEF Block, ByteSeq, Has
<1> HIDE DEF t
<1>3. Len(s) = Len(t) /\ \A i \in 1..Len(s) : s[i] = t[i]
  BY <1>1, <1>2
<1>4. t = s
  BY <1>1, <1>2, <1>3, SameSeq
<1> QED
  BY <1>4 DEF t

(* Where the parts of a snapshot are *)
LEMMA SnapshotLayout ==
  ASSUME NEW s, IsWritten(s), NEW cap \in Nat, cap >= 36,
         NEW p, p = SnapshotBytes(s, cap), NEW n, n = FinalCount(s, cap)
  PROVE  /\ n \in Nat /\ Block(p, 36 + 24 * n)
         /\ Has(p, 0, HeadBytes(s, cap), 32)
         /\ CrcOf(p, 36 + 24 * n) \in Words(4)
         /\ Has(p, 32, WriteLE(CrcOf(p, 36 + 24 * n), 4), 4)
         /\ \A k \in 1..n : Has(p, 36 + 24 * (k - 1), RecordBytes(s.records[k]), 24)
<1> DEFINE head == HeadBytes(s, cap)
           table == [k \in 1..n |-> RecordBytes(s.records[k])]
           body == FlattenSeq(table)
           crc  == SymDiff(CrcLoop(body, CrcLoop(head, Ones)), Ones)
           word == WriteLE(crc, 4)
<1>1. n \in Nat /\ \A k \in 1..n : s.records[k] \in RecordType
  BY CountFits
<1>2. p = (head \o word) \o body
  BY DEF SnapshotBytes, TrackerCrc, HeaderSize
<1>3. Block(head, 32)
  BY HeadLayout
<1>4. table \in Seq(ByteSeq) /\ Len(table) = n /\ \A k \in 1..n : Len(table[k]) = 24
  <2>1. ASSUME NEW k \in 1..n
        PROVE  Block(RecordBytes(s.records[k]), 24)
    BY <1>1, RecordLayout
  <2>2. \A k \in 1..n : table[k] = RecordBytes(s.records[k])
    OBVIOUS
  <2>3. table \in [1..n -> ByteSeq]
    BY <2>1 DEF Block
  <2> HIDE DEF table
  <2>4. \A k \in 1..n : Len(table[k]) = 24
    BY <2>1, <2>2 DEF Block
  <2> QED
    BY <1>1, <2>3, <2>4, TableSeq
<1>5. Block(body, 24 * n) /\ \A k \in 1..n : Has(body, 24 * (k - 1), table[k], 24)
  <2> HIDE DEF table
  <2> QED
    BY <1>1, <1>4, Rows
<1>6. crc \in Words(4) /\ Block(word, 4)
  <2>1. Ones \in Crc
    BY DEF Ones, Crc
  <2>2. head \in ByteSeq /\ body \in ByteSeq
    BY <1>3, <1>5 DEF Block
  <2> HIDE DEF head, body
  <2>3. CrcLoop(head, Ones) \in Crc
    BY <2>1, <2>2, CrcStart
  <2>4. CrcLoop(body, CrcLoop(head, Ones)) \in Crc
    BY <2>2, <2>3, CrcStart
  <2>5. crc \in Words(4)
    BY <2>1, <2>4 DEF Crc, Words, SymDiff, Ones
  <2> QED
    BY <2>5, WriteLEType
<1> HIDE DEF head, table, body, crc, word
<1> DEFINE front == head \o word
           m == 24 * n
<1>7. Block(front, 32 + 4) /\ Has(front, 0, head, 32) /\ Has(front, 32, word, 4)
  BY <1>3, <1>6, Join
<1>8. 32 + 4 = 36 /\ m \in Nat /\ m = 24 * n
  BY <1>1
<1> HIDE DEF front, m
<1>9. Block(p, 36 + m) /\ Has(p, 0, front, 36) /\ Has(p, 36, body, m)
  BY <1>2, <1>5, <1>7, <1>8, Join DEF front
<1>10. Has(p, 0, head, 32) /\ Has(p, 32, word, 4)
  BY <1>7, <1>8, <1>9, Within
<1>11. ASSUME NEW k \in 1..n
       PROVE  Has(p, 36 + 24 * (k - 1), RecordBytes(s.records[k]), 24)
  <2>1. 24 * (k - 1) \in Nat /\ 24 * (k - 1) + 24 <= m
    BY <1>1, <1>8
  <2>2. Has(body, 24 * (k - 1), table[k], 24)
    BY <1>5
  <2>3. Has(p, 36 + 24 * (k - 1), table[k], 24)
    BY <1>8, <1>9, <2>1, <2>2, Inner
  <2> QED
    BY <2>3 DEF table
<1>12. SubSeq(p, 1, 32) = head /\ SubSeq(p, 37, 36 + m) = body
  <2>1. p \in ByteSeq /\ Len(p) = 36 + m /\ 32 \in Nat /\ 36 \in Nat /\ 0 \in Nat
    BY <1>8, <1>9 DEF Block
  <2>2. SubSeq(p, 0 + 1, 0 + 32) = head
    <3>1. Len(p) >= 0 + 32
      BY <1>8, <2>1
    <3> QED
      BY <1>3, <1>10, <2>1, <3>1, PartIs
  <2>3. SubSeq(p, 36 + 1, 36 + m) = body
    BY <1>5, <1>8, <1>9, <2>1, PartIs
  <2> QED
    BY <2>2, <2>3
<1>14. crc = CrcOf(p, 36 + m)
  BY <1>12 DEF CrcOf, crc
<1> QED
  BY <1>1, <1>6, <1>8, <1>9, <1>10, <1>11, <1>14 DEF head, word

(* Any n bytes are those of a word, which both readers find. *)
LEMMA BytesAreWord ==
  ASSUME NEW p \in ByteSeq, NEW o \in Nat, NEW n \in Nat, Len(p) >= o + n
  PROVE  /\ Unpack(p, o, n) \in Words(n)
         /\ Has(p, o, WriteLE(Unpack(p, o, n), n), n)
         /\ ReadLE(p, o, n) = Unpack(p, o, n)
<1> DEFINE w == Unpack(p, o, n)
<1>1. w \in Words(n)
  BY DEF Unpack, Words
<1>2. ASSUME NEW k \in 1..n
      PROVE  p[o + k] = WriteLE(w, n)[k]
  <2>1. p[o + k] \in SUBSET (0..7)
    <3>1. o + k \in 1..Len(p)
      BY DEF ByteSeq
    <3> QED
      BY <3>1 DEF ByteSeq
  <2>2. WriteLE(w, n)[k] = {b \in 0..7 : 8 * (k - 1) + b \in w}
    BY DEF WriteLE
  <2>3. ASSUME NEW b \in 0..7
        PROVE  8 * (k - 1) + b \in w <=> b \in p[o + k]
    <3> DEFINE x == 8 * (k - 1) + b
    <3>1. x \in 0..(8 * n - 1) /\ x % 8 = b /\ x \div 8 = k - 1
      OBVIOUS
    <3>2. o + 1 + (k - 1) = o + k
      OBVIOUS
    <3> HIDE DEF x
    <3>3. x \in w <=> b \in p[o + 1 + (k - 1)]
      BY <3>1 DEF Unpack
    <3> QED
      BY <3>2, <3>3 DEF x
  <2> HIDE DEF w
  <2> QED
    BY <2>1, <2>2, <2>3
<1> HIDE DEF w
<1>3. Has(p, o, WriteLE(w, n), n)
  BY <1>2 DEF Has
<1>4. ReadLE(p, o, n) = w
  BY <1>1, <1>3, ViewerReadsWord
<1> QED
  BY <1>1, <1>3, <1>4 DEF w

(* The header that a snapshot decodes to *)
SentHeader(s, cap) ==
  [flags |-> FlagBits(s, cap), current_used |-> s.current_used,
   peak_used |-> s.peak_used, total_allocs |-> s.total_allocs,
   total_frees |-> s.total_frees, seq |-> s.seq]

(* Both readers find the header that was written. *)
LEMMA HeadRead ==
  ASSUME NEW s, IsWritten(s), NEW cap \in Nat, cap >= 36, NEW p \in ByteSeq,
         Len(p) >= 32, Has(p, 0, HeadBytes(s, cap), 32)
  PROVE  /\ SubSeq(p, 1, 4) = Magic
         /\ ReadLE(p, 4, 2) = Version /\ Unpack(p, 4, 2) = Version
         /\ ReadLE(p, 8, 4) = BitsOf(FinalCount(s, cap))
         /\ Unpack(p, 8, 4) = BitsOf(FinalCount(s, cap))
         /\ HeaderOf(p) = SentHeader(s, cap) /\ ParseHeader(p) = SentHeader(s, cap)
<1>1. /\ Has(p, 0, Magic, 4) /\ Has(p, 4, WriteLE(Version, 2), 2)
      /\ Has(p, 6, WriteLE(FlagBits(s, cap), 2), 2)
      /\ Has(p, 8, WriteLE(BitsOf(FinalCount(s, cap)), 4), 4)
      /\ Has(p, 12, WriteLE(s.current_used, 4), 4)
      /\ Has(p, 16, WriteLE(s.peak_used, 4), 4)
      /\ Has(p, 20, WriteLE(s.total_allocs, 4), 4)
      /\ Has(p, 24, WriteLE(s.total_frees, 4), 4)
      /\ Has(p, 28, WriteLE(s.seq, 4), 4)
  BY HeadLayout
<1>2. /\ Version \in Words(2) /\ FlagBits(s, cap) \in Words(2)
      /\ BitsOf(FinalCount(s, cap)) \in Words(4)
      /\ s.current_used \in Words(4) /\ s.peak_used \in Words(4)
      /\ s.total_allocs \in Words(4) /\ s.total_frees \in Words(4)
      /\ s.seq \in Words(4)
  <2>1. \A f \in {"current_used", "peak_used", "total_allocs", "total_frees", "seq"} :
          s[f] \in Words(4)
    BY WordBits
  <2>2. Version \in Words(2) /\ FlagBits(s, cap) \in Words(2)
    BY WordBits
  <2>3. BitsOf(FinalCount(s, cap)) \in Words(4)
    BY WordBits
  <2> QED
    BY <2>1, <2>2, <2>3
<1>3. SubSeq(p, 1, 4) = Magic
  <2>1. Block(Magic, 4) /\ 0 \in Nat /\ 4 \in Nat /\ Len(p) >= 0 + 4
    BY DEF Block, Magic, ByteSeq
  <2>2. SubSeq(p, 0 + 1, 0 + 4) = Magic
    BY <1>1, <2>1, PartIs
  <2> QED
    BY <2>2
<1>4. \A o \in Nat, n \in Nat : \A w \in Words(n) :
        Has(p, o, WriteLE(w, n), n) => ReadLE(p, o, n) = w /\ Unpack(p, o, n) = w
  BY ViewerReadsWord, ScriptReadsWord
<1>5. ReadLE(p, 4, 2) = Version /\ Unpack(p, 4, 2) = Version
  BY <1>1, <1>2, <1>4
<1>6. /\ ReadLE(p, 8, 4) = BitsOf(FinalCount(s, cap))
      /\ Unpack(p, 8, 4) = BitsOf(FinalCount(s, cap))
  BY <1>1, <1>2, <1>4
<1>7. ReadLE(p, 6, 2) = FlagBits(s, cap) /\ Unpack(p, 6, 2) = FlagBits(s, cap)
  BY <1>1, <1>2, <1>4
<1>8. ReadLE(p, 12, 4) = s.current_used /\ Unpack(p, 12, 4) = s.current_used
  BY <1>1, <1>2, <1>4
<1>9. ReadLE(p, 16, 4) = s.peak_used /\ Unpack(p, 16, 4) = s.peak_used
  BY <1>1, <1>2, <1>4
<1>10. ReadLE(p, 20, 4) = s.total_allocs /\ Unpack(p, 20, 4) = s.total_allocs
  BY <1>1, <1>2, <1>4
<1>11. ReadLE(p, 24, 4) = s.total_frees /\ Unpack(p, 24, 4) = s.total_frees
  BY <1>1, <1>2, <1>4
<1>12. ReadLE(p, 28, 4) = s.seq /\ Unpack(p, 28, 4) = s.seq
  BY <1>1, <1>2, <1>4
<1> QED
  BY <1>3, <1>5, <1>6, <1>7, <1>8, <1>9, <1>10, <1>11, <1>12
     DEF HeaderOf, ParseHeader, SentHeader

(* The comparisons of the two readers *)
LEMMA Verified ==
  ASSUME NEW p, NEW n
  PROVE  /\ VerifyCrc(p) <=> CrcOf(p, Len(p)) = ReadLE(p, 32, 4)
         /\ ScriptCrcOk(p, n) <=> CrcOf(p, 36 + n * 24) = Unpack(p, 32, 4)
BY DEF VerifyCrc, ScriptCrcOk, CrcOf, ViewerCrc, PythonCrc, HeaderSize, RecordSize

(* A part of a file, and of two files that agree there *)
LEMMA PartOf ==
  ASSUME NEW q \in ByteSeq, NEW a \in Nat \ {0}, NEW b \in Nat, a <= b + 1, b <= Len(q)
  PROVE  /\ SubSeq(q, a, b) \in ByteSeq /\ Len(SubSeq(q, a, b)) = b - a + 1
         /\ \A i \in 1..(b - a + 1) : SubSeq(q, a, b)[i] = q[a + i - 1]
BY DEF ByteSeq

(* Files that agree on some bytes have the same slice there. *)
LEMMA SamePart ==
  ASSUME NEW q \in ByteSeq, NEW r \in ByteSeq, NEW a \in Nat \ {0}, NEW b \in Nat,
         a <= b + 1, b <= Len(q), b <= Len(r), \A i \in a..b : q[i] = r[i]
  PROVE  SubSeq(q, a, b) = SubSeq(r, a, b)
<1> DEFINE s == SubSeq(q, a, b)
           t == SubSeq(r, a, b)
           m == b - a + 1
<1>1. /\ s \in ByteSeq /\ t \in ByteSeq /\ Len(s) = m /\ Len(t) = m
      /\ \A i \in 1..m : s[i] = q[a + i - 1] /\ t[i] = r[a + i - 1]
  BY PartOf
<1>2. \A i \in 1..m : a + i - 1 \in a..b
  OBVIOUS
<1>3. \A i \in 1..m : s[i] = t[i]
  BY <1>1, <1>2
<1>4. m \in Nat
  OBVIOUS
<1> HIDE DEF s, t, m
<1>5. s = t
  <2>1. Len(s) = Len(t) /\ \A i \in 1..Len(s) : s[i] = t[i]
    BY <1>1, <1>3
  <2> DEFINE S == SUBSET (0..7)
  <2>2. s \in Seq(S) /\ t \in Seq(S)
    BY <1>1 DEF ByteSeq
  <2> HIDE DEF S
  <2> QED
    BY <2>1, <2>2, SameSeq
<1> QED
  BY <1>5 DEF s, t

(* Two files of l bytes, and the only one in which they differ *)
DifferAt(f, p, k, l) == p[k] # f[k] /\ \A i \in 1..l : i # k => p[i] = f[i]

(* One byte that was changed is always told by the checksum. *)
THEOREM ChangeTold ==
  ASSUME NEW f \in ByteSeq, NEW p \in ByteSeq, NEW l \in Nat, Len(f) = l, Len(p) = l,
         l >= 36, NEW k \in 1..l, DifferAt(f, p, k, l),
         CrcOf(f, l) = Unpack(f, 32, 4)
  PROVE  CrcOf(p, l) # Unpack(p, 32, 4)
<1>d. p[k] # f[k] /\ \A i \in 1..l : i # k => p[i] = f[i]
  BY DEF DifferAt
<1> USE <1>d
<1> DEFINE fh == SubSeq(f, 1, 32)
           ph == SubSeq(p, 1, 32)
           fb == SubSeq(f, 37, l)
           pb == SubSeq(p, 37, l)
           m == l - 36
           h == 32
<1>0. h \in Nat /\ h <= l
  OBVIOUS
<1> HIDE DEF h
<1>1. /\ fh \in ByteSeq /\ ph \in ByteSeq /\ Len(fh) = h /\ Len(ph) = h
      /\ \A i \in 1..h : fh[i] = f[i] /\ ph[i] = p[i]
  <2>1. ASSUME NEW q \in ByteSeq, Len(q) = l
        PROVE  /\ SubSeq(q, 1, h) \in ByteSeq /\ Len(SubSeq(q, 1, h)) = h
               /\ \A i \in 1..h : SubSeq(q, 1, h)[i] = q[i]
    <3>1. /\ SubSeq(q, 1, h) \in ByteSeq /\ Len(SubSeq(q, 1, h)) = h - 1 + 1
          /\ \A i \in 1..(h - 1 + 1) : SubSeq(q, 1, h)[i] = q[1 + i - 1]
      BY <1>0, <2>1, PartOf
    <3>2. h - 1 + 1 = h /\ \A i \in 1..h : 1 + i - 1 = i
      BY <1>0
    <3> QED
      BY <3>1, <3>2
  <2> QED
    BY <2>1 DEF h
<1>2. /\ fb \in ByteSeq /\ pb \in ByteSeq /\ Len(fb) = m /\ Len(pb) = m
      /\ \A i \in 1..m : fb[i] = f[36 + i] /\ pb[i] = p[36 + i]
  <2>1. ASSUME NEW q \in ByteSeq, Len(q) = l
        PROVE  /\ SubSeq(q, 37, l) \in ByteSeq /\ Len(SubSeq(q, 37, l)) = m
               /\ \A i \in 1..m : SubSeq(q, 37, l)[i] = q[36 + i]
    BY <2>1 DEF ByteSeq
  <2> QED
    BY <2>1
<1>3. /\ CrcOf(f, l) = SymDiff(CrcLoop(fb, CrcLoop(fh, Ones)), Ones)
      /\ CrcOf(p, l) = SymDiff(CrcLoop(pb, CrcLoop(ph, Ones)), Ones)
  BY DEF CrcOf
<1> HIDE DEF fh, ph, fb, pb
<1>4. Ones \in Crc
  BY DEF Ones, Crc
<1>5. CrcLoop(fh, Ones) \in Crc /\ CrcLoop(ph, Ones) \in Crc
  BY <1>1, <1>4, CrcStart
<1>6. \A u, v \in Crc : SymDiff(u, Ones) = SymDiff(v, Ones) => u = v
  <2> SUFFICES ASSUME NEW u \in Crc, NEW v \in Crc, SymDiff(u, Ones) = SymDiff(v, Ones)
               PROVE  u = v
    OBVIOUS
  <2>1. \A x : x \in SymDiff(u, Ones) <=> x \in SymDiff(v, Ones)
    OBVIOUS
  <2>2. \A x : x \in u <=> x \in v
    BY <2>1 DEF SymDiff
  <2> QED
    BY <2>2
<1>7. CrcLoop(fb, CrcLoop(fh, Ones)) \in Crc /\ CrcLoop(pb, CrcLoop(ph, Ones)) \in Crc
  BY <1>2, <1>5, CrcStart
<1>8. CASE k \in 33..36
  <2>1. fh = ph
    <3>1. \A i \in 1..h : fh[i] = ph[i]
      <4>1. \A i \in 1..h : i \in 1..l /\ i # k
        BY <1>0, <1>8 DEF h
      <4> QED
        BY <1>1, <4>1
    <3> QED
      BY <1>0, <1>1, <3>1 DEF ByteSeq
  <2>2. fb = pb
    <3>1. \A i \in 1..m : fb[i] = pb[i]
      BY <1>2, <1>8
    <3> QED
      BY <1>2, <3>1 DEF ByteSeq
  <2>3. CrcOf(p, l) = CrcOf(f, l)
    BY <1>3, <2>1, <2>2
  <2>4. ASSUME Unpack(p, 32, 4) = Unpack(f, 32, 4)
        PROVE  FALSE
    <3> DEFINE w == Unpack(p, 32, 4)
               j == k - 32
    <3>1. Has(p, 32, WriteLE(w, 4), 4)
      BY BytesAreWord
    <3>2. Has(f, 32, WriteLE(Unpack(f, 32, 4), 4), 4)
      BY BytesAreWord
    <3>3. j \in 1..4 /\ 32 + j = k
      BY <1>8
    <3> HIDE DEF w, j
    <3>4. p[32 + j] = WriteLE(w, 4)[j]
      BY <3>1, <3>3 DEF Has
    <3>5. f[32 + j] = WriteLE(w, 4)[j]
      BY <2>4, <3>2, <3>3 DEF Has, w
    <3> QED
      BY <3>3, <3>4, <3>5
  <2> QED
    BY <2>3, <2>4
<1>9. CASE k \notin 33..36
  <2>1. Unpack(p, 32, 4) = Unpack(f, 32, 4)
    <3>1. \A i \in 33..36 : p[i] = f[i]
      BY <1>9
    <3>2. Has(f, 32, WriteLE(Unpack(f, 32, 4), 4), 4) /\ Unpack(f, 32, 4) \in Words(4)
      BY BytesAreWord
    <3> DEFINE w == Unpack(f, 32, 4)
    <3> HIDE DEF w
    <3>3. Has(p, 32, WriteLE(w, 4), 4)
      <4>1. \A i \in 1..4 : 32 + i \in 33..36
        OBVIOUS
      <4> QED
        BY <3>1, <3>2, <4>1 DEF Has, w
    <3>4. Unpack(p, 32, 4) = w
      BY <3>2, <3>3, ScriptReadsWord DEF w
    <3> QED
      BY <3>4 DEF w
  <2>2. CrcLoop(fb, CrcLoop(fh, Ones)) # CrcLoop(pb, CrcLoop(ph, Ones))
    <3>1. CASE k \in 1..32
      <4>1. fb = pb
        <5>1. \A i \in 1..m : fb[i] = pb[i]
          BY <1>2, <3>1
        <5> QED
          BY <1>2, <5>1 DEF ByteSeq
      <4>2. CrcLoop(fh, Ones) # CrcLoop(ph, Ones)
        <5>0. k \in 1..h /\ \A i \in 1..h : i \in 1..l
          BY <1>0, <3>1 DEF h
        <5>1. fh[k] # ph[k] /\ \A i \in 1..h : i # k => fh[i] = ph[i]
          BY <1>1, <5>0
        <5>2. k \in 1..Len(fh) /\ Len(fh) = Len(ph)
          BY <1>1, <5>0
        <5>3. \A i \in 1..Len(fh) : i # k => fh[i] = ph[i]
          BY <1>1, <5>1
        <5> QED
          BY <1>1, <1>4, <5>1, <5>2, <5>3, CrcOneByte
      <4> QED
        BY <1>2, <1>5, <4>1, <4>2, CrcStart
    <3>2. CASE k \notin 1..32
      <4> DEFINE j == k - 36
      <4>1. fh = ph
        <5>0. \A i \in 1..h : i \in 1..l /\ i # k
          BY <1>0, <3>2 DEF h
        <5>1. \A i \in 1..h : fh[i] = ph[i]
          BY <1>1, <5>0
        <5> QED
          BY <1>0, <1>1, <5>1 DEF ByteSeq
      <4>2. j \in 1..m /\ k = 36 + j
        BY <1>9, <3>2
      <4>3. fb[j] # pb[j]
        BY <1>2, <4>2
      <4>4. \A i \in 1..m : i # j => fb[i] = pb[i]
        BY <1>2, <4>2
      <4> HIDE DEF j, m
      <4>5. j \in 1..Len(fb) /\ Len(fb) = Len(pb) /\ \A i \in 1..Len(fb) : i # j => fb[i] = pb[i]
        BY <1>2, <4>2, <4>4
      <4>6. CrcLoop(fb, CrcLoop(fh, Ones)) # CrcLoop(pb, CrcLoop(fh, Ones))
        BY <1>2, <1>5, <4>3, <4>5, CrcOneByte
      <4> QED
        BY <4>1, <4>6
    <3> QED
      BY <3>1, <3>2
  <2> QED
    BY <1>3, <1>6, <1>7, <2>1, <2>2
<1> QED
  BY <1>8, <1>9

(* A number of records that mt_snapshot_write writes is none of those that  *)
(* the readers refuse.                                                      *)
LEMMA CountAccepted ==
  ASSUME NEW s, IsWritten(s), NEW cap \in Nat, cap >= 36,
         NEW n, n = FinalCount(s, cap)
  PROVE  /\ n \in Nat /\ ValueOf(BitsOf(n)) = n
         /\ ~TooMany(BitsOf(n)) /\ ~CountOverflow(BitsOf(n))
<1>1. n \in Nat /\ n <= PowerOf[16]
  BY CountFits
<1>2. ValueOf(BitsOf(n)) = n
  BY WordBits
<1>3. ~(\E b \in BitsOf(n) : b >= 28)
  <2>1. \A b \in BitsOf(n) : b \in 0..30
    BY DEF BitsOf
  <2>2. \A b \in BitsOf(n) : b < 28
    BY WordBits
  <2> QED
    BY <2>1, <2>2
<1> DEFINE most == 178956969
           over == 178956970
<1>4. PowerOf[16] < most /\ PowerOf[16] < over /\ most \in Nat /\ over \in Nat
      /\ PowerOf[16] \in Nat
  BY Powers
<1> HIDE DEF most, over
<1>5. ~(n > most) /\ ~(n > over)
  BY <1>1, <1>4
<1>6. ~TooMany(BitsOf(n))
  BY <1>2, <1>3, <1>5 DEF TooMany, most
<1>7. ~CountOverflow(BitsOf(n))
  BY <1>2, <1>3, <1>5 DEF CountOverflow, over
<1> QED
  BY <1>1, <1>2, <1>6, <1>7

(* A file that begins with a snapshot: both readers find all of it, and     *)
(* accept it if its checksum is right.                                      *)
LEMMA SnapshotRead ==
  ASSUME NEW s, IsWritten(s), NEW cap \in Nat, cap >= 36,
         NEW n, n = FinalCount(s, cap), NEW p \in ByteSeq, Len(p) >= 36 + 24 * n,
         Has(p, 0, HeadBytes(s, cap), 32),
         \A k \in 1..n : Has(p, 36 + 24 * (k - 1), RecordBytes(s.records[k]), 24)
  PROVE  /\ ViewerDecode(p) =
              [ok |-> TRUE, hdr |-> SentHeader(s, cap), crc_ok |-> VerifyCrc(p),
               records |-> SubSeq(s.records, 1, n)]
         /\ ScriptDecode(p) =
              IF ScriptCrcOk(p, n)
              THEN [ok |-> TRUE, hdr |-> SentHeader(s, cap),
                    records |-> SubSeq(s.records, 1, n)]
              ELSE Refused
<1> DEFINE recs == SubSeq(s.records, 1, n)
           l == Len(p)
<1>1. /\ n \in Nat /\ ValueOf(BitsOf(n)) = n
      /\ ~TooMany(BitsOf(n)) /\ ~CountOverflow(BitsOf(n))
  BY CountAccepted
<1>2. l \in Nat /\ l >= 36 /\ l >= 32
  BY <1>1 DEF ByteSeq
<1>3. /\ SubSeq(p, 1, 4) = Magic
      /\ ReadLE(p, 4, 2) = Version /\ Unpack(p, 4, 2) = Version
      /\ ReadLE(p, 8, 4) = BitsOf(n) /\ Unpack(p, 8, 4) = BitsOf(n)
      /\ HeaderOf(p) = SentHeader(s, cap) /\ ParseHeader(p) = SentHeader(s, cap)
  BY <1>2, HeadRead
<1>4. n <= (l - 36) \div 24
  BY <1>1, <1>2
<1>5. Fits(l, BitsOf(n))
  BY <1>1, <1>4 DEF Fits, HeaderSize, RecordSize
<1>6. /\ recs = [k \in 1..n |-> s.records[k]]
      /\ \A k \in 1..n : s.records[k] \in RecordType
  <2>1. n <= Len(s.records) /\ \A k \in 1..n : s.records[k] \in RecordType
    BY CountFits
  <2>2. s.records \in Seq(RecordType)
    BY DEF IsWritten
  <2> QED
    BY <1>1, <2>1, <2>2
<1>7. ASSUME NEW k \in 1..n
      PROVE  /\ RecordOf(p, HeaderSize + (k - 1) * RecordSize) = s.records[k]
             /\ ParseRecord(p, HeaderSize + (k - 1) * RecordSize) = s.records[k]
  <2> DEFINE o == 36 + 24 * (k - 1)
  <2>1. o \in Nat /\ HeaderSize + (k - 1) * RecordSize = o
    BY <1>1 DEF HeaderSize, RecordSize
  <2>2. Has(p, o, RecordBytes(s.records[k]), RecordSize)
    BY DEF RecordSize
  <2> HIDE DEF o
  <2>3. RecordOf(p, o) = s.records[k] /\ ParseRecord(p, o) = s.records[k]
    BY <1>6, <2>1, <2>2, RecordRoundTrip
  <2> QED
    BY <2>1, <2>3
<1>8. /\ [k \in 1..n |-> RecordOf(p, HeaderSize + (k - 1) * RecordSize)] = recs
      /\ [k \in 1..n |-> ParseRecord(p, HeaderSize + (k - 1) * RecordSize)] = recs
  BY <1>6, <1>7
<1> HIDE DEF recs, l
<1>9. ViewerDecode(p) =
        [ok |-> TRUE, hdr |-> SentHeader(s, cap), crc_ok |-> VerifyCrc(p),
         records |-> recs]
  <2>1. ~(\/ l < HeaderSize
          \/ SubSeq(p, 1, 4) # Magic
          \/ ReadLE(p, 4, 2) # Version
          \/ TooMany(ReadLE(p, 8, 4))
          \/ ~Fits(l, ReadLE(p, 8, 4)))
    BY <1>1, <1>2, <1>3, <1>5 DEF HeaderSize
  <2>2. ValueOf(ReadLE(p, 8, 4)) = n
    BY <1>1, <1>3
  <2>3. ViewerDecode(p) =
          [ok |-> TRUE, hdr |-> HeaderOf(p), crc_ok |-> VerifyCrc(p),
           records |-> [k \in 1..ValueOf(ReadLE(p, 8, 4)) |->
                          RecordOf(p, HeaderSize + (k - 1) * RecordSize)]]
    BY <2>1, Zenon DEF ViewerDecode, l
  <2> QED
    BY <1>3, <1>8, <2>2, <2>3
<1>10. ScriptDecode(p) =
         IF ScriptCrcOk(p, n)
         THEN [ok |-> TRUE, hdr |-> SentHeader(s, cap), records |-> recs]
         ELSE Refused
  <2> DEFINE count == ValueOf(Unpack(p, 8, 4))
  <2>1. count = n
    BY <1>1, <1>3
  <2>2. ~(\/ l < HeaderSize
          \/ SubSeq(p, 1, 4) # Magic
          \/ Unpack(p, 4, 2) # Version
          \/ CountOverflow(Unpack(p, 8, 4))
          \/ count > (l - HeaderSize) \div RecordSize)
    BY <1>1, <1>2, <1>3, <1>4, <2>1 DEF HeaderSize, RecordSize
  <2>3. ScriptDecode(p) =
          IF ~ScriptCrcOk(p, count) THEN Refused
          ELSE [ok |-> TRUE, hdr |-> ParseHeader(p),
                records |-> [k \in 1..count |->
                               ParseRecord(p, HeaderSize + (k - 1) * RecordSize)]]
    BY <2>2, Zenon DEF ScriptDecode, l
  <2> HIDE DEF count
  <2> QED
    BY <1>3, <1>8, <2>1, <2>3
<1> QED
  BY <1>9, <1>10 DEF recs

(* A file that is shorter than the snapshot it begins with is refused.      *)
LEMMA ShortRefused ==
  ASSUME NEW s, IsWritten(s), NEW cap \in Nat, cap >= 36,
         NEW n, n = FinalCount(s, cap), NEW p \in ByteSeq, Len(p) < 36 + 24 * n,
         Len(p) >= 36 => Has(p, 0, HeadBytes(s, cap), 32)
  PROVE  ViewerDecode(p) = Refused /\ ScriptDecode(p) = Refused
<1> DEFINE l == Len(p)
<1>1. n \in Nat /\ ValueOf(BitsOf(n)) = n /\ l \in Nat
  BY CountAccepted DEF ByteSeq
<1>2. CASE l < 36
  BY <1>2 DEF ViewerDecode, ScriptDecode, HeaderSize
<1>3. CASE l >= 36
  <2>1. ReadLE(p, 8, 4) = BitsOf(n) /\ Unpack(p, 8, 4) = BitsOf(n)
    BY <1>1, <1>3, HeadRead
  <2>2. n > (l - 36) \div 24
    BY <1>1, <1>3
  <2>3. ~Fits(l, ReadLE(p, 8, 4))
    BY <1>1, <2>1, <2>2 DEF Fits, HeaderSize, RecordSize
  <2>4. ViewerDecode(p) = Refused
    BY <2>3, Zenon DEF ViewerDecode, l
  <2>5. ValueOf(Unpack(p, 8, 4)) > (l - HeaderSize) \div RecordSize
    BY <1>1, <2>1, <2>2 DEF HeaderSize, RecordSize
  <2>6. ScriptDecode(p) = Refused
    BY <2>5, Zenon DEF ScriptDecode, l
  <2> QED
    BY <2>4, <2>6
<1> QED
  BY <1>1, <1>2, <1>3

(* Bits stand for a natural number. *)
LEMMA ValueNat ==
  ASSUME NEW B \in SUBSET (0..30)
  PROVE  ValueOf(B) \in Nat
<1>1. IsFiniteSet(0..30)
  <2> DEFINE m == 30
  <2>1. m \in Int
    OBVIOUS
  <2> HIDE DEF m
  <2>2. IsFiniteSet(0..m)
    BY <2>1, FS_Interval
  <2> QED
    BY <2>2 DEF m
<1>2. IsFiniteSet(B)
  BY <1>1, FS_Subset
<1>3. \A x \in B : PowerOf[x] \in Nat
  BY PowerDoubles
<1>4. Total(PowerOf, B) \in Nat
  BY <1>2, <1>3, TotalNat
<1> QED
  BY <1>4, ValueByPower

(* What the line may do to a file *)
Followed(f, tail) == f \o tail
ChangedAt(f, k, flip) == [f EXCEPT ![k] = SymDiff(f[k], flip)]
CutAt(f, len) == SubSeq(f, 1, len)

(* A snapshot that arrives as it was written, or with bytes after it, is    *)
(* read as it was written.                                                  *)
LEMMA WholeRead ==
  ASSUME NEW s, IsWritten(s), NEW cap \in Nat, cap >= 36,
         NEW n, n = FinalCount(s, cap), NEW f, f = SnapshotBytes(s, cap),
         NEW tail \in ByteSeq, NEW p, p = Followed(f, tail)
  PROVE  /\ ViewerDecode(p) =
              [ok |-> TRUE, hdr |-> SentHeader(s, cap), crc_ok |-> VerifyCrc(p),
               records |-> SubSeq(s.records, 1, n)]
         /\ ScriptDecode(p) =
              [ok |-> TRUE, hdr |-> SentHeader(s, cap),
               records |-> SubSeq(s.records, 1, n)]
         /\ tail = <<>> => p = f /\ VerifyCrc(p)
<1> DEFINE l == 36 + 24 * n
           crc == CrcOf(f, l)
<1>1. /\ n \in Nat /\ Block(f, l) /\ Has(f, 0, HeadBytes(s, cap), 32)
      /\ crc \in Words(4) /\ Has(f, 32, WriteLE(crc, 4), 4)
      /\ \A k \in 1..n : Has(f, 36 + 24 * (k - 1), RecordBytes(s.records[k]), 24)
  BY SnapshotLayout
<1>2. l \in Nat /\ l >= 36 /\ 32 \in Nat /\ 4 \in Nat /\ 24 \in Nat
  BY <1>1
<1>3. f \in ByteSeq /\ Len(f) = l
  BY <1>1 DEF Block
<1> DEFINE t == Len(tail)
<1>4. t \in Nat /\ Block(tail, t)
  BY DEF ByteSeq, Block
<1> HIDE DEF crc, t
<1>5. p \in ByteSeq /\ Len(p) = l + t /\ Has(p, 0, f, l)
  <2> HIDE DEF l
  <2>1. Block(f \o tail, l + t) /\ Has(f \o tail, 0, f, l)
    BY <1>1, <1>2, <1>4, Join
  <2> QED
    BY <2>1 DEF Block, Followed
<1>6. Has(p, 0, HeadBytes(s, cap), 32) /\ Has(p, 32, WriteLE(crc, 4), 4)
  <2>1. 0 \in Nat /\ 0 + 32 <= l /\ 32 + 4 <= l
    BY <1>2
  <2> HIDE DEF l
  <2>2. Has(p, 0, HeadBytes(s, cap), 32)
    BY <1>1, <1>2, <1>5, <2>1, Within
  <2>3. Has(p, 32, WriteLE(crc, 4), 4)
    BY <1>1, <1>2, <1>5, <2>1, Within
  <2> QED
    BY <2>2, <2>3
<1>7. ASSUME NEW k \in 1..n
      PROVE  Has(p, 36 + 24 * (k - 1), RecordBytes(s.records[k]), 24)
  <2>1. 36 + 24 * (k - 1) \in Nat /\ (36 + 24 * (k - 1)) + 24 <= l
    BY <1>1
  <2> HIDE DEF l
  <2> QED
    BY <1>1, <1>2, <1>5, <2>1, Within
<1>8. Len(p) >= l
  BY <1>2, <1>4, <1>5
<1>9. CrcOf(p, l) = crc
  <2> HIDE DEF l
  <2>1. ASSUME NEW i \in 1..l
        PROVE  p[i] = f[i]
    <3>1. p[0 + i] = f[i] /\ 0 + i = i
      BY <1>5 DEF Has
    <3> QED
      BY <3>1
  <2>2. SubSeq(p, 1, 32) = SubSeq(f, 1, 32)
    <3> DEFINE h == 32
    <3>0. h \in Nat /\ h <= l
      BY <1>2
    <3> HIDE DEF h
    <3>1. \A i \in 1..h : p[i] = f[i]
      BY <1>2, <2>1, <3>0
    <3>2. 1 \in Nat \ {0} /\ 1 <= h + 1 /\ h <= Len(p) /\ h <= Len(f)
      BY <1>2, <1>3, <1>4, <1>5, <3>0
    <3>3. SubSeq(p, 1, h) = SubSeq(f, 1, h)
      BY <1>3, <1>5, <3>0, <3>1, <3>2, SamePart
    <3> QED
      BY <3>3 DEF h
  <2>3. SubSeq(p, 37, l) = SubSeq(f, 37, l)
    <3>1. \A i \in 37..l : p[i] = f[i]
      BY <1>2, <2>1
    <3>2. 37 \in Nat \ {0} /\ 37 <= l + 1 /\ l <= Len(p) /\ l <= Len(f)
      BY <1>2, <1>3, <1>4, <1>5
    <3> QED
      BY <1>2, <1>3, <1>5, <3>1, <3>2, SamePart
  <2> QED
    BY <2>2, <2>3 DEF CrcOf, crc
<1>10. ReadLE(p, 32, 4) = crc /\ Unpack(p, 32, 4) = crc
  BY <1>1, <1>2, <1>5, <1>6, ViewerReadsWord, ScriptReadsWord
<1>11. ScriptCrcOk(p, n)
  <2>1. 36 + n * 24 = l
    BY <1>1
  <2> HIDE DEF l
  <2> QED
    BY <1>9, <1>10, <2>1, Verified
<1>12. /\ ViewerDecode(p) =
             [ok |-> TRUE, hdr |-> SentHeader(s, cap), crc_ok |-> VerifyCrc(p),
              records |-> SubSeq(s.records, 1, n)]
       /\ ScriptDecode(p) =
             [ok |-> TRUE, hdr |-> SentHeader(s, cap),
              records |-> SubSeq(s.records, 1, n)]
  BY <1>5, <1>6, <1>7, <1>8, <1>11, SnapshotRead
<1>13. ASSUME tail = <<>>
       PROVE  p = f /\ VerifyCrc(p)
  <2>1. p = f
    BY <1>3, <1>13 DEF ByteSeq, Followed
  <2>2. CrcOf(p, Len(p)) = ReadLE(p, 32, 4)
    BY <1>3, <1>9, <1>10, <2>1
  <2> QED
    BY <2>1, <2>2, Verified
<1> QED
  BY <1>12, <1>13

(* A snapshot with one byte changed: the viewer notices, and the script does *)
(* unless the change makes it expect another number of records.              *)
LEMMA ChangedRead ==
  ASSUME NEW s, IsWritten(s), NEW cap \in Nat, cap >= 36,
         NEW n, n = FinalCount(s, cap), NEW f, f = SnapshotBytes(s, cap),
         NEW k \in DOMAIN f, NEW flip \in SUBSET (0..7), flip # {},
         NEW p, p = ChangedAt(f, k, flip)
  PROVE  /\ ViewerDecode(p).ok => ~ViewerDecode(p).crc_ok
         /\ ScriptDecode(p).ok => Len(ScriptDecode(p).records) # n
<1> DEFINE l == 36 + 24 * n
<1>1. /\ n \in Nat /\ Block(f, l)
      /\ CrcOf(f, l) \in Words(4) /\ Has(f, 32, WriteLE(CrcOf(f, l), 4), 4)
  BY SnapshotLayout
<1>2. f \in ByteSeq /\ Len(f) = l /\ l \in Nat /\ l >= 36 /\ k \in 1..l
  BY <1>1 DEF Block, ByteSeq
<1> HIDE DEF l
<1>3. f[k] \in SUBSET (0..7) /\ SymDiff(f[k], flip) \in SUBSET (0..7)
      /\ SymDiff(f[k], flip) # f[k]
  <2>1. f[k] \in SUBSET (0..7)
    BY <1>2 DEF ByteSeq
  <2>2. PICK b \in flip : TRUE
    OBVIOUS
  <2>3. b \in SymDiff(f[k], flip) <=> b \notin f[k]
    BY DEF SymDiff
  <2> QED
    BY <2>1, <2>3 DEF SymDiff
<1> DEFINE y == SymDiff(f[k], flip)
<1> HIDE DEF y
<1>4. p \in ByteSeq /\ Len(p) = l /\ p[k] = y /\ \A i \in 1..l : i # k => p[i] = f[i]
  BY <1>2, <1>3 DEF ByteSeq, y, ChangedAt
<1>5. CrcOf(f, l) = Unpack(f, 32, 4)
  BY <1>1, <1>2, ScriptReadsWord
<1>5a. DifferAt(f, p, k, l)
  BY <1>3, <1>4 DEF y, DifferAt
<1>6. CrcOf(p, l) # Unpack(p, 32, 4)
  BY <1>2, <1>4, <1>5, <1>5a, ChangeTold
<1>7. ReadLE(p, 32, 4) = Unpack(p, 32, 4)
  <2>1. Len(p) >= 32 + 4 /\ 32 \in Nat /\ 4 \in Nat
    BY <1>2, <1>4
  <2> QED
    BY <1>4, <2>1, BytesAreWord
<1>8. ~VerifyCrc(p)
  BY <1>4, <1>6, <1>7, Verified
<1>9. ASSUME ViewerDecode(p).ok
      PROVE  ~ViewerDecode(p).crc_ok
  <2>1. ~Refused.ok
    BY DEF Refused
  <2>2. \/ ViewerDecode(p) = Refused
        \/ \E h, r : ViewerDecode(p) = [ok |-> TRUE, hdr |-> h, crc_ok |-> VerifyCrc(p), records |-> r]
    BY Zenon DEF ViewerDecode
  <2>3. PICK h, r : ViewerDecode(p) =
          [ok |-> TRUE, hdr |-> h, crc_ok |-> VerifyCrc(p), records |-> r]
    BY <1>9, <2>1, <2>2
  <2>4. ViewerDecode(p).crc_ok = VerifyCrc(p)
    BY <2>3
  <2> QED
    BY <1>8, <2>4
<1>10. ASSUME ScriptDecode(p).ok, Len(ScriptDecode(p).records) = n
       PROVE  FALSE
  <2> DEFINE count == ValueOf(Unpack(p, 8, 4))
             r == [i \in 1..count |-> ParseRecord(p, HeaderSize + (i - 1) * RecordSize)]
  <2>1. ~Refused.ok
    BY DEF Refused
  <2>2. ScriptDecode(p) # Refused
    BY <1>10, <2>1
  <2>3. /\ ScriptDecode(p) = [ok |-> TRUE, hdr |-> ParseHeader(p), records |-> r]
        /\ ScriptCrcOk(p, count) /\ ~CountOverflow(Unpack(p, 8, 4))
    BY <2>2, Zenon DEF ScriptDecode
  <2>4. count \in Nat
    <3>1. \A b \in Unpack(p, 8, 4) : b \in Nat /\ ~(b >= 28)
      BY <2>3 DEF CountOverflow, Unpack
    <3>2. Unpack(p, 8, 4) \in SUBSET (0..30)
      BY <3>1
    <3> QED
      BY <3>2, ValueNat
  <2>5. Len(r) = count
    BY <2>4
  <2> HIDE DEF count, r
  <2>6. count = n
    BY <1>10, <2>3, <2>5
  <2>7. CrcOf(p, 36 + n * 24) = Unpack(p, 32, 4)
    BY <2>3, <2>6, Verified
  <2>8. 36 + n * 24 = l
    BY <1>1 DEF l
  <2> QED
    BY <1>6, <2>7, <2>8
<1> QED
  BY <1>9, <1>10

(* A snapshot that was cut short is refused. *)
LEMMA CutRead ==
  ASSUME NEW s, IsWritten(s), NEW cap \in Nat, cap >= 36,
         NEW f, f = SnapshotBytes(s, cap),
         NEW len \in 0..(Len(f) - 1), NEW p, p = CutAt(f, len)
  PROVE  ViewerDecode(p) = Refused /\ ScriptDecode(p) = Refused
<1> DEFINE n == FinalCount(s, cap)
           l == 36 + 24 * n
<1>1. n \in Nat /\ Block(f, l) /\ Has(f, 0, HeadBytes(s, cap), 32)
  BY SnapshotLayout
<1>2. f \in ByteSeq /\ Len(f) = l /\ l \in Nat /\ len \in Nat /\ len < l
  BY <1>1 DEF Block, ByteSeq
<1>3. p \in ByteSeq /\ Len(p) = len /\ \A i \in 1..len : p[i] = f[i]
  BY <1>2 DEF ByteSeq, CutAt
<1>4. ASSUME len >= 36
      PROVE  Has(p, 0, HeadBytes(s, cap), 32)
  <2>1. \A i \in 1..32 : 0 + i = i /\ i \in 1..len
    BY <1>2, <1>4
  <2> QED
    BY <1>1, <1>3, <2>1 DEF Has
<1>5. Len(p) < 36 + 24 * n
  BY <1>2, <1>3
<1> HIDE DEF n
<1> QED
  BY <1>3, <1>4, <1>5, ShortRefused DEF n

-----------------------------------------------------------------------------
(* The names of files *)

LEMMA FirstIsAll ==
  ASSUME NEW S, NEW w \in Seq(S), w # <<>>, Len(w) <= 1
  PROVE  SubSeq(w, 1, 1) = w
<1>1. Len(w) \in Nat /\ w = [i \in 1..Len(w) |-> w[i]]
  OBVIOUS
<1>2. ASSUME Len(w) = 0
      PROVE  w = <<>>
  <2>1. <<>> \in Seq(S) /\ Len(<<>>) = 0
    OBVIOUS
  <2> QED
    BY <1>2, <2>1
<1>3. Len(w) = 1
  BY <1>1, <1>2
<1> QED
  BY <1>3

(* A file map with one name for each hash: both readers find it. *)
LEMMA NamesAlike ==
  ASSUME NEW lines \in Seq([id : Words(4), words : Seq(STRING)]),
         \A j, k \in DOMAIN lines :
           /\ Len(lines[k].words) <= 1
           /\ IsEntry(lines[j], lines[k].id) /\ IsEntry(lines[k], lines[k].id) => j = k,
         NEW id
  PROVE  MapLookup(lines, id) = ScriptLookup(lines, id)
<1> DEFINE n == Len(lines)
           I == {i \in 1..n : IsEntry(lines[i], id)}
           first == IF I # {} THEN Min(I) ELSE 0
           last == IF I # {} THEN Max(I) ELSE 0
<1>1. n \in Nat /\ DOMAIN lines = 1..n
      /\ \A i \in 1..n : lines[i].words \in Seq(STRING)
  <2> DEFINE S == [id : Words(4), words : Seq(STRING)]
  <2>1. \A l \in S : l.words \in Seq(STRING)
    OBVIOUS
  <2>2. lines \in Seq(S)
    OBVIOUS
  <2> HIDE DEF S
  <2>3. n \in Nat /\ DOMAIN lines = 1..n /\ \A i \in 1..n : lines[i] \in S
    BY <2>2
  <2> QED
    BY <2>1, <2>3
<1>2. /\ MapLookup(lines, id) =
           IF first = 0 THEN Unnamed ELSE SubSeq(lines[first].words, 1, 1)
      /\ ScriptLookup(lines, id) = IF last = 0 THEN Unnamed ELSE lines[last].words
  BY DEF MapLookup, ScriptLookup, SelectInSeq, SelectLastInSeq
<1>3. \A j, k \in I : j = k
  <2> SUFFICES ASSUME NEW j \in I, NEW k \in I PROVE j = k
    OBVIOUS
  <2>1. IsEntry(lines[j], id) /\ IsEntry(lines[k], id) /\ lines[k].id = id
    BY DEF IsEntry
  <2> QED
    BY <1>1, <2>1
<1>4. CASE I = {}
  BY <1>2, <1>4
<1>5. CASE I # {}
  <2>1. I \in SUBSET (0..n) /\ I \subseteq Nat
    BY <1>1
  <2> HIDE DEF I
  <2>2. Min(I) \in I
    BY <1>5, <2>1, MinIn
  <2>3. Max(I) \in I
    BY <1>1, <1>5, <2>1, MaxIn
  <2>4. first = last /\ first \in I
    BY <1>3, <1>5, <2>2, <2>3
  <2> HIDE DEF first, last
  <2>5. first \in 1..n /\ IsEntry(lines[first], id)
    BY <2>4 DEF I
  <2> DEFINE w == lines[first].words
  <2>6. w \in Seq(STRING) /\ w # <<>> /\ Len(w) <= 1
    BY <1>1, <2>5 DEF IsEntry
  <2> HIDE DEF w
  <2>7. SubSeq(w, 1, 1) = w
    BY <2>6, FirstIsAll
  <2>8. first # 0
    BY <2>5
  <2> QED
    BY <1>2, <2>4, <2>7, <2>8 DEF w
<1> QED
  BY <1>4, <1>5

(* What a reader makes of the records *)
LEMMA NamedFields ==
  ASSUME NEW d, d.ok, NEW name
  PROVE  /\ Named(d, name).names = [k \in DOMAIN d.records |-> name[d.records[k].file_id]]
         /\ \A f \in DOMAIN d \ {"names"} : Named(d, name)[f] = d[f]
BY DEF Named

(* What both readers know in the end *)
ViewerOf == Named(ViewerDecode(file),
                  [id \in FileIds(ViewerDecode(file)) |-> MapLookup(map, id)])
ScriptOf == Named(ScriptDecode(file),
                  [id \in FileIds(ScriptDecode(file)) |-> ScriptLookup(map, id)])

(* What was sent, and what the line made of it *)
SentBytes == SnapshotBytes(sent.snapshot, sent.out_cap)

FileIs ==
  /\ damage \in {"none", "changed", "cut", "followed"}
  /\ damage = "none" => file = SentBytes
  /\ damage = "changed" => \E k \in DOMAIN SentBytes, flip \in Flips :
                             file = ChangedAt(SentBytes, k, flip)
  /\ damage = "cut" => \E len \in 0..(Len(SentBytes) - 1) : file = CutAt(SentBytes, len)
  /\ damage = "followed" => \E tail \in Tails : file = Followed(SentBytes, tail)

IsDamage(f, bytes, how) ==
  \/ how = "changed" /\ \E k \in DOMAIN f, flip \in Flips : bytes = ChangedAt(f, k, flip)
  \/ how = "cut" /\ \E len \in 0..(Len(f) - 1) : bytes = CutAt(f, len)
  \/ how = "followed" /\ \E tail \in Tails : bytes = Followed(f, tail)

SentWritten ==
  sent.snapshot \in Written /\ sent.out_cap \in Capacities /\ sent.out_cap >= 36

DecodeInv ==
  /\ map \in FileMaps
  /\ at \in {"device", "line", "viewed", "decoded"}
  /\ at = "device" => damage = "none"
  /\ at # "device" => SentWritten /\ FileIs
  /\ at \in {"viewed", "decoded"} => viewer = ViewerOf
  /\ at = "decoded" => script = ScriptOf

(* The invariant: the file is what was sent with at most one damage, and    *)
(* what the readers know is what they make of it.                           *)
LEMMA DecodeInvariant == DecodeSpec => []DecodeInv
<1>1. DecodeInit => DecodeInv
  BY DEF DecodeInit, DecodeInv
<1>2. ASSUME DecodeInv, [DecodeNext]_decodeVars
      PROVE  DecodeInv'
  <2>1. CASE UNCHANGED decodeVars
    BY <1>2, <2>1 DEF DecodeInv, decodeVars, SentWritten, FileIs, SentBytes,
                      ViewerOf, ScriptOf
  <2>2. ASSUME NEW s \in Written, NEW cap \in Capacities, Write(s, cap)
        PROVE  DecodeInv'
    <3>1. /\ at = "device" /\ damage = "none" /\ map \in FileMaps
          /\ sent' = [snapshot |-> s, out_cap |-> cap]
          /\ file' = SnapshotBytes(s, cap)
          /\ at' = IF file' = <<>> THEN "device" ELSE "line"
          /\ map' = map /\ damage' = damage
      BY <1>2, <2>2 DEF DecodeInv, Write
    <3>2. cap \in Nat
      BY MTS1DecodeAssumption
    <3>3. ASSUME at' # "device"
          PROVE  SentWritten' /\ FileIs'
      <4>1. file' # <<>>
        BY <3>1, <3>3
      <4>2. ~(cap < 36)
        BY <3>1, <4>1 DEF SnapshotBytes, HeaderSize
      <4>3. sent'.snapshot = s /\ sent'.out_cap = cap
        BY <3>1
      <4>4. SentWritten'
        BY <3>2, <4>2, <4>3 DEF SentWritten
      <4>5. file' = SentBytes'
        BY <3>1, <4>3 DEF SentBytes
      <4> QED
        BY <3>1, <4>4, <4>5 DEF FileIs
    <3> QED
      BY <3>1, <3>3 DEF DecodeInv
  <2>3. ASSUME NEW bytes, NEW how, Damaged(bytes, how), IsDamage(file, bytes, how)
        PROVE  DecodeInv'
    <3>1. /\ at = "line" /\ damage = "none" /\ file' = bytes /\ damage' = how
          /\ at' = at /\ sent' = sent /\ map' = map
      BY <2>3 DEF Damaged
    <3>2. SentWritten /\ file = SentBytes /\ map \in FileMaps
      BY <1>2, <3>1 DEF DecodeInv, FileIs, IsDamage
    <3>3. SentWritten' /\ SentBytes' = SentBytes
      BY <3>1, <3>2 DEF SentWritten, SentBytes
    <3>4. FileIs'
      BY <2>3, <3>1, <3>2, <3>3 DEF FileIs, IsDamage
    <3> QED
      BY <3>1, <3>2, <3>3, <3>4 DEF DecodeInv
  <2>4. ASSUME NEW k \in DOMAIN file, NEW flip \in Flips, Change(k, flip)
        PROVE  DecodeInv'
    <3>1. Damaged(ChangedAt(file, k, flip), "changed")
      BY <2>4 DEF Change, ChangedAt
    <3>2. IsDamage(file, ChangedAt(file, k, flip), "changed")
      BY DEF IsDamage
    <3> QED
      BY <2>3, <3>1, <3>2
  <2>5. ASSUME NEW len \in 0..(Len(file) - 1), Cut(len)
        PROVE  DecodeInv'
    <3>1. Damaged(CutAt(file, len), "cut")
      BY <2>5 DEF Cut, CutAt
    <3>2. IsDamage(file, CutAt(file, len), "cut")
      BY DEF IsDamage
    <3> QED
      BY <2>3, <3>1, <3>2
  <2>6. ASSUME NEW tail \in Tails, Follow(tail)
        PROVE  DecodeInv'
    <3>1. Damaged(Followed(file, tail), "followed")
      BY <2>6 DEF Follow, Followed
    <3>2. IsDamage(file, Followed(file, tail), "followed")
      BY DEF IsDamage
    <3> QED
      BY <2>3, <3>1, <3>2
  <2>7. CASE ViewerReads
    <3>1. /\ at = "line" /\ at' = "viewed" /\ viewer' = ViewerOf
          /\ sent' = sent /\ file' = file /\ map' = map /\ damage' = damage
      BY <2>7 DEF ViewerReads, ViewerOf
    <3>2. ViewerOf' = ViewerOf
      BY <3>1 DEF ViewerOf
    <3>3. SentWritten' /\ FileIs'
      BY <1>2, <3>1 DEF DecodeInv, SentWritten, FileIs, SentBytes
    <3> QED
      BY <1>2, <3>1, <3>2, <3>3 DEF DecodeInv
  <2>8. CASE ScriptReads
    <3>1. /\ at = "viewed" /\ at' = "decoded" /\ script' = ScriptOf /\ viewer' = viewer
          /\ sent' = sent /\ file' = file /\ map' = map /\ damage' = damage
      BY <2>8 DEF ScriptReads, ScriptOf
    <3>2. ViewerOf' = ViewerOf /\ ScriptOf' = ScriptOf
      BY <3>1 DEF ViewerOf, ScriptOf
    <3>3. SentWritten' /\ FileIs'
      BY <1>2, <3>1 DEF DecodeInv, SentWritten, FileIs, SentBytes
    <3> QED
      BY <1>2, <3>1, <3>2, <3>3 DEF DecodeInv
  <2> QED
    BY <1>2, <2>1, <2>2, <2>4, <2>5, <2>6, <2>7, <2>8 DEF DecodeNext
<1> QED
  BY <1>1, <1>2, PTL DEF DecodeSpec

-----------------------------------------------------------------------------
(* What the readers know in the end *)

LEMMA SentOne ==
  ASSUME SentWritten
  PROVE  /\ IsWritten(sent.snapshot) /\ sent.out_cap \in Nat /\ sent.out_cap >= 36
         /\ SentRecords = SubSeq(sent.snapshot.records, 1,
                                 FinalCount(sent.snapshot, sent.out_cap))
         /\ Len(SentRecords) = FinalCount(sent.snapshot, sent.out_cap)
<1> DEFINE s == sent.snapshot
           cap == sent.out_cap
<1>0. ASSUME NEW size \in Capacities
      PROVE  size \in Nat
  BY MTS1DecodeAssumption
<1>1. s \in Written /\ cap \in Nat /\ cap >= 36
  BY <1>0 DEF SentWritten
<1>2. IsWritten(s)
  BY <1>1, MTS1DecodeAssumption DEF IsWritten
<1> DEFINE n == FinalCount(s, cap)
<1> HIDE DEF s, cap
<1>3. n \in Nat /\ n <= Len(s.records) /\ n = Min({Len(s.records), (cap - 36) \div 24})
  BY <1>1, <1>2, CountFits
<1>4. SentRecords = SubSeq(s.records, 1, n)
  BY <1>3 DEF SentRecords, s, cap
<1> HIDE DEF n
<1>5. s.records \in Seq(RecordType)
  BY <1>2 DEF IsWritten
<1>6. Len(SubSeq(s.records, 1, n)) = n
  BY <1>3, <1>5
<1> QED
  BY <1>1, <1>2, <1>4, <1>6 DEF s, cap, n

(* A decoded snapshot with the header and the records sent is what was sent. *)
LEMMA IsSentWhen ==
  ASSUME SentWritten, NEW d, d.records = SentRecords,
         d.hdr = SentHeader(sent.snapshot, sent.out_cap)
  PROVE  IsSent(d)
<1> DEFINE s == sent.snapshot
           cap == sent.out_cap
           l == Len(s.records)
<1>1. IsWritten(s) /\ cap \in Nat /\ cap >= 36
      /\ Len(SentRecords) = FinalCount(s, cap)
  BY SentOne
<1>2. FinalCount(s, cap) < l <=> 36 + l * 24 > cap
  BY <1>1, CountFits
<1>3. \A f \in DOMAIN d.hdr \ {"flags"} : d.hdr[f] = s[f]
  BY DEF SentHeader
<1>4. d.hdr.flags = FlagBits(s, cap)
  BY DEF SentHeader
<1>5. /\ 0 \in FlagBits(s, cap) <=> 36 + l * 24 > cap
      /\ 1 \in FlagBits(s, cap) <=> s.frag_na
      /\ 2 \in FlagBits(s, cap) <=> s.drops
  BY DEF FlagBits, HeaderSize, RecordSize
<1> QED
  BY <1>1, <1>2, <1>3, <1>4, <1>5 DEF IsSent

(* How a decoded snapshot is named *)
LEMMA NotReadWhen ==
  ASSUME NEW name
  PROVE  Named(Refused, name) = NotRead /\ ~NotRead.ok
BY DEF Named, Refused, NotRead

(* What both readers know of an undamaged snapshot, or one that is followed *)
LEMMA SentRead ==
  ASSUME SentWritten, NEW tail \in ByteSeq, file = Followed(SentBytes, tail)
  PROVE  /\ ViewerOf.ok /\ IsSent(ViewerOf)
         /\ ScriptOf.ok /\ IsSent(ScriptOf)
         /\ tail = <<>> => ViewerOf.crc_ok
         /\ ViewerOf.names = [k \in DOMAIN SentRecords |-> MapLookup(map, SentRecords[k].file_id)]
         /\ ScriptOf.names = [k \in DOMAIN SentRecords |-> ScriptLookup(map, SentRecords[k].file_id)]
<1> DEFINE s == sent.snapshot
           cap == sent.out_cap
           n == FinalCount(s, cap)
           v == ViewerDecode(file)
           c == ScriptDecode(file)
<1>1. /\ IsWritten(s) /\ cap \in Nat /\ cap >= 36
      /\ SentRecords = SubSeq(s.records, 1, n)
  BY SentOne
<1> HIDE DEF s, cap, n, v, c
<1>2. /\ v = [ok |-> TRUE, hdr |-> SentHeader(s, cap), crc_ok |-> VerifyCrc(file),
              records |-> SentRecords]
      /\ c = [ok |-> TRUE, hdr |-> SentHeader(s, cap), records |-> SentRecords]
      /\ tail = <<>> => VerifyCrc(file)
  <2> DEFINE f == SnapshotBytes(s, cap)
  <2>1. file = Followed(f, tail) /\ n = FinalCount(s, cap)
    BY DEF SentBytes, s, cap, n
  <2> HIDE DEF f
  <2>2. f = SnapshotBytes(s, cap)
    BY DEF f
  <2>3. /\ ViewerDecode(file) =
              [ok |-> TRUE, hdr |-> SentHeader(s, cap), crc_ok |-> VerifyCrc(file),
               records |-> SubSeq(s.records, 1, n)]
        /\ ScriptDecode(file) =
              [ok |-> TRUE, hdr |-> SentHeader(s, cap),
               records |-> SubSeq(s.records, 1, n)]
        /\ tail = <<>> => file = f /\ VerifyCrc(file)
    BY <1>1, <2>1, <2>2, WholeRead
  <2> QED
    BY <1>1, <2>3 DEF v, c
<1>3. /\ v.ok /\ v.hdr = SentHeader(s, cap) /\ v.records = SentRecords
      /\ v.crc_ok = VerifyCrc(file)
      /\ DOMAIN v \ {"names"} = {"ok", "hdr", "crc_ok", "records"}
      /\ c.ok /\ c.hdr = SentHeader(s, cap) /\ c.records = SentRecords
      /\ DOMAIN c \ {"names"} = {"ok", "hdr", "records"}
  BY <1>2
<1> DEFINE vname == [id \in FileIds(v) |-> MapLookup(map, id)]
           cname == [id \in FileIds(c) |-> ScriptLookup(map, id)]
<1>4. ViewerOf = Named(v, vname) /\ ScriptOf = Named(c, cname)
  BY DEF ViewerOf, ScriptOf, v, c
<1>5. /\ FileIds(v) = {SentRecords[k].file_id : k \in DOMAIN SentRecords}
      /\ FileIds(c) = {SentRecords[k].file_id : k \in DOMAIN SentRecords}
  BY <1>3 DEF FileIds
<1>6. /\ \A k \in DOMAIN SentRecords :
           vname[SentRecords[k].file_id] = MapLookup(map, SentRecords[k].file_id)
      /\ \A k \in DOMAIN SentRecords :
           cname[SentRecords[k].file_id] = ScriptLookup(map, SentRecords[k].file_id)
  BY <1>5, Zenon
<1> HIDE DEF vname, cname
<1>7. /\ Named(v, vname).names = [k \in DOMAIN SentRecords |-> vname[SentRecords[k].file_id]]
      /\ \A f \in DOMAIN v \ {"names"} : Named(v, vname)[f] = v[f]
  BY <1>3, NamedFields
<1>8. /\ Named(c, cname).names = [k \in DOMAIN SentRecords |-> cname[SentRecords[k].file_id]]
      /\ \A f \in DOMAIN c \ {"names"} : Named(c, cname)[f] = c[f]
  BY <1>3, NamedFields
<1>9. /\ ViewerOf.ok /\ ViewerOf.hdr = SentHeader(s, cap)
      /\ ViewerOf.records = SentRecords /\ ViewerOf.crc_ok = VerifyCrc(file)
  BY <1>3, <1>4, <1>7
<1>10. /\ ScriptOf.ok /\ ScriptOf.hdr = SentHeader(s, cap)
       /\ ScriptOf.records = SentRecords
  BY <1>3, <1>4, <1>8
<1>11. /\ ViewerOf.names = [k \in DOMAIN SentRecords |-> MapLookup(map, SentRecords[k].file_id)]
       /\ ScriptOf.names = [k \in DOMAIN SentRecords |-> ScriptLookup(map, SentRecords[k].file_id)]
  BY <1>4, <1>6, <1>7, <1>8
<1>12. IsSent(ViewerOf) /\ IsSent(ScriptOf)
  BY <1>9, <1>10, IsSentWhen DEF s, cap
<1> QED
  BY <1>2, <1>9, <1>10, <1>11, <1>12

(* The fields of an answer *)
LEMMA Shapes ==
  ASSUME NEW p
  PROVE  /\ ViewerDecode(p) = Refused
              \/ DOMAIN ViewerDecode(p) = {"ok", "hdr", "crc_ok", "records"}
         /\ ScriptDecode(p) = Refused
              \/ DOMAIN ScriptDecode(p) = {"ok", "hdr", "records"}
<1>1. \/ ViewerDecode(p) = Refused
      \/ ViewerDecode(p) =
           [ok |-> TRUE, hdr |-> HeaderOf(p), crc_ok |-> VerifyCrc(p),
            records |-> [k \in 1..ValueOf(ReadLE(p, 8, 4)) |->
                           RecordOf(p, HeaderSize + (k - 1) * RecordSize)]]
  BY Zenon DEF ViewerDecode
<1>2. \/ ScriptDecode(p) = Refused
      \/ ScriptDecode(p) =
           [ok |-> TRUE, hdr |-> ParseHeader(p),
            records |-> [k \in 1..ValueOf(Unpack(p, 8, 4)) |->
                           ParseRecord(p, HeaderSize + (k - 1) * RecordSize)]]
  BY Zenon DEF ScriptDecode
<1> QED
  BY <1>1, <1>2

(* What they know of a changed snapshot *)
LEMMA SentChanged ==
  ASSUME SentWritten, NEW k \in DOMAIN SentBytes, NEW flip \in Flips,
         file = ChangedAt(SentBytes, k, flip)
  PROVE  /\ ViewerOf.ok => ~ViewerOf.crc_ok
         /\ ScriptOf.ok => Len(ScriptOf.records) # Len(SentRecords)
<1> DEFINE v == ViewerDecode(file)
           c == ScriptDecode(file)
           vname == [id \in FileIds(v) |-> MapLookup(map, id)]
           cname == [id \in FileIds(c) |-> ScriptLookup(map, id)]
<1>1. flip \in SUBSET (0..7) /\ flip # {}
  BY MTS1DecodeAssumption
<1>2. /\ v.ok => ~v.crc_ok
      /\ c.ok => Len(c.records) # Len(SentRecords)
  BY <1>1, SentOne, ChangedRead DEF SentBytes
<1>3. ViewerOf = Named(v, vname) /\ ScriptOf = Named(c, cname)
  BY DEF ViewerOf, ScriptOf
<1>4. /\ v = Refused \/ DOMAIN v = {"ok", "hdr", "crc_ok", "records"}
      /\ c = Refused \/ DOMAIN c = {"ok", "hdr", "records"}
  BY Shapes
<1> HIDE DEF v, c, vname, cname
<1>5. ASSUME ViewerOf.ok
      PROVE  ~ViewerOf.crc_ok
  <2>0. ~v.ok => Named(v, vname) = NotRead
    BY DEF Named
  <2>1. v.ok /\ v # Refused
    BY <1>3, <1>5, <2>0, NotReadWhen DEF Refused
  <2>2. \A f \in DOMAIN v \ {"names"} : Named(v, vname)[f] = v[f]
    BY <2>1, NamedFields
  <2>3. ViewerOf.crc_ok = v.crc_ok
    BY <1>3, <1>4, <2>1, <2>2
  <2> QED
    BY <1>2, <2>1, <2>3
<1>6. ASSUME ScriptOf.ok
      PROVE  Len(ScriptOf.records) # Len(SentRecords)
  <2>0. ~c.ok => Named(c, cname) = NotRead
    BY DEF Named
  <2>1. c.ok /\ c # Refused
    BY <1>3, <1>6, <2>0, NotReadWhen DEF Refused
  <2>2. \A f \in DOMAIN c \ {"names"} : Named(c, cname)[f] = c[f]
    BY <2>1, NamedFields
  <2>3. ScriptOf.records = c.records
    BY <1>3, <1>4, <2>1, <2>2
  <2> QED
    BY <1>2, <2>1, <2>3
<1> QED
  BY <1>5, <1>6

(* A file cut short, wherever, is refused by both readers. *)
LEMMA SentCut ==
  ASSUME SentWritten, NEW len \in 0..(Len(SentBytes) - 1), file = CutAt(SentBytes, len)
  PROVE  ~ViewerOf.ok /\ ~ScriptOf.ok
<1>1. ViewerDecode(file) = Refused /\ ScriptDecode(file) = Refused
  BY SentOne, CutRead DEF SentBytes
<1> QED
  BY <1>1, NotReadWhen DEF ViewerOf, ScriptOf

(* What was sent is a sequence of bytes. *)
LEMMA SentBytesTyped ==
  ASSUME SentWritten
  PROVE  SentBytes \in ByteSeq
<1>1. IsWritten(sent.snapshot) /\ sent.out_cap \in Nat /\ sent.out_cap >= 36
  BY SentOne
<1>2. Block(SnapshotBytes(sent.snapshot, sent.out_cap),
            36 + 24 * FinalCount(sent.snapshot, sent.out_cap))
  BY <1>1, SnapshotLayout
<1> QED
  BY <1>2 DEF Block, SentBytes

-----------------------------------------------------------------------------
(* One reader's name for each record is the other's. *)
LEMMA SameNames ==
  ASSUME map \in FileMaps, OneNameEach
  PROVE  \A k \in DOMAIN SentRecords : MapLookup(map, SentRecords[k].file_id)
                                         = ScriptLookup(map, SentRecords[k].file_id)
<1>1. map \in Seq([id : Words(4), words : Seq(STRING)])
  <2>1. map \in Seq(LineType)
    BY MTS1DecodeAssumption
  <2> QED
    BY <2>1 DEF LineType
<1>2. \A j, k \in DOMAIN map :
        /\ Len(map[k].words) <= 1
        /\ IsEntry(map[j], map[k].id) /\ IsEntry(map[k], map[k].id) => j = k
  BY DEF OneNameEach
<1> QED
  BY <1>1, <1>2, NamesAlike

(* Both readers return exactly what mt_snapshot_write wrote, for every      *)
(* snapshot, buffer and file map.                                           *)
THEOREM SnapshotIsReadBack == DecodeSpec => []SnapshotRoundTrip
<1>1. DecodeInv => SnapshotRoundTrip
  <2> SUFFICES ASSUME DecodeInv, Decoded, damage = "none"
               PROVE  /\ viewer.ok /\ viewer.crc_ok /\ IsSent(viewer)
                      /\ script.ok /\ IsSent(script)
                      /\ OneNameEach => viewer.names = script.names
    BY DEF SnapshotRoundTrip
  <2>1. /\ SentWritten /\ file = SentBytes /\ map \in FileMaps
        /\ viewer = ViewerOf /\ script = ScriptOf
    BY DEF DecodeInv, Decoded, FileIs
  <2>2. <<>> \in ByteSeq /\ file = Followed(SentBytes, <<>>)
    <3>1. SentBytes \in ByteSeq
      BY <2>1, SentBytesTyped
    <3> QED
      BY <2>1, <3>1 DEF Followed, ByteSeq
  <2>3. /\ ViewerOf.ok /\ IsSent(ViewerOf) /\ ViewerOf.crc_ok
        /\ ScriptOf.ok /\ IsSent(ScriptOf)
        /\ ViewerOf.names = [k \in DOMAIN SentRecords |-> MapLookup(map, SentRecords[k].file_id)]
        /\ ScriptOf.names = [k \in DOMAIN SentRecords |-> ScriptLookup(map, SentRecords[k].file_id)]
    BY <2>1, <2>2, SentRead
  <2>4. OneNameEach => ViewerOf.names = ScriptOf.names
    BY <2>1, <2>3, SameNames
  <2> QED
    BY <2>1, <2>3, <2>4
<1> QED
  BY <1>1, DecodeInvariant, PTL

(* No damaged snapshot is shown as a good one, whatever was written, changed *)
(* or cut: a changed byte always changes the checksum.                       *)
THEOREM DamageIsTold == DecodeSpec => []DamageTold
<1>1. DecodeInv => DamageTold
  <2> SUFFICES ASSUME DecodeInv, Decoded
               PROVE  /\ Good => IsSent(viewer)
                      /\ damage \in {"changed", "cut"} => ~Good
                      /\ script.ok => IsSent(script) \/ Len(script.records) # Len(SentRecords)
                      /\ damage = "changed" /\ script.ok
                           => Len(script.records) # Len(SentRecords)
                      /\ damage = "cut" => ~script.ok
                      /\ damage = "followed" => viewer.ok /\ script.ok
    BY DEF DamageTold
  <2>1. SentWritten /\ FileIs /\ viewer = ViewerOf /\ script = ScriptOf
    BY DEF DecodeInv, Decoded
  <2>2. damage \in {"none", "changed", "cut", "followed"}
    BY <2>1 DEF FileIs
  <2>3. ASSUME damage \in {"none", "followed"}
        PROVE  viewer.ok /\ IsSent(viewer) /\ script.ok /\ IsSent(script)
    <3>1. PICK tail \in ByteSeq : file = Followed(SentBytes, tail)
      <4>1. CASE damage = "none"
        <5>1. SentBytes \in ByteSeq /\ file = SentBytes
          BY <2>1, <4>1, SentBytesTyped DEF FileIs
        <5>2. <<>> \in ByteSeq /\ file = Followed(SentBytes, <<>>)
          BY <5>1 DEF Followed, ByteSeq
        <5> QED
          BY <5>2
      <4>2. CASE damage = "followed"
        <5>1. PICK tail \in Tails : file = Followed(SentBytes, tail)
          BY <2>1, <4>2 DEF FileIs
        <5>2. tail \in ByteSeq
          BY <5>1, MTS1DecodeAssumption DEF ByteSeq
        <5> QED
          BY <5>1, <5>2
      <4> QED
        BY <2>3, <4>1, <4>2
    <3>2. ViewerOf.ok /\ IsSent(ViewerOf) /\ ScriptOf.ok /\ IsSent(ScriptOf)
      BY <2>1, <3>1, SentRead
    <3> QED
      BY <2>1, <3>2
  <2>4. ASSUME damage = "changed"
        PROVE  /\ viewer.ok => ~viewer.crc_ok
               /\ script.ok => Len(script.records) # Len(SentRecords)
    <3>1. PICK k \in DOMAIN SentBytes, flip \in Flips : file = ChangedAt(SentBytes, k, flip)
      BY <2>1, <2>4 DEF FileIs
    <3>2. /\ ViewerOf.ok => ~ViewerOf.crc_ok
          /\ ScriptOf.ok => Len(ScriptOf.records) # Len(SentRecords)
      BY <2>1, <3>1, SentChanged
    <3> QED
      BY <2>1, <3>2
  <2>5. ASSUME damage = "cut"
        PROVE  ~viewer.ok /\ ~script.ok
    <3>1. PICK len \in 0..(Len(SentBytes) - 1) : file = CutAt(SentBytes, len)
      BY <2>1, <2>5 DEF FileIs
    <3>2. ~ViewerOf.ok /\ ~ScriptOf.ok
      BY <2>1, <3>1, SentCut
    <3> QED
      BY <2>1, <3>2
  <2> QED
    BY <2>2, <2>3, <2>4, <2>5 DEF Good
<1> QED
  BY <1>1, DecodeInvariant, PTL

-----------------------------------------------------------------------------
(* Quotients, remainders and words *)

(* Two multiples of n that differ by less than n are equal. *)
LEMMA MultiplesApart ==
  ASSUME NEW n \in Nat \ {0}, NEW k \in Int, NEW q \in Int, NEW d \in Int,
         n * k = n * q + d, d > -n, d < n
  PROVE  d = 0 /\ k = q
<1>1. n * (k - q) = d
  <2>1. n * (k - q) = n * k - n * q /\ n * k \in Int /\ n * q \in Int
    OBVIOUS
  <2> QED
    BY <2>1
<1> DEFINE e == k - q
<1>2. e \in Int
  OBVIOUS
<1>3. k = q <=> e = 0
  OBVIOUS
<1> HIDE DEF e
<1>4. e >= 1 => n * e >= n
  <2>1. ASSUME e >= 1
        PROVE  n * e >= n
    <3>1. n * e = n + n * (e - 1) /\ n * (e - 1) >= 0
      BY <1>2, <2>1
    <3> QED
      BY <1>2, <3>1
  <2> QED
    BY <2>1
<1>5. e <= -1 => n * e <= -n
  <2>1. ASSUME e <= -1
        PROVE  n * e <= -n
    <3>1. n * e = n * (e + 1) - n /\ n * (e + 1) <= 0
      BY <1>2, <2>1
    <3> QED
      BY <1>2, <3>1
  <2> QED
    BY <2>1
<1>6. n * e = d
  BY <1>1 DEF e
<1>7. e = 0
  BY <1>2, <1>4, <1>5, <1>6
<1>8. n * 0 = 0
  OBVIOUS
<1> QED
  BY <1>3, <1>6, <1>7, <1>8

(* Quotient and remainder, as the provers know them. *)
LEMMA DivMod ==
  ASSUME NEW a \in Int, NEW n \in Nat \ {0}
  PROVE  /\ a = n * (a \div n) + (a % n)
         /\ a \div n \in Int /\ a % n \in 0..(n - 1)
OBVIOUS

(* They are the only ones. *)
LEMMA Quotient ==
  ASSUME NEW a \in Int, NEW n \in Nat \ {0}, NEW k \in Int, NEW r \in 0..(n - 1),
         a = n * k + r
  PROVE  a % n = r /\ a \div n = k
<1> DEFINE q == a \div n
           m == a % n
<1>1. a = n * q + m /\ q \in Int /\ m \in 0..(n - 1)
  BY DivMod
<1> HIDE DEF q, m
<1>2. n * k = n * q + (m - r)
  BY <1>1
<1>3. m - r \in Int /\ m - r > -n /\ m - r < n /\ q \in Int
  BY <1>1
<1>4. m - r = 0 /\ k = q
  BY <1>1, <1>2, <1>3, MultiplesApart
<1>5. m = r
  BY <1>1, <1>4
<1> QED
  BY <1>4, <1>5 DEF m, q

(* A sum in words *)
LEMMA TruncAdds ==
  ASSUME NEW a \in Int
  PROVE  /\ Trunc(a) \in Word
         /\ a \in Word => Trunc(a) = a
         /\ Inc(Trunc(a)) = Trunc(a + 1)
         /\ \A b \in Int : Trunc(Trunc(a) + b) = Trunc(a + b)
<1> DEFINE n == U32Max + 1
           q == a \div n
           r == a % n
<1>1. n \in Nat \ {0} /\ n - 1 = U32Max
  BY U32Assumption
<1>2. a = n * q + r /\ q \in Int /\ r \in 0..(n - 1) /\ Trunc(a) = r
  BY <1>1, DivMod DEF Trunc
<1> HIDE DEF q, r
<1>3. \A x \in Int : Trunc(x) = x % n
  BY DEF Trunc
<1>4. U32Max \in Nat /\ Word = 0..(n - 1)
  BY <1>1, U32Assumption DEF Word
<1> HIDE DEF n
<1>5. ASSUME a \in Word
      PROVE  Trunc(a) = a
  <2>1. a = n * 0 + a /\ 0 \in Int /\ a \in 0..(n - 1)
    BY <1>1, <1>4, <1>5
  <2> QED
    BY <1>1, <1>3, <2>1, Quotient
<1>6. Inc(r) = Trunc(a + 1)
  <2>1. CASE r = U32Max
    <3>1. n * (q + 1) = n * q + n
      BY <1>1, <1>2
    <3>2. a + 1 = n * (q + 1) + 0 /\ q + 1 \in Int /\ 0 \in 0..(n - 1)
      BY <1>1, <1>2, <2>1, <3>1
    <3>3. (a + 1) % n = 0
      BY <1>1, <3>2, Quotient
    <3> QED
      BY <1>3, <2>1, <3>3 DEF Inc
  <2>2. CASE r # U32Max
    <3>1. a + 1 = n * q + (r + 1) /\ r + 1 \in 0..(n - 1)
      BY <1>1, <1>2, <2>2
    <3> DEFINE t == r + 1
               u == a + 1
    <3>a. u \in Int /\ t \in 0..(n - 1) /\ u = n * q + t
      BY <1>2, <3>1
    <3> HIDE DEF t, u
    <3>b. u % n = t
      BY <1>1, <1>2, <3>a, Quotient
    <3>2. (a + 1) % n = r + 1
      BY <3>b DEF t, u
    <3> QED
      BY <1>3, <2>2, <3>2 DEF Inc
  <2> QED
    BY <2>1, <2>2
<1>7. ASSUME NEW b \in Int
      PROVE  Trunc(r + b) = Trunc(a + b)
  <2> DEFINE p == (r + b) \div n
             s == (r + b) % n
  <2>1. r + b = n * p + s /\ p \in Int /\ s \in 0..(n - 1)
    BY <1>1, <1>2, DivMod
  <2>2. Trunc(r + b) = s
    BY <1>2, <1>3
  <2> HIDE DEF p, s
  <2>3. n * (q + p) = n * q + n * p
    BY <1>1, <1>2, <2>1
  <2>4. a + b = n * (q + p) + s /\ q + p \in Int
    <3>1. n * q \in Int /\ n * p \in Int
      BY <1>1, <1>2, <2>1
    <3> DEFINE x == n * q
               y == n * p
               z == n * (q + p)
    <3>2. x \in Int /\ y \in Int /\ z = x + y /\ a = x + r /\ r + b = y + s
          /\ r \in Int /\ s \in Int
      BY <1>2, <2>1, <2>3, <3>1
    <3> HIDE DEF x, y, z
    <3>3. a + b = z + s
      BY <3>2
    <3> QED
      BY <1>2, <2>1, <3>3 DEF z
  <2>5. (a + b) % n = s
    BY <1>1, <2>1, <2>4, Quotient
  <2> QED
    BY <1>3, <2>2, <2>5
<1> QED
  BY <1>2, <1>4, <1>5, <1>6, <1>7

-----------------------------------------------------------------------------
(* Hotspots *)

(* The records that snapshots have, and the hotspots that they can make *)
Records == UNION {ToSet(s.records) : s \in Snapshot}

HotspotType ==
  [file_id : {r.file_id : r \in Records}, line : {r.line : r \in Records},
   total_allocs : Word, total_bytes : Word]

(* A record is added to hotspot k of hs, which gives gs. *)
AddedTo(hs, r, k, gs) ==
  /\ gs \in Seq(HotspotType) /\ DOMAIN gs = DOMAIN hs \cup {k}
  /\ \A j \in DOMAIN gs \ {k} : gs[j] = hs[j]
  /\ SameSite(gs[k], r)

(* One more record of a hotspot's site: its two counters move, its site      *)
(* stays.                                                                    *)
LEMMA RecordCounted ==
  ASSUME NEW h \in HotspotType, NEW r, r.size \in Word, SameSite(h, r)
  PROVE  /\ Counted(h, r) \in HotspotType /\ SameSite(Counted(h, r), r)
         /\ Counted(h, r).total_allocs = Inc(h.total_allocs)
         /\ Counted(h, r).total_bytes = Trunc(h.total_bytes + r.size)
<1>1. h.total_allocs \in Word /\ h.total_bytes \in Word
  BY DEF HotspotType
<1>2. Inc(h.total_allocs) \in Word
  BY <1>1, U32Assumption DEF Inc, Word
<1>3. Trunc(h.total_bytes + r.size) \in Word
  <2>1. Word \in SUBSET Int
    BY U32Assumption DEF Word
  <2>2. h.total_bytes \in Int /\ r.size \in Int
    BY <1>1, <2>1
  <2>3. h.total_bytes + r.size \in Int
    BY <2>2
  <2> QED
    BY <2>3, TruncAdds
<1> QED
  BY <1>2, <1>3 DEF HotspotType, Counted, SameSite

(* It is the one of its site, or a new one if there is none. *)
LEMMA RecordAdded ==
  ASSUME NEW hs \in Seq(HotspotType), NEW r \in Records, r.size \in Word
  PROVE  LET gs == AddRecord(hs, r)
         IN  \/ \E k \in DOMAIN hs :
                  /\ SameSite(hs[k], r) /\ AddedTo(hs, r, k, gs)
                  /\ gs[k].total_allocs = Inc(hs[k].total_allocs)
                  /\ gs[k].total_bytes = Trunc(hs[k].total_bytes + r.size)
             \/ /\ \A k \in DOMAIN hs : ~SameSite(hs[k], r)
                /\ AddedTo(hs, r, Len(hs) + 1, gs)
                /\ gs[Len(hs) + 1].total_allocs = Inc(0)
                /\ gs[Len(hs) + 1].total_bytes = Trunc(0 + r.size)
<1> DEFINE n == Len(hs)
           I == {i \in 1..n : SameSite(hs[i], r)}
           k == IF I # {} THEN Min(I) ELSE 0
<1>1. AddRecord(hs, r) = IF k = 0 THEN Append(hs, Counted(NewHotspot(r), r))
                         ELSE [hs EXCEPT ![k] = Counted(hs[k], r)]
  BY DEF AddRecord, SelectInSeq
<1>2. n \in Nat /\ DOMAIN hs = 1..n
  OBVIOUS
<1>3. CASE I = {}
  <2> DEFINE new == Counted(NewHotspot(r), r)
  <2>1. k = 0 /\ \A j \in DOMAIN hs : ~SameSite(hs[j], r)
    BY <1>2, <1>3
  <2>2. /\ NewHotspot(r) \in HotspotType /\ SameSite(NewHotspot(r), r)
        /\ NewHotspot(r).total_allocs = 0 /\ NewHotspot(r).total_bytes = 0
    BY U32Assumption DEF NewHotspot, HotspotType, SameSite, Word
  <2>3. /\ new \in HotspotType /\ SameSite(new, r)
        /\ new.total_allocs = Inc(0) /\ new.total_bytes = Trunc(0 + r.size)
    BY <2>2, RecordCounted
  <2> HIDE DEF new
  <2> DEFINE gs == Append(hs, new)
  <2>4. AddRecord(hs, r) = gs
    BY <1>1, <2>1 DEF new
  <2>5. AddedTo(hs, r, n + 1, gs) /\ gs[n + 1] = new
    <3>1. /\ gs \in Seq(HotspotType) /\ DOMAIN gs = 1..(n + 1)
          /\ \A j \in 1..n : gs[j] = hs[j]
          /\ gs[n + 1] = new
      BY <1>2, <2>3
    <3>2. 1..(n + 1) = (1..n) \cup {n + 1}
      BY <1>2
    <3> HIDE DEF gs
    <3> QED
      BY <1>2, <2>3, <3>1, <3>2 DEF AddedTo
  <2> HIDE DEF gs
  <2> QED
    BY <2>1, <2>3, <2>4, <2>5
<1>4. CASE I # {}
  <2> HIDE DEF I
  <2>1. k = Min(I) /\ k \in I
    <3>1. I \subseteq Nat
      BY DEF I
    <3> QED
      BY <1>4, <3>1, MinIn
  <2>2. k \in 1..n /\ SameSite(hs[k], r) /\ k # 0
    BY <1>2, <2>1 DEF I
  <2> HIDE DEF k
  <2> DEFINE new == Counted(hs[k], r)
  <2>3. /\ new \in HotspotType /\ SameSite(new, r)
        /\ new.total_allocs = Inc(hs[k].total_allocs)
        /\ new.total_bytes = Trunc(hs[k].total_bytes + r.size)
    <3>1. hs[k] \in HotspotType
      BY <1>2, <2>2
    <3> QED
      BY <2>2, <3>1, RecordCounted
  <2> HIDE DEF new
  <2> DEFINE gs == [hs EXCEPT ![k] = new]
  <2>4. AddRecord(hs, r) = gs
    BY <1>1, <2>2 DEF new
  <2>5. AddedTo(hs, r, k, gs) /\ gs[k] = new
    BY <1>2, <2>2, <2>3 DEF AddedTo
  <2> HIDE DEF gs
  <2> QED
    BY <1>2, <2>2, <2>3, <2>4, <2>5
<1> QED
  BY <1>3, <1>4

(* The indices up to i, among the indices up to n. *)
LEMMA Prefix ==
  ASSUME NEW n \in Nat, NEW i \in 1..n
  PROVE  1..i \in SUBSET (1..n) /\ 1..i # {} /\ i \in Nat \ {0}
OBVIOUS

(* The fold that adds the records of a snapshot goes through a sequence of   *)
(* lists of hotspots.                                                        *)
LEMMA RecordsAdded ==
  ASSUME NEW hs \in Seq(HotspotType), NEW rs \in Seq(Records),
         \A r \in Records : r.size \in Word
  PROVE  \E tr \in [0..Len(rs) -> Seq(HotspotType)] :
           /\ tr[0] = hs
           /\ \A i \in 1..Len(rs) : tr[i] = AddRecord(tr[i - 1], rs[i])
           /\ FoldLeft(AddRecord, hs, rs) = tr[Len(rs)]
<1> DEFINE n == Len(rs)
           A == Seq(HotspotType)
           F == [p \in A \X (1..n) |-> AddRecord(p[1], rs[p[2]])]
           Fold(g) == g = [s \in SUBSET (1..n) |->
                             IF s = {} THEN hs ELSE AddRecord(g[s \ {Max(s)}], rs[Max(s)])]
<1>1. n \in Nat /\ DOMAIN rs = 1..n /\ \A i \in 1..n : rs[i] \in Records
  OBVIOUS
<1>2. F \in [A \X (1..n) -> A]
  <2>1. ASSUME NEW gs \in A, NEW i \in 1..n
        PROVE  AddRecord(gs, rs[i]) \in A
    BY <1>1, RecordAdded DEF AddedTo
  <2> QED
    BY <2>1
<1>3. FoldLeft(AddRecord, hs, rs) = (CHOOSE g : Fold(g))[1..n]
  BY <1>1 DEF FoldLeft, MapThenFoldSet
<1> HIDE DEF A
<1>4. PICK g \in [SUBSET (1..n) -> A] : IsLeftFold(g, n, hs, F)
  <2>1. hs \in A
    BY DEF A
  <2> HIDE DEF F
  <2> QED
    BY <1>1, <1>2, <2>1, LeftFoldExists
<1>5. \A s \in SUBSET (1..n) : s # {} => Max(s) \in 1..n /\ s \ {Max(s)} \in SUBSET (1..n)
  <2> TAKE s \in SUBSET (1..n)
  <2>1. s \in SUBSET (0..n)
    BY <1>1
  <2> QED
    BY <1>1, <2>1, MaxIn
<1>6. Fold(g)
  <2>1. ASSUME NEW s \in SUBSET (1..n)
        PROVE  g[s] = IF s = {} THEN hs ELSE AddRecord(g[s \ {Max(s)}], rs[Max(s)])
    <3>1. CASE s = {}
      BY <1>4, <3>1 DEF IsLeftFold
    <3>2. CASE s # {}
      <4>1. g[s] = F[<<g[s \ {Max(s)}], Max(s)>>]
        BY <1>4, <3>2 DEF IsLeftFold
      <4>2. <<g[s \ {Max(s)}], Max(s)>> \in A \X (1..n)
        BY <1>4, <1>5, <3>2
      <4>3. F[<<g[s \ {Max(s)}], Max(s)>>] = AddRecord(g[s \ {Max(s)}], rs[Max(s)])
        BY <4>2
      <4> QED
        BY <3>2, <4>1, <4>3
    <3> QED
      BY <3>1, <3>2
  <2> QED
    BY <2>1
<1>7. PICK h : h = (CHOOSE q : Fold(q)) /\ Fold(h)
  BY <1>6
<1> HIDE DEF F
<1>8. \A s \in SUBSET (1..n) :
        h[s] = IF s = {} THEN hs ELSE AddRecord(h[s \ {Max(s)}], rs[Max(s)])
  <2> TAKE s \in SUBSET (1..n)
  <2> QED
    BY <1>7
<1>9. ASSUME NEW i \in 1..n
      PROVE  h[1..i] = AddRecord(h[1..(i - 1)], rs[i])
  <2>0. n \in Nat
    BY <1>1
  <2>1. 1..i \in SUBSET (1..n) /\ 1..i # {} /\ i \in Nat \ {0}
    BY <2>0, Prefix
  <2>2. Max(1..i) = i /\ (1..i) \ {Max(1..i)} = 1..(i - 1)
    BY <2>1, MaxUpTo
  <2> QED
    BY <1>8, <2>1, <2>2
<1>10. h[1..0] = hs
  <2>1. 1..0 = {}
    OBVIOUS
  <2> QED
    BY <1>8, <2>1
<1> DEFINE tr == [i \in 0..n |-> h[1..i]]
<1>11. /\ tr[0] = hs
       /\ \A i \in 1..n : tr[i] = AddRecord(tr[i - 1], rs[i])
       /\ FoldLeft(AddRecord, hs, rs) = tr[n]
  <2>1. 0 \in 0..n /\ n \in 0..n /\ \A i \in 1..n : i \in 0..n /\ i - 1 \in 0..n
    BY <1>1
  <2>2. tr[0] = hs
    BY <1>10, <2>1
  <2>3. \A i \in 1..n : tr[i] = AddRecord(tr[i - 1], rs[i])
    BY <1>9, <2>1
  <2>4. FoldLeft(AddRecord, hs, rs) = h[1..n]
    BY <1>3, <1>7
  <2>5. tr[n] = h[1..n]
    BY <2>1
  <2> QED
    BY <2>2, <2>3, <2>4, <2>5
<1>12. tr \in [0..n -> A]
  <2> DEFINE G == {i \in Nat : h[1..i] \in A}
  <2>1. 0 \in G
    BY <1>10 DEF A
  <2>2. ASSUME NEW i \in 1..n, i - 1 \in G
        PROVE  i \in G
    <3>1. h[1..(i - 1)] \in A /\ rs[i] \in Records
      BY <1>1, <2>2
    <3>2. AddRecord(h[1..(i - 1)], rs[i]) \in A
      BY <3>1, RecordAdded DEF A, AddedTo
    <3>3. i \in Nat
      BY <1>1
    <3> QED
      BY <1>9, <3>2, <3>3
  <2> HIDE DEF G
  <2>3. \A i \in 0..n : i \in G
    BY <1>1, <2>1, <2>2, UpTo
  <2> QED
    BY <2>3 DEF G
<1> QED
  BY <1>11, <1>12 DEF A

-----------------------------------------------------------------------------
(* What hotspots count of a function f of records *)

Of(f, h) == {p \in DOMAIN f : SameSite(h, f[p])}

SizesIn(f) == [p \in DOMAIN f |-> f[p].size]

Counts(h, f) ==
  /\ Of(f, h) # {}
  /\ h.total_allocs = Trunc(Cardinality(Of(f, h)))
  /\ h.total_bytes = Trunc(Total(SizesIn(f), Of(f, h)))

HasRecords(f) ==
  /\ IsFiniteSet(DOMAIN f) /\ f \in [DOMAIN f -> Records]
  /\ \A p \in DOMAIN f : f[p].size \in Word

(* A list with one hotspot for each site, which counts its records *)
Tally(hs, f) ==
  /\ hs \in Seq(HotspotType) /\ HasRecords(f)
  /\ \A j, k \in DOMAIN hs : SameSite(hs[j], hs[k]) => j = k
  /\ \A p \in DOMAIN f : \E k \in DOMAIN hs : SameSite(hs[k], f[p])
  /\ \A k \in DOMAIN hs : Counts(hs[k], f)

(* g is f with one more record, at q *)
OneMore(g, f, q) ==
  /\ HasRecords(f) /\ HasRecords(g)
  /\ q \notin DOMAIN f /\ DOMAIN g = DOMAIN f \cup {q}
  /\ \A p \in DOMAIN f : g[p] = f[p]

(* The records of one site are finitely many and their sizes add up to an    *)
(* integer.                                                                  *)
LEMMA SizesTyped ==
  ASSUME NEW f, HasRecords(f), NEW h
  PROVE  /\ IsFiniteSet(Of(f, h)) /\ Cardinality(Of(f, h)) \in Nat
         /\ \A p \in Of(f, h) : SizesIn(f)[p] \in Int
         /\ Total(SizesIn(f), Of(f, h)) \in Int
<1>1. Of(f, h) \subseteq DOMAIN f /\ IsFiniteSet(DOMAIN f)
  BY DEF Of, HasRecords
<1>2. IsFiniteSet(Of(f, h)) /\ Cardinality(Of(f, h)) \in Nat
  BY <1>1, FS_Subset, FS_CardinalityType
<1>3. \A p \in Of(f, h) : SizesIn(f)[p] \in Int
  <2>1. Word \in SUBSET Int
    BY U32Assumption DEF Word
  <2> QED
    BY <1>1, <2>1 DEF SizesIn, HasRecords
<1> QED
  BY <1>2, <1>3, TotalPeels

(* The hotspots of other sites *)
LEMMA CountsSame ==
  ASSUME NEW f, NEW g, NEW q, OneMore(g, f, q), NEW h, Counts(h, f), ~SameSite(h, g[q])
  PROVE  Counts(h, g)
<1>1. Of(g, h) = Of(f, h)
  BY DEF Of, OneMore
<1>2. \A p \in Of(f, h) : SizesIn(f)[p] = SizesIn(g)[p]
  BY DEF Of, SizesIn, OneMore
<1>3. Total(SizesIn(f), Of(f, h)) = Total(SizesIn(g), Of(f, h))
  <2>1. HasRecords(f)
    BY DEF OneMore
  <2> QED
    BY <1>2, <2>1, SizesTyped, TotalSame
<1> QED
  BY <1>1, <1>3 DEF Counts

(* The hotspot of its site *)
LEMMA CountsMore ==
  ASSUME NEW f, NEW g, NEW q, OneMore(g, f, q), NEW h, SameSite(h, g[q]),
         h.total_allocs = Inc(Trunc(Cardinality(Of(f, h)))),
         h.total_bytes = Trunc(Trunc(Total(SizesIn(f), Of(f, h))) + g[q].size)
  PROVE  Counts(h, g)
<1> DEFINE S == Of(f, h)
           T == Of(g, h)
<1>1. T = S \cup {q} /\ q \notin S
  BY DEF Of, OneMore
<1>2. HasRecords(f) /\ HasRecords(g)
  BY DEF OneMore
<1>3. /\ IsFiniteSet(S) /\ Cardinality(S) \in Nat /\ IsFiniteSet(T)
      /\ \A p \in S : SizesIn(f)[p] \in Int
      /\ \A p \in T : SizesIn(g)[p] \in Int
      /\ Total(SizesIn(f), S) \in Int
  BY <1>2, SizesTyped
<1>4. \A p \in S : SizesIn(f)[p] = SizesIn(g)[p]
  BY DEF Of, SizesIn, OneMore
<1>5. SizesIn(g)[q] = g[q].size
  BY DEF SizesIn, OneMore
<1> HIDE DEF S, T
<1>6. Cardinality(T) = Cardinality(S) + 1
  BY <1>1, <1>3, FS_AddElement
<1>7. Total(SizesIn(g), T) = g[q].size + Total(SizesIn(f), S)
  <2>1. T \ {q} = S /\ q \in T
    BY <1>1
  <2>2. Total(SizesIn(g), T) = SizesIn(g)[q] + Total(SizesIn(g), T \ {q})
    BY <1>3, <2>1, TotalPeels
  <2>3. Total(SizesIn(f), S) = Total(SizesIn(g), S)
    BY <1>3, <1>4, TotalSame
  <2> QED
    BY <1>5, <2>1, <2>2, <2>3
<1>8. g[q].size \in Int
  BY <1>1, <1>3, <1>5
<1>9. h.total_allocs = Trunc(Cardinality(T))
  BY <1>3, <1>6, TruncAdds DEF S
<1>10. h.total_bytes = Trunc(Total(SizesIn(g), T))
  <2>1. h.total_bytes = Trunc(Total(SizesIn(f), S) + g[q].size)
    BY <1>3, <1>8, TruncAdds DEF S
  <2> QED
    BY <1>3, <1>7, <1>8, <2>1
<1>11. T # {}
  BY <1>1
<1> QED
  BY <1>9, <1>10, <1>11 DEF Counts, T

(* One record more *)
LEMMA TallyMore ==
  ASSUME NEW f, NEW g, NEW q, OneMore(g, f, q), NEW hs, Tally(hs, f)
  PROVE  Tally(AddRecord(hs, g[q]), g)
<1> DEFINE r == g[q]
           gs == AddRecord(hs, r)
           n == Len(hs)
<1>1. /\ hs \in Seq(HotspotType) /\ n \in Nat /\ DOMAIN hs = 1..n
      /\ r \in Records /\ r.size \in Word
      /\ HasRecords(f) /\ HasRecords(g)
  BY DEF Tally, OneMore, HasRecords
<1>2. /\ \A j, k \in DOMAIN hs : SameSite(hs[j], hs[k]) => j = k
      /\ \A p \in DOMAIN f : \E k \in DOMAIN hs : SameSite(hs[k], f[p])
      /\ \A k \in DOMAIN hs : Counts(hs[k], f)
  BY DEF Tally
<1>3. /\ q \notin DOMAIN f /\ DOMAIN g = DOMAIN f \cup {q}
      /\ \A p \in DOMAIN f : g[p] = f[p]
  BY DEF OneMore
<1>4. \A x, y, z :
        /\ SameSite(x, z) /\ SameSite(y, z) => SameSite(x, y)
        /\ SameSite(x, y) => SameSite(y, x)
        /\ SameSite(x, y) => Of(f, x) = Of(f, y)
  BY DEF SameSite, Of
<1>5. ASSUME NEW k \in Nat, AddedTo(hs, r, k, gs),
             \A j \in DOMAIN hs : SameSite(hs[j], r) <=> j = k,
             Counts(gs[k], g)
      PROVE  Tally(gs, g)
  <2> HIDE DEF gs, r
  <2>1. /\ gs \in Seq(HotspotType) /\ DOMAIN gs = DOMAIN hs \cup {k}
        /\ \A j \in DOMAIN gs \ {k} : gs[j] = hs[j]
        /\ SameSite(gs[k], r)
    BY <1>5 DEF AddedTo
  <2>2. ASSUME NEW j \in DOMAIN gs, j # k
        PROVE  j \in DOMAIN hs /\ gs[j] = hs[j] /\ ~SameSite(gs[j], r)
    BY <1>5, <2>1, <2>2
  <2>3. ASSUME NEW i \in DOMAIN gs, NEW j \in DOMAIN gs, SameSite(gs[i], gs[j])
        PROVE  i = j
    <3>1. CASE i = k /\ j # k
      BY <1>4, <2>1, <2>2, <2>3, <3>1
    <3>2. CASE j = k /\ i # k
      BY <1>4, <2>1, <2>2, <2>3, <3>2 DEF SameSite
    <3>3. CASE i # k /\ j # k
      BY <1>2, <2>2, <2>3, <3>3
    <3> QED
      BY <3>1, <3>2, <3>3
  <2>4. ASSUME NEW p \in DOMAIN g
        PROVE  \E j \in DOMAIN gs : SameSite(gs[j], g[p])
    <3>1. CASE p = q
      BY <2>1, <3>1 DEF r
    <3>2. CASE p # q
      <4>1. PICK j \in DOMAIN hs : SameSite(hs[j], g[p])
        BY <1>2, <1>3, <3>2
      <4>2. CASE j # k
        BY <2>1, <4>1, <4>2
      <4>3. CASE j = k
        <5>1. SameSite(gs[k], hs[k])
          BY <1>5, <2>1, <4>1, <4>3 DEF SameSite
        <5> QED
          BY <2>1, <4>1, <4>3, <5>1 DEF SameSite
      <4> QED
        BY <4>2, <4>3
    <3> QED
      BY <3>1, <3>2
  <2>5. ASSUME NEW j \in DOMAIN gs
        PROVE  Counts(gs[j], g)
    <3>1. CASE j = k
      BY <1>5, <3>1
    <3>2. CASE j # k
      <4>1. Counts(gs[j], f) /\ ~SameSite(gs[j], g[q])
        BY <1>2, <2>2, <3>2 DEF r
      <4> QED
        BY <4>1, CountsSame
    <3> QED
      BY <3>1, <3>2
  <2> QED
    BY <1>1, <2>1, <2>3, <2>4, <2>5 DEF Tally
<1>6. CASE \E k \in DOMAIN hs :
             /\ SameSite(hs[k], r) /\ AddedTo(hs, r, k, gs)
             /\ gs[k].total_allocs = Inc(hs[k].total_allocs)
             /\ gs[k].total_bytes = Trunc(hs[k].total_bytes + r.size)
  <2>1. PICK k \in DOMAIN hs :
             /\ SameSite(hs[k], r) /\ AddedTo(hs, r, k, gs)
             /\ gs[k].total_allocs = Inc(hs[k].total_allocs)
             /\ gs[k].total_bytes = Trunc(hs[k].total_bytes + r.size)
    BY <1>6
  <2> HIDE DEF gs
  <2>2. SameSite(gs[k], r) /\ Of(f, gs[k]) = Of(f, hs[k]) /\ Counts(hs[k], f)
    BY <1>2, <1>4, <2>1 DEF AddedTo
  <2>3. Counts(gs[k], g)
    BY <2>1, <2>2, CountsMore DEF Counts
  <2>4. \A j \in DOMAIN hs : SameSite(hs[j], r) <=> j = k
    BY <1>2, <1>4, <2>1
  <2>5. k \in Nat
    BY <1>1
  <2> QED
    BY <1>5, <2>1, <2>3, <2>4, <2>5 DEF gs
<1>7. CASE /\ \A k \in DOMAIN hs : ~SameSite(hs[k], r)
           /\ AddedTo(hs, r, n + 1, gs)
           /\ gs[n + 1].total_allocs = Inc(0)
           /\ gs[n + 1].total_bytes = Trunc(0 + r.size)
  <2> DEFINE k == n + 1
  <2>1. k \in Nat
    BY <1>1
  <2> HIDE DEF gs, k
  <2>2. SameSite(gs[k], r) /\ AddedTo(hs, r, k, gs)
    BY <1>7 DEF AddedTo, k
  <2>3. Of(f, gs[k]) = {}
    BY <1>2, <1>7, <2>2 DEF Of, SameSite
  <2>4. Cardinality({}) = 0 /\ Total(SizesIn(f), {}) = 0 /\ Trunc(0) = 0
    <3>1. 0 \in Word
      BY U32Assumption DEF Word
    <3>2. Trunc(0) = 0
      BY <3>1, TruncAdds
    <3>3. Total(SizesIn(f), {}) = 0
      <4> DEFINE z == SizesIn(f)
                 S == {}
      <4>1. IsFiniteSet(S) /\ \A x \in S : z[x] \in Int
        BY FS_EmptySet
      <4> HIDE DEF z, S
      <4>2. Total(z, {}) = 0
        BY <4>1, TotalUnfolds
      <4> QED
        BY <4>2 DEF z
    <3> QED
      BY <3>2, <3>3, FS_EmptySet
  <2>5. Counts(gs[k], g)
    BY <1>7, <2>2, <2>3, <2>4, CountsMore DEF k
  <2>6. \A j \in DOMAIN hs : SameSite(hs[j], r) <=> j = k
    BY <1>1, <1>7 DEF k
  <2> QED
    BY <1>5, <2>1, <2>2, <2>5, <2>6 DEF gs
<1> QED
  BY <1>1, <1>6, <1>7, RecordAdded

-----------------------------------------------------------------------------
(* The records of a sequence of snapshots, by position *)

PositionsIn(snaps) == UNION {{k} \X DOMAIN snaps[k].records : k \in DOMAIN snaps}

RecordsIn(snaps) == [p \in PositionsIn(snaps) |-> snaps[p[1]].records[p[2]]]

(* g is f with the records of one more snapshot, rs, at n *)
MoreRecords(g, f, n, rs) ==
  /\ HasRecords(f) /\ HasRecords(g) /\ rs \in Seq(Records)
  /\ \A i \in DOMAIN rs : <<n, i>> \notin DOMAIN f
  /\ DOMAIN g = DOMAIN f \cup ({n} \X DOMAIN rs)
  /\ \A p \in DOMAIN f : g[p] = f[p]
  /\ \A i \in DOMAIN rs : g[<<n, i>>] = rs[i]

SizesAreWords == \A r \in Records : r.size \in Word

(* The records of one more snapshot, pushed one after the other, keep the    *)
(* hotspots a tally of all records read.                                     *)
LEMMA SnapshotTallied ==
  ASSUME NEW f, NEW g, NEW n, NEW rs, MoreRecords(g, f, n, rs), SizesAreWords,
         NEW hs, Tally(hs, f)
  PROVE  Tally(FoldLeft(AddRecord, hs, rs), g)
<1> DEFINE m == Len(rs)
           D(i) == DOMAIN f \cup ({n} \X (1..i))
           part(i) == [p \in D(i) |-> g[p]]
<1>1. /\ HasRecords(f) /\ HasRecords(g) /\ rs \in Seq(Records)
      /\ m \in Nat /\ DOMAIN rs = 1..m
      /\ DOMAIN g = D(m) /\ hs \in Seq(HotspotType)
  BY DEF MoreRecords, Tally
<1>2. /\ \A i \in 1..m : <<n, i>> \notin DOMAIN f /\ g[<<n, i>>] = rs[i]
      /\ \A p \in DOMAIN f : g[p] = f[p]
  BY <1>1 DEF MoreRecords
<1>3. PICK tr \in [0..m -> Seq(HotspotType)] :
        /\ tr[0] = hs
        /\ \A i \in 1..m : tr[i] = AddRecord(tr[i - 1], rs[i])
        /\ FoldLeft(AddRecord, hs, rs) = tr[m]
  BY <1>1, RecordsAdded DEF SizesAreWords
<1>4. ASSUME NEW i \in 0..m
      PROVE  HasRecords(part(i)) /\ DOMAIN part(i) = D(i)
  <2>1. D(i) \in SUBSET D(m)
    <3>1. 1..i \in SUBSET (1..m)
      BY <1>1
    <3> HIDE DEF m
    <3> QED
      BY <3>1
  <2>2. DOMAIN part(i) = D(i)
    OBVIOUS
  <2>3. IsFiniteSet(D(i))
    BY <1>1, <2>1, FS_Subset DEF HasRecords
  <2>4. \A p \in D(i) : part(i)[p] = g[p] /\ g[p] \in Records /\ g[p].size \in Word
    BY <1>1, <2>1 DEF HasRecords
  <2>5. part(i) \in [D(i) -> Records]
    BY <2>4
  <2> HIDE DEF part, D
  <2> QED
    BY <2>2, <2>3, <2>4, <2>5 DEF HasRecords
<1>5. part(0) = f
  <2>1. D(0) = DOMAIN f
    <3>1. 1..0 = {}
      OBVIOUS
    <3>2. {n} \X {} = {}
      OBVIOUS
    <3> QED
      BY <3>1, <3>2
  <2>2. f = [p \in DOMAIN f |-> f[p]]
    BY <1>1 DEF HasRecords
  <2> QED
    BY <1>2, <2>1, <2>2
<1>6. part(m) = g
  <2>1. g = [p \in DOMAIN g |-> g[p]]
    BY <1>1 DEF HasRecords
  <2> QED
    BY <1>1, <2>1
<1>7. ASSUME NEW i \in 1..m
      PROVE  OneMore(part(i), part(i - 1), <<n, i>>) /\ part(i)[<<n, i>>] = rs[i]
  <2>1. i \in 0..m /\ i - 1 \in 0..m
    BY <1>1
  <2>2. D(i) = D(i - 1) \cup {<<n, i>>}
    <3>1. 1..i = (1..(i - 1)) \cup {i}
      BY <1>1
    <3> QED
      BY <3>1
  <2>3. <<n, i>> \notin D(i - 1)
    <3>1. i \notin 1..(i - 1)
      BY <1>1
    <3> QED
      BY <1>2, <3>1
  <2>4. /\ HasRecords(part(i)) /\ DOMAIN part(i) = D(i)
        /\ HasRecords(part(i - 1)) /\ DOMAIN part(i - 1) = D(i - 1)
    BY <1>4, <2>1
  <2>5. \A p \in D(i - 1) : part(i)[p] = g[p] /\ part(i - 1)[p] = g[p]
    BY <2>2
  <2>6. part(i)[<<n, i>>] = rs[i]
    BY <1>2, <2>2
  <2> HIDE DEF D, part
  <2> QED
    BY <2>2, <2>3, <2>4, <2>5, <2>6 DEF OneMore
<1> DEFINE G == {i \in Nat : i <= m => Tally(tr[i], part(i))}
<1>8. 0 \in G
  BY <1>3, <1>5
<1>9. ASSUME NEW i \in 1..m, i - 1 \in G
      PROVE  i \in G
  <2>1. i \in Nat /\ Tally(tr[i - 1], part(i - 1))
    BY <1>1, <1>9
  <2> HIDE DEF part
  <2>2. Tally(AddRecord(tr[i - 1], part(i)[<<n, i>>]), part(i))
    BY <1>7, <2>1, TallyMore
  <2> QED
    BY <1>3, <1>7, <2>1, <2>2
<1> HIDE DEF G
<1>10. \A i \in 0..m : i \in G
  BY <1>1, <1>8, <1>9, UpTo
<1>11. m \in G /\ m <= m
  BY <1>1, <1>10
<1>12. Tally(tr[m], part(m))
  BY <1>11 DEF G
<1> QED
  BY <1>3, <1>6, <1>12

(* The facts about the constants that are needed here *)
LEMMA SnapshotsTyped ==
  /\ SizesAreWords
  /\ \A s \in Snapshot :
       /\ s.records \in Seq(Records)
       /\ s.current_used \in Word /\ s.peak_used \in Word /\ s.crc_ok \in BOOLEAN
<1>1. ASSUME NEW s \in Snapshot
      PROVE  /\ s.records \in Seq(Records)
             /\ \A r \in ToSet(s.records) : r.size \in Word
             /\ s.current_used \in Word /\ s.peak_used \in Word /\ s.crc_ok \in BOOLEAN
  <2>1. /\ s.records \in Seq(ToSet(s.records))
        /\ \A k \in DOMAIN s.records : s.records[k].size \in Word
        /\ s.current_used \in Word /\ s.peak_used \in Word /\ s.crc_ok \in BOOLEAN
    BY MTV1ViewerAssumption
  <2>2. ToSet(s.records) \in SUBSET Records
    BY DEF Records
  <2>3. s.records \in Seq(Records)
    <3> DEFINE S == ToSet(s.records)
    <3>1. s.records \in Seq(S) /\ S \in SUBSET Records
      BY <2>1, <2>2
    <3> HIDE DEF S
    <3> QED
      BY <3>1
  <2>4. \A r \in ToSet(s.records) : r.size \in Word
    BY <2>1 DEF ToSet
  <2> QED
    BY <2>1, <2>3, <2>4
<1> QED
  BY <1>1 DEF SizesAreWords, Records

(* A snapshot more in a sequence *)
LEMMA SnapshotAppended ==
  ASSUME NEW snaps \in Seq(Snapshot), HasRecords(RecordsIn(snaps)), NEW s \in Snapshot
  PROVE  MoreRecords(RecordsIn(Append(snaps, s)), RecordsIn(snaps), Len(snaps) + 1, s.records)
<1> DEFINE more == Append(snaps, s)
           n == Len(snaps)
           k == n + 1
           rs == s.records
           P == PositionsIn(snaps)
           Q == PositionsIn(more)
           f == RecordsIn(snaps)
           g == RecordsIn(more)
<1>1. /\ n \in Nat /\ DOMAIN snaps = 1..n /\ DOMAIN more = 1..k
      /\ more[k] = s /\ \A i \in 1..n : more[i] = snaps[i] /\ snaps[i] \in Snapshot
      /\ 1..k = (1..n) \cup {k} /\ k \notin 1..n
  OBVIOUS
<1> HIDE DEF more, n, k
<1>2. rs \in Seq(Records) /\ SizesAreWords
  BY SnapshotsTyped
<1>3. /\ \A p \in P : p = <<p[1], p[2]>> /\ p[1] \in 1..n /\ p[2] \in DOMAIN snaps[p[1]].records
      /\ \A i \in 1..n : \A j \in DOMAIN snaps[i].records : <<i, j>> \in P
  BY <1>1 DEF PositionsIn
<1>4. Q = P \cup ({k} \X DOMAIN rs)
  <2>1. Q = (UNION {{i} \X DOMAIN more[i].records : i \in 1..n}) \cup ({k} \X DOMAIN more[k].records)
    BY <1>1 DEF PositionsIn
  <2>2. P = UNION {{i} \X DOMAIN more[i].records : i \in 1..n}
    BY <1>1 DEF PositionsIn
  <2> QED
    BY <1>1, <2>1, <2>2
<1>5. \A i \in DOMAIN rs : <<k, i>> \notin P
  BY <1>1, <1>3
<1>6. DOMAIN f = P /\ DOMAIN g = Q
  BY DEF RecordsIn
<1>7. \A p \in P : g[p] = f[p]
  <2>1. \A p \in P : p \in Q /\ more[p[1]] = snaps[p[1]]
    BY <1>1, <1>3, <1>4
  <2> QED
    BY <2>1 DEF RecordsIn
<1>8. \A i \in DOMAIN rs : g[<<k, i>>] = rs[i]
  <2>1. \A i \in DOMAIN rs : <<k, i>> \in Q
    BY <1>4
  <2> QED
    BY <1>1, <2>1 DEF RecordsIn
<1>9. HasRecords(g)
  <2>1. IsFiniteSet(P) /\ \A p \in P : f[p] \in Records
    BY <1>6 DEF HasRecords
  <2>2. IsFiniteSet({k} \X DOMAIN rs)
    <3> DEFINE m == Len(rs)
    <3>1. DOMAIN rs = 1..m /\ m \in Int
      BY <1>2
    <3> HIDE DEF m
    <3>2. IsFiniteSet(1..m)
      BY <3>1, FS_Interval
    <3>3. IsFiniteSet({k})
      BY FS_Singleton
    <3> DEFINE T == 1..m
               U == {k}
    <3> HIDE DEF T, U
    <3>4. IsFiniteSet(U \X T)
      BY <3>2, <3>3, FS_Product DEF T, U
    <3> QED
      BY <3>1, <3>4 DEF T, U
  <2>3. IsFiniteSet(Q)
    <3> DEFINE T == {k} \X DOMAIN rs
    <3> HIDE DEF P, Q, T
    <3>1. IsFiniteSet(P \cup T)
      BY <2>1, <2>2, FS_Union DEF T
    <3> QED
      BY <1>4, <3>1 DEF T
  <2>4. \A p \in Q : g[p] \in Records
    <3> TAKE p \in Q
    <3>1. CASE p \in P
      BY <1>7, <2>1, <3>1
    <3>2. CASE p \notin P
      <4>1. PICK i \in DOMAIN rs : p = <<k, i>>
        BY <1>4, <3>2
      <4>2. rs[i] \in Records
        BY <1>2
      <4> QED
        BY <1>8, <4>1, <4>2
    <3> QED
      BY <3>1, <3>2
  <2>5. g \in [Q -> Records]
    BY <2>4 DEF RecordsIn
  <2> HIDE DEF P, Q, f, g
  <2> QED
    BY <1>2, <1>6, <2>3, <2>4, <2>5 DEF HasRecords, SizesAreWords
<1> HIDE DEF P, Q, f, g
<1> QED
  BY <1>2, <1>4, <1>5, <1>6, <1>7, <1>8, <1>9 DEF MoreRecords, P, Q, f, g, n, k, more

-----------------------------------------------------------------------------
(* The model of a run *)

ModelType ==
  [timeline : Seq([current_used : Word, peak_used : Word]),
   last_snapshot : Seq(Snapshot), hotspots : Seq(HotspotType),
   marks : Seq(Text), telemetry : Seq(Text), peak_used_ever : Word,
   total_frames : Word, resync_count : Word, crc_fail_count : Word]

FramesType ==
  [snapshot : Seq(Snapshot), mark : Seq(Text), telemetry : Seq(Text),
   other : Seq({"other"})]

IsPeak(p, snaps) ==
  /\ p \in {0} \cup {s.peak_used : s \in ToSet(snaps)}
  /\ \A s \in ToSet(snaps) : p >= s.peak_used

(* m is the model of the snapshots *)
IsModelOf(m, snaps) ==
  /\ Tally(m.hotspots, RecordsIn(snaps))
  /\ Len(m.timeline) = Len(snaps)
  /\ \A i \in DOMAIN snaps : m.timeline[i].current_used = snaps[i].current_used
  /\ IsPeak(m.peak_used_ever, snaps)
  /\ m.total_frames = Trunc(Len(snaps))
  /\ m.last_snapshot = LastOf(snaps)

Wrong(snaps) == {k \in DOMAIN snaps : ~snaps[k].crc_ok}

(* What replay counts besides *)
IsReplayOf(m, f) ==
  /\ m.crc_fail_count = Trunc(Cardinality(Wrong(f.snapshot)))
  /\ m.marks = SubSeq(f.mark, 1, Min({Len(f.mark), MaxMarks}))

(* A uint32_t is a natural number, and counting stays within it. *)
LEMMA WordTyped ==
  /\ 0 \in Word /\ Word \in SUBSET Nat /\ Word \in SUBSET Int
  /\ \A w \in Word : Inc(w) \in Word
BY U32Assumption DEF Word, Inc

(* The model that load_file starts from has its type. *)
LEMMA NewModelTyped ==
  NewModel \in ModelType /\ NoFrames \in FramesType
BY WordTyped DEF NewModel, NoFrames, ModelType, FramesType

(* It is the model of a run of which nothing has been read. *)
LEMMA NewModelEmpty ==
  /\ IsModelOf(NewModel, <<>>)
  /\ IsReplayOf(NewModel, NoFrames)
<1>0. <<>> \in Seq(HotspotType) /\ DOMAIN <<>> = {} /\ Len(<<>>) = 0 /\ ToSet(<<>>) = {}
  BY DEF ToSet
<1>1. Tally(<<>>, RecordsIn(<<>>))
  <2>1. PositionsIn(<<>>) = {}
    BY <1>0 DEF PositionsIn
  <2>2. DOMAIN RecordsIn(<<>>) = {} /\ RecordsIn(<<>>) \in [{} -> Records]
    BY <2>1 DEF RecordsIn
  <2>3. HasRecords(RecordsIn(<<>>))
    BY <2>2, FS_EmptySet DEF HasRecords
  <2> QED
    BY <1>0, <2>2, <2>3 DEF Tally
<1>2. Trunc(0) = 0
  BY WordTyped, TruncAdds
<1>3. IsModelOf(NewModel, <<>>)
  BY <1>0, <1>1, <1>2 DEF IsModelOf, NewModel, IsPeak, LastOf
<1>4. Wrong(<<>>) = {} /\ Cardinality({}) = 0
  BY <1>0, FS_EmptySet DEF Wrong
<1>5. SubSeq(<<>>, 1, Min({Len(<<>>), MaxMarks})) = <<>>
  <2>1. {Len(<<>>), MaxMarks} \subseteq Nat /\ {Len(<<>>), MaxMarks} # {}
    BY MTV1ViewerAssumption, <1>0
  <2> DEFINE m == Min({Len(<<>>), MaxMarks})
  <2>2. m \in {Len(<<>>), MaxMarks} /\ \A y \in {Len(<<>>), MaxMarks} : m <= y
    BY <2>1, MinIn
  <2>3. m = 0
    BY <1>0, <2>1, <2>2
  <2> HIDE DEF m
  <2> QED
    BY <2>3
<1> QED
  BY <1>2, <1>3, <1>4, <1>5 DEF IsReplayOf, NewModel, NoFrames

(* What the counters of replay leave alone *)
LEMMA CountersOnly ==
  ASSUME NEW m \in ModelType, NEW s, NEW resync
  PROVE  LET n == Checked(Resynced(m, resync), s)
         IN  /\ Resynced(m, resync) \in ModelType /\ n \in ModelType
             /\ \A f \in DOMAIN m \ {"resync_count", "crc_fail_count"} : n[f] = m[f]
             /\ Resynced(m, resync).crc_fail_count = m.crc_fail_count
             /\ n.crc_fail_count = IF cmd = "replay" /\ ~s.crc_ok
                                   THEN Inc(m.crc_fail_count) ELSE m.crc_fail_count
<1>1. ASSUME NEW k \in ModelType
      PROVE  /\ [k EXCEPT !.resync_count = Inc(k.resync_count)] \in ModelType
             /\ [k EXCEPT !.crc_fail_count = Inc(k.crc_fail_count)] \in ModelType
             /\ DOMAIN k = DOMAIN m
  <2>1. Inc(k.resync_count) \in Word /\ Inc(k.crc_fail_count) \in Word
    BY WordTyped DEF ModelType
  <2> QED
    BY <2>1 DEF ModelType
<1> DEFINE a == Resynced(m, resync)
           b == Checked(a, s)
<1>2. /\ a \in ModelType /\ a.crc_fail_count = m.crc_fail_count
      /\ \A f \in DOMAIN m \ {"resync_count"} : a[f] = m[f]
  BY <1>1 DEF Resynced, ModelType
<1> HIDE DEF a
<1>3. /\ b \in ModelType
      /\ \A f \in DOMAIN a \ {"crc_fail_count"} : b[f] = a[f]
      /\ b.crc_fail_count = IF cmd = "replay" /\ ~s.crc_ok
                            THEN Inc(a.crc_fail_count) ELSE a.crc_fail_count
  BY <1>1, <1>2 DEF Checked, ModelType
<1>4. DOMAIN a = DOMAIN m
  BY <1>1, <1>2
<1> HIDE DEF b
<1>5. /\ a \in ModelType /\ b \in ModelType
      /\ \A f \in DOMAIN m \ {"resync_count", "crc_fail_count"} : b[f] = m[f]
      /\ a.crc_fail_count = m.crc_fail_count
      /\ b.crc_fail_count = IF cmd = "replay" /\ ~s.crc_ok
                            THEN Inc(m.crc_fail_count) ELSE m.crc_fail_count
  BY <1>2, <1>3, <1>4
<1> QED
  BY <1>5 DEF a, b

(* The model with one more snapshot *)
LEMMA SnapshotPushed ==
  ASSUME NEW m \in ModelType, NEW s \in Snapshot
  PROVE  /\ PushSnapshot(m, s) \in ModelType
         /\ PushSnapshot(m, s).marks = m.marks
         /\ PushSnapshot(m, s).crc_fail_count = m.crc_fail_count
         /\ \A snaps \in Seq(Snapshot) :
              IsModelOf(m, snaps) => IsModelOf(PushSnapshot(m, s), Append(snaps, s))
<1> DEFINE n == PushSnapshot(m, s)
           point == [current_used |-> s.current_used, peak_used |-> s.peak_used]
           high == IF s.peak_used > m.peak_used_ever THEN s.peak_used ELSE m.peak_used_ever
           hs == FoldLeft(AddRecord, m.hotspots, s.records)
<1>1. /\ s.records \in Seq(Records) /\ SizesAreWords
      /\ s.current_used \in Word /\ s.peak_used \in Word
  BY SnapshotsTyped
<1>2. /\ m.timeline \in Seq([current_used : Word, peak_used : Word])
      /\ m.hotspots \in Seq(HotspotType)
      /\ m.peak_used_ever \in Word /\ m.total_frames \in Word
  BY DEF ModelType
<1>3. hs \in Seq(HotspotType)
  <2>1. PICK tr \in [0..Len(s.records) -> Seq(HotspotType)] : hs = tr[Len(s.records)]
    BY <1>1, <1>2, RecordsAdded DEF SizesAreWords
  <2>2. Len(s.records) \in 0..Len(s.records)
    BY <1>1
  <2> QED
    BY <2>1, <2>2
<1> HIDE DEF hs
<1>4. n = [m EXCEPT !.timeline = Append(m.timeline, point), !.peak_used_ever = high,
                    !.last_snapshot = <<s>>, !.hotspots = hs,
                    !.total_frames = Inc(m.total_frames)]
  BY DEF PushSnapshot, hs
<1>5. /\ point \in [current_used : Word, peak_used : Word] /\ high \in Word
      /\ point.current_used = s.current_used
      /\ Append(m.timeline, point) \in Seq([current_used : Word, peak_used : Word])
      /\ Inc(m.total_frames) \in Word /\ <<s>> \in Seq(Snapshot)
  <2> DEFINE P == [current_used : Word, peak_used : Word]
  <2>1. point \in P /\ point.current_used = s.current_used
    BY <1>1
  <2> HIDE DEF point, P
  <2>2. Append(m.timeline, point) \in Seq(P)
    BY <1>2, <2>1 DEF P
  <2>3. high \in Word /\ Inc(m.total_frames) \in Word
    BY <1>1, <1>2, WordTyped
  <2>4. <<s>> \in Seq(Snapshot)
    OBVIOUS
  <2> QED
    BY <2>1, <2>2, <2>3, <2>4 DEF P
<1> HIDE DEF point, n
<1>6. /\ n \in ModelType
      /\ n.timeline = Append(m.timeline, point) /\ n.peak_used_ever = high
      /\ n.last_snapshot = <<s>> /\ n.hotspots = hs
      /\ n.total_frames = Inc(m.total_frames)
      /\ n.marks = m.marks /\ n.crc_fail_count = m.crc_fail_count
  BY <1>3, <1>4, <1>5 DEF ModelType
<1>7. ASSUME NEW snaps \in Seq(Snapshot), IsModelOf(m, snaps)
      PROVE  IsModelOf(n, Append(snaps, s))
  <2> DEFINE more == Append(snaps, s)
             l == Len(snaps)
  <2>1. /\ l \in Nat /\ Len(more) = l + 1 /\ more \in Seq(Snapshot)
        /\ DOMAIN snaps = 1..l /\ DOMAIN more = 1..(l + 1)
        /\ more[l + 1] = s /\ \A i \in 1..l : more[i] = snaps[i]
        /\ more # <<>>
    BY SMTT(20)
  <2>2. Tally(hs, RecordsIn(more))
    <3>1. Tally(m.hotspots, RecordsIn(snaps))
      BY <1>7 DEF IsModelOf
    <3>2. HasRecords(RecordsIn(snaps))
      BY <3>1 DEF Tally
    <3>3. MoreRecords(RecordsIn(more), RecordsIn(snaps), l + 1, s.records)
      BY <3>2, SnapshotAppended
    <3> QED
      BY <1>1, <3>1, <3>3, SnapshotTallied DEF hs
  <2>3. Len(m.timeline) = l /\ \A i \in 1..l : m.timeline[i].current_used = snaps[i].current_used
    BY <1>7, <2>1 DEF IsModelOf
  <2>4. ToSet(more) = ToSet(snaps) \cup {s}
    <3>1. ToSet(more) = {more[i] : i \in 1..(l + 1)}
      BY <2>1 DEF ToSet
    <3>2. ToSet(snaps) = {more[i] : i \in 1..l}
      BY <2>1 DEF ToSet
    <3>3. 1..(l + 1) = (1..l) \cup {l + 1}
      BY <2>1
    <3> QED
      BY <2>1, <3>1, <3>2, <3>3
  <2> HIDE DEF more, l
  <2>5. /\ Len(n.timeline) = Len(more)
        /\ \A i \in DOMAIN more : n.timeline[i].current_used = more[i].current_used
    <3>1. /\ Len(n.timeline) = l + 1 /\ n.timeline[l + 1] = point
          /\ \A i \in 1..l : n.timeline[i] = m.timeline[i]
      BY <1>2, <1>5, <1>6, <2>1, <2>3
    <3>2. \A i \in 1..(l + 1) : i \in 1..l \/ i = l + 1
      BY <2>1
    <3> QED
      BY <1>5, <2>1, <2>3, <3>1, <3>2
  <2>6. IsPeak(high, more)
    <3>1. IsPeak(m.peak_used_ever, snaps)
      BY <1>7 DEF IsModelOf
    <3>2. high \in Int /\ m.peak_used_ever \in Int /\ s.peak_used \in Int
      BY <1>1, <1>2, <1>5, WordTyped
    <3>3. high >= m.peak_used_ever /\ high >= s.peak_used
      BY <3>2
    <3>4. \A q \in ToSet(snaps) : q.peak_used \in Int
      <4>1. \A i \in 1..l : snaps[i] \in Snapshot
        BY <2>1
      <4>2. \A q \in Snapshot : q.peak_used \in Int
        BY SnapshotsTyped, WordTyped
      <4> QED
        BY <2>1, <4>1, <4>2 DEF ToSet
    <3>5. \A q \in ToSet(more) : high >= q.peak_used
      BY <2>4, <3>1, <3>2, <3>3, <3>4 DEF IsPeak
    <3>6. high \in {0} \cup {q.peak_used : q \in ToSet(more)}
      BY <2>4, <3>1 DEF IsPeak
    <3> QED
      BY <3>5, <3>6 DEF IsPeak
  <2>7. Inc(m.total_frames) = Trunc(Len(more))
    <3>1. m.total_frames = Trunc(l) /\ l \in Int
      BY <1>7, <2>1 DEF IsModelOf, l
    <3> QED
      BY <2>1, <3>1, TruncAdds
  <2>8. LastOf(more) = <<s>>
    BY <2>1 DEF LastOf, Last1
  <2> QED
    BY <1>6, <2>2, <2>5, <2>6, <2>7, <2>8 DEF IsModelOf, more
<1> QED
  BY <1>6, <1>7 DEF n

(* A snapshot, or a mark, that replay reads *)
LEMMA WrongAppended ==
  ASSUME NEW snaps \in Seq(Snapshot), NEW s \in Snapshot
  PROVE  /\ IsFiniteSet(Wrong(snaps)) /\ Cardinality(Wrong(snaps)) \in Nat
         /\ Cardinality(Wrong(Append(snaps, s))) =
              IF s.crc_ok THEN Cardinality(Wrong(snaps)) ELSE Cardinality(Wrong(snaps)) + 1
<1> DEFINE more == Append(snaps, s)
           l == Len(snaps)
<1>1. /\ l \in Nat /\ DOMAIN snaps = 1..l /\ DOMAIN more = 1..(l + 1)
      /\ more[l + 1] = s /\ \A i \in 1..l : more[i] = snaps[i]
  BY SMTT(20)
<1> HIDE DEF more, l
<1>2. 1..(l + 1) = (1..l) \cup {l + 1} /\ l + 1 \notin 1..l
  BY <1>1
<1>3. IsFiniteSet(Wrong(snaps)) /\ Cardinality(Wrong(snaps)) \in Nat
  <2>1. l \in Int /\ 1 \in Int
    BY <1>1
  <2>2. IsFiniteSet(1..l)
    BY <2>1, FS_Interval
  <2>3. Wrong(snaps) \in SUBSET (1..l)
    BY <1>1 DEF Wrong
  <2> QED
    BY <2>2, <2>3, FS_Subset, FS_CardinalityType
<1>4. Wrong(more) = IF s.crc_ok THEN Wrong(snaps) ELSE Wrong(snaps) \cup {l + 1}
  BY <1>1, <1>2 DEF Wrong
<1>5. l + 1 \notin Wrong(snaps)
  BY <1>1, <1>2 DEF Wrong
<1> QED
  BY <1>3, <1>4, <1>5, FS_AddElement DEF more

(* One more snapshot of a replay: it is the last one, and a wrong checksum   *)
(* is counted.                                                               *)
LEMMA ReplayPushed ==
  ASSUME NEW m, NEW n, NEW f \in FramesType, NEW g, NEW s \in Snapshot, IsReplayOf(m, f),
         g.snapshot = Append(f.snapshot, s), g.mark = f.mark, n.marks = m.marks,
         n.crc_fail_count = IF ~s.crc_ok THEN Inc(m.crc_fail_count) ELSE m.crc_fail_count
  PROVE  IsReplayOf(n, g)
<1>1. f.snapshot \in Seq(Snapshot)
  BY DEF FramesType
<1> DEFINE c == Cardinality(Wrong(f.snapshot))
           d == Cardinality(Wrong(g.snapshot))
<1>2. c \in Nat /\ d = IF s.crc_ok THEN c ELSE c + 1
  BY <1>1, WrongAppended
<1>3. m.crc_fail_count = Trunc(c) /\ Inc(Trunc(c)) = Trunc(c + 1)
  BY <1>2, TruncAdds DEF IsReplayOf
<1> HIDE DEF c, d
<1>4. n.crc_fail_count = Trunc(d)
  BY <1>2, <1>3
<1> QED
  BY <1>4 DEF IsReplayOf, d

(* One mark more: it is kept as long as there is room. *)
LEMMA MarkPushed ==
  ASSUME NEW marks \in Seq(Text), NEW text \in Text
  PROVE  LET kept == SubSeq(marks, 1, Min({Len(marks), MaxMarks}))
             more == Append(marks, text)
         IN  SubSeq(more, 1, Min({Len(more), MaxMarks})) =
               IF Len(kept) >= MaxMarks THEN kept ELSE Append(kept, text)
<1> DEFINE l == Len(marks)
           a == Min({l, MaxMarks})
           kept == SubSeq(marks, 1, a)
           more == Append(marks, text)
           b == Min({Len(more), MaxMarks})
<1>1. l \in Nat /\ Len(more) = l + 1 /\ MaxMarks \in Nat
  BY MTV1ViewerAssumption
<1>2. /\ a \in {l, MaxMarks} /\ a <= l /\ a <= MaxMarks
      /\ b \in {l + 1, MaxMarks} /\ b <= l + 1 /\ b <= MaxMarks
  <2>1. {l, MaxMarks} \subseteq Nat /\ {l, MaxMarks} # {}
        /\ {l + 1, MaxMarks} \subseteq Nat /\ {l + 1, MaxMarks} # {}
    BY <1>1
  <2> QED
    BY <1>1, <2>1, MinIn
<1>3. a \in Nat /\ b \in Nat
  BY <1>1, <1>2
<1> HIDE DEF a, b
<1>4. Len(kept) = a /\ kept \in Seq(Text)
  BY <1>1, <1>2, <1>3
<1>5. ASSUME l >= MaxMarks
      PROVE  SubSeq(more, 1, b) = kept /\ Len(kept) >= MaxMarks
  <2>1. a = MaxMarks /\ b = MaxMarks
    BY <1>1, <1>2, <1>5
  <2>2. SubSeq(more, 1, a) = kept
    BY <1>1, <1>2, <1>3
  <2>3. Len(kept) >= MaxMarks
    BY <1>1, <1>4, <2>1
  <2> HIDE DEF kept, more
  <2> QED
    BY <2>1, <2>2, <2>3
<1>6. ASSUME l < MaxMarks
      PROVE  SubSeq(more, 1, b) = Append(kept, text) /\ ~(Len(kept) >= MaxMarks)
  <2>1. a = l /\ b = l + 1
    BY <1>1, <1>2, <1>6
  <2>2. kept = marks /\ SubSeq(more, 1, l + 1) = more
    BY <1>1, <2>1
  <2> QED
    BY <1>1, <1>4, <1>6, <2>1, <2>2
<1>7. l >= MaxMarks \/ l < MaxMarks
  BY <1>1
<1>8. SubSeq(more, 1, b) = IF Len(kept) >= MaxMarks THEN kept ELSE Append(kept, text)
  BY <1>5, <1>6, <1>7
<1> QED
  BY <1>8 DEF a, b

-----------------------------------------------------------------------------
(* The invariant of the viewer *)

RowType ==
  [snap_index : Nat, current_used : Word, peak_used : Word, records : Seq(Records)]

Exported(snaps) ==
  /\ rows \in Seq(RowType) /\ Len(rows) = Len(snaps)
  /\ \A k \in DOMAIN snaps :
       /\ rows[k].current_used = snaps[k].current_used
       /\ rows[k].peak_used = snaps[k].peak_used
       /\ rows[k].records = snaps[k].records

Results ==
  /\ diff = DiffOf(model["a"], model["b"])
  /\ top = [r \in Run |-> TopHotspots(model[r], TopN)]

ViewInv ==
  /\ cmd \in Command /\ loading \in {"a", "b", "none"}
  /\ loading = "b" => cmd = "diff"
  /\ model \in [Run -> ModelType] /\ frames \in [Run -> FramesType]
  /\ loading = "a" => frames["b"] = NoFrames
  /\ cmd # "export" => \A r \in Run : IsModelOf(model[r], frames[r].snapshot)
  /\ cmd = "replay" => IsReplayOf(model["a"], frames["a"])
  /\ cmd = "export" => Exported(frames["a"].snapshot)
  /\ Compared => Results

(* What the history gains when a snapshot is read. *)
LEMMA Noted ==
  ASSUME ViewInv, loading \in Run, NEW x, Note("snapshot", x),
         Append(frames[loading].snapshot, x) \in Seq(Snapshot)
  PROVE  /\ frames' \in [Run -> FramesType]
         /\ \A r \in Run \ {loading} : frames'[r] = frames[r]
         /\ frames'[loading].snapshot = Append(frames[loading].snapshot, x)
         /\ frames'[loading].mark = frames[loading].mark
<1>1. frames \in [Run -> FramesType]
  BY DEF ViewInv
<1> DEFINE f == frames[loading]
           g == [f EXCEPT !.snapshot = Append(f.snapshot, x)]
<1>2. f \in FramesType
  BY <1>1
<1>3. g \in FramesType /\ g.snapshot = Append(f.snapshot, x) /\ g.mark = f.mark
  BY <1>2 DEF FramesType
<1>4. frames' = [frames EXCEPT ![loading] = g]
  BY DEF Note
<1> HIDE DEF g
<1> QED
  BY <1>1, <1>3, <1>4

(* What it gains when a mark or telemetry is read. *)
LEMMA NotedText ==
  ASSUME ViewInv, loading \in Run, NEW type \in {"mark", "telemetry"},
         NEW x \in Text, Note(type, x)
  PROVE  /\ frames' \in [Run -> FramesType]
         /\ \A r \in Run \ {loading} : frames'[r] = frames[r]
         /\ frames'[loading].snapshot = frames[loading].snapshot
         /\ frames'[loading].mark = IF type = "mark" THEN Append(frames[loading].mark, x)
                                    ELSE frames[loading].mark
<1>1. frames \in [Run -> FramesType]
  BY DEF ViewInv
<1> DEFINE f == frames[loading]
           g == [f EXCEPT ![type] = Append(f[type], x)]
<1>2. f \in FramesType
  BY <1>1
<1>3. Append(f.mark, x) \in Seq(Text) /\ Append(f.telemetry, x) \in Seq(Text)
  BY <1>2 DEF FramesType
<1>4. /\ g \in FramesType /\ g.snapshot = f.snapshot
      /\ g.mark = IF type = "mark" THEN Append(f.mark, x) ELSE f.mark
  <2>1. CASE type = "mark"
    BY <1>2, <1>3, <2>1 DEF FramesType
  <2>2. CASE type = "telemetry"
    BY <1>2, <1>3, <2>2 DEF FramesType
  <2> QED
    BY <2>1, <2>2
<1>5. frames' = [frames EXCEPT ![loading] = g]
  BY DEF Note
<1> HIDE DEF g
<1> QED
  BY <1>1, <1>4, <1>5

(* What it gains from any other frame: the run's snapshots and marks stay. *)
LEMMA NotedOther ==
  ASSUME ViewInv, loading \in Run, Note("other", "other")
  PROVE  /\ frames' \in [Run -> FramesType]
         /\ \A r \in Run \ {loading} : frames'[r] = frames[r]
         /\ frames'[loading].snapshot = frames[loading].snapshot
         /\ frames'[loading].mark = frames[loading].mark
<1>1. frames \in [Run -> FramesType]
  BY DEF ViewInv
<1> DEFINE f == frames[loading]
           g == [f EXCEPT !.other = Append(f.other, "other")]
<1>2. f \in FramesType
  BY <1>1
<1>3. Append(f.other, "other") \in Seq({"other"})
  <2>1. f.other \in Seq({"other"}) /\ "other" \in {"other"}
    BY <1>2 DEF FramesType
  <2> DEFINE T == {"other"}
  <2> HIDE DEF T
  <2> QED
    BY <2>1 DEF T
<1>4. g \in FramesType /\ g.snapshot = f.snapshot /\ g.mark = f.mark
  BY <1>2, <1>3 DEF FramesType
<1>5. frames' = [frames EXCEPT ![loading] = g]
  BY DEF Note
<1> HIDE DEF g
<1> QED
  BY <1>1, <1>4, <1>5

(* A row of export *)
LEMMA RowWritten ==
  ASSUME NEW snaps \in Seq(Snapshot), Exported(snaps), NEW s \in Snapshot,
         rows' = Append(rows, Row(s))
  PROVE  /\ rows' \in Seq(RowType) /\ Len(rows') = Len(Append(snaps, s))
         /\ \A k \in DOMAIN Append(snaps, s) :
              /\ rows'[k].current_used = Append(snaps, s)[k].current_used
              /\ rows'[k].peak_used = Append(snaps, s)[k].peak_used
              /\ rows'[k].records = Append(snaps, s)[k].records
<1> DEFINE more == Append(snaps, s)
           l == Len(snaps)
           row == Row(s)
<1>1. /\ l \in Nat /\ DOMAIN snaps = 1..l /\ Len(more) = l + 1 /\ DOMAIN more = 1..(l + 1)
      /\ more[l + 1] = s /\ \A i \in 1..l : more[i] = snaps[i]
  BY SMTT(20)
<1>2. /\ rows \in Seq(RowType) /\ Len(rows) = l
      /\ \A k \in 1..l : /\ rows[k].current_used = snaps[k].current_used
                         /\ rows[k].peak_used = snaps[k].peak_used
                         /\ rows[k].records = snaps[k].records
  BY <1>1 DEF Exported
<1> HIDE DEF more, l
<1>3. /\ row \in RowType /\ row.current_used = s.current_used
      /\ row.peak_used = s.peak_used /\ row.records = s.records
  BY <1>1, <1>2, SnapshotsTyped DEF Row, RowType
<1> HIDE DEF row
<1>4. rows' = Append(rows, row)
  BY DEF row
<1>5. /\ rows' \in Seq(RowType) /\ Len(rows') = l + 1 /\ rows'[l + 1] = row
      /\ \A k \in 1..l : rows'[k] = rows[k]
  BY <1>1, <1>2, <1>3, <1>4
<1>6. \A k \in 1..(l + 1) : k \in 1..l \/ k = l + 1
  BY <1>1
<1> QED
  BY <1>1, <1>2, <1>3, <1>5, <1>6 DEF more

(* The invariant holds before the first frame. *)
LEMMA ViewInit == Init => ViewInv
<1> SUFFICES ASSUME Init PROVE ViewInv
  OBVIOUS
<1>1. /\ cmd \in Command /\ loading = "a" /\ model = [r \in Run |-> NewModel]
      /\ rows = <<>> /\ frames = [r \in Run |-> NoFrames]
  BY DEF Init
<1>2. model \in [Run -> ModelType] /\ frames \in [Run -> FramesType]
  BY <1>1, NewModelTyped
<1>3. /\ frames["b"] = NoFrames /\ frames["a"] = NoFrames /\ model["a"] = NewModel
      /\ NoFrames.snapshot = <<>>
  BY <1>1 DEF Run, NoFrames
<1>4. \A r \in Run : IsModelOf(model[r], frames[r].snapshot)
  BY <1>1, <1>3, NewModelEmpty
<1>5. IsReplayOf(model["a"], frames["a"])
  BY <1>3, NewModelEmpty
<1>6. Exported(frames["a"].snapshot)
  BY <1>1, <1>3 DEF Exported
<1> QED
  BY <1>1, <1>2, <1>3, <1>4, <1>5, <1>6 DEF ViewInv, Compared

(* A snapshot read keeps the invariant: the case it was made for. *)
LEMMA ViewSnapshot ==
  ASSUME ViewInv, NEW s \in Snapshot, NEW resync \in BOOLEAN, ReadSnapshot(s, resync)
  PROVE  ViewInv'
<1> DEFINE r == loading
           snaps == frames[r].snapshot
           m == model[r]
<1>1. /\ r \in Run /\ cmd' = cmd /\ loading' = loading /\ Note("snapshot", s)
      /\ loading # "none"
  BY DEF ViewInv, ReadSnapshot, Reading, Run
<1>2. /\ model \in [Run -> ModelType] /\ frames \in [Run -> FramesType]
      /\ m \in ModelType /\ snaps \in Seq(Snapshot)
  BY <1>1 DEF ViewInv, FramesType
<1>3. Append(snaps, s) \in Seq(Snapshot)
  BY <1>2
<1>4. /\ frames' \in [Run -> FramesType]
      /\ \A q \in Run \ {r} : frames'[q] = frames[q]
      /\ frames'[r].snapshot = Append(snaps, s)
      /\ frames'[r].mark = frames[r].mark
  BY <1>1, <1>3, Noted
<1>5. loading = "a" => frames'["b"] = NoFrames
  BY <1>1, <1>4 DEF ViewInv, Run
<1>6. CASE cmd = "export"
  <2>1. rows' = Append(rows, Row(s)) /\ model' = model
    BY <1>6 DEF ReadSnapshot
  <2>2. r = "a"
    BY <1>1, <1>6 DEF ViewInv, Run
  <2>3. Exported(snaps)
    BY <1>6, <2>2 DEF ViewInv
  <2>4. Exported(frames["a"].snapshot)'
    <3>1. /\ rows' \in Seq(RowType) /\ Len(rows') = Len(Append(snaps, s))
          /\ \A k \in DOMAIN Append(snaps, s) :
              /\ rows'[k].current_used = Append(snaps, s)[k].current_used
              /\ rows'[k].peak_used = Append(snaps, s)[k].peak_used
              /\ rows'[k].records = Append(snaps, s)[k].records
      BY <1>2, <2>1, <2>3, RowWritten
    <3>2. frames'["a"].snapshot = Append(snaps, s)
      BY <1>4, <2>2
    <3> QED
      BY <3>1, <3>2 DEF Exported
  <2> QED
    BY <1>1, <1>2, <1>4, <1>5, <1>6, <2>1, <2>4 DEF ViewInv, Compared
<1>7. CASE cmd # "export"
  <2> DEFINE n == Checked(Resynced(m, resync), s)
             p == PushSnapshot(n, s)
  <2>1. model' = [model EXCEPT ![r] = p]
    BY <1>7 DEF ReadSnapshot
  <2>2. /\ n \in ModelType
        /\ \A f \in DOMAIN m \ {"resync_count", "crc_fail_count"} : n[f] = m[f]
        /\ n.crc_fail_count = IF cmd = "replay" /\ ~s.crc_ok
                              THEN Inc(m.crc_fail_count) ELSE m.crc_fail_count
    BY <1>2, CountersOnly
  <2>3. /\ n.hotspots = m.hotspots /\ n.timeline = m.timeline
        /\ n.peak_used_ever = m.peak_used_ever /\ n.total_frames = m.total_frames
        /\ n.last_snapshot = m.last_snapshot /\ n.marks = m.marks
    BY <1>2, <2>2 DEF ModelType
  <2> HIDE DEF n
  <2>4. /\ p \in ModelType /\ p.marks = n.marks /\ p.crc_fail_count = n.crc_fail_count
        /\ IsModelOf(n, snaps) => IsModelOf(p, Append(snaps, s))
    BY <1>2, <2>2, SnapshotPushed
  <2> HIDE DEF p
  <2>5. \A q \in Run : IsModelOf(model[q], frames[q].snapshot)
    BY <1>7 DEF ViewInv
  <2>6. IsModelOf(n, snaps)
    BY <1>1, <2>3, <2>5 DEF IsModelOf
  <2>7. /\ model' \in [Run -> ModelType] /\ model'[r] = p
        /\ \A q \in Run \ {r} : model'[q] = model[q]
    BY <1>1, <1>2, <2>1, <2>4
  <2>8. \A q \in Run : IsModelOf(model'[q], frames'[q].snapshot)
    BY <1>4, <2>4, <2>5, <2>6, <2>7
  <2>9. ASSUME cmd = "replay"
        PROVE  IsReplayOf(model'["a"], frames'["a"])
    <3>1. r = "a" /\ IsReplayOf(m, frames[r])
      BY <1>1, <2>9 DEF ViewInv, Run
    <3>2. /\ frames'[r].snapshot = Append(frames[r].snapshot, s)
          /\ frames'[r].mark = frames[r].mark /\ frames[r] \in FramesType
          /\ p.marks = m.marks
          /\ p.crc_fail_count = IF ~s.crc_ok THEN Inc(m.crc_fail_count) ELSE m.crc_fail_count
      BY <1>1, <1>2, <1>4, <2>2, <2>3, <2>4, <2>9
    <3>3. IsReplayOf(p, frames'[r])
      BY <3>1, <3>2, ReplayPushed
    <3> QED
      BY <2>7, <3>1, <3>3
  <2> QED
    BY <1>1, <1>4, <1>5, <1>7, <2>7, <2>8, <2>9 DEF ViewInv, Compared
<1> QED
  BY <1>6, <1>7

(* A mark or telemetry read keeps it. *)
LEMMA ViewText ==
  ASSUME ViewInv, NEW type \in {"mark", "telemetry"}, NEW text \in Text,
         NEW resync \in BOOLEAN, ReadText(type, text, resync)
  PROVE  ViewInv'
<1> DEFINE r == loading
           f == frames[r]
           m == Resynced(model[r], resync)
           p == CASE type = "mark" -> PushMark(m, text)
                  [] type = "telemetry" -> PushTelemetry(m, text)
<1>1. /\ r = "a" /\ cmd = "replay" /\ cmd' = cmd /\ loading' = loading
      /\ Note(type, text) /\ r \in Run /\ rows' = rows
      /\ model' = [model EXCEPT ![r] = p]
  BY DEF ViewInv, ReadText, Reading, Run
<1>2. /\ model \in [Run -> ModelType] /\ frames \in [Run -> FramesType]
      /\ model[r] \in ModelType /\ f \in FramesType
  BY <1>1 DEF ViewInv
<1>3. /\ frames' \in [Run -> FramesType]
      /\ \A q \in Run \ {r} : frames'[q] = frames[q]
      /\ frames'[r].snapshot = f.snapshot
      /\ frames'[r].mark = IF type = "mark" THEN Append(f.mark, text) ELSE f.mark
  BY <1>1, NotedText
<1>4. /\ m \in ModelType /\ m.crc_fail_count = model[r].crc_fail_count
      /\ m.hotspots = model[r].hotspots /\ m.timeline = model[r].timeline
      /\ m.peak_used_ever = model[r].peak_used_ever
      /\ m.total_frames = model[r].total_frames
      /\ m.last_snapshot = model[r].last_snapshot /\ m.marks = model[r].marks
  <2>1. Inc(model[r].resync_count) \in Word
    BY <1>2, WordTyped DEF ModelType
  <2> QED
    BY <1>2, <2>1 DEF ModelType, Resynced
<1> HIDE DEF m
<1>5. /\ p \in ModelType /\ p.crc_fail_count = m.crc_fail_count
      /\ p.hotspots = m.hotspots /\ p.timeline = m.timeline
      /\ p.peak_used_ever = m.peak_used_ever /\ p.total_frames = m.total_frames
      /\ p.last_snapshot = m.last_snapshot
      /\ p.marks = IF type = "mark" /\ ~(Len(m.marks) >= MaxMarks)
                   THEN Append(m.marks, text) ELSE m.marks
  <2>1. Append(m.marks, text) \in Seq(Text) /\ Append(m.telemetry, text) \in Seq(Text)
    BY <1>4 DEF ModelType
  <2>2. CASE type = "mark"
    BY <1>4, <2>1, <2>2 DEF ModelType, PushMark
  <2>3. CASE type = "telemetry"
    BY <1>4, <2>1, <2>3 DEF ModelType, PushTelemetry
  <2> QED
    BY <2>2, <2>3
<1> HIDE DEF p
<1>6. /\ model' \in [Run -> ModelType] /\ model'[r] = p
      /\ \A q \in Run \ {r} : model'[q] = model[q]
  BY <1>1, <1>2, <1>5
<1>7. \A q \in Run : IsModelOf(model[q], frames[q].snapshot)
  BY <1>1 DEF ViewInv
<1>8. \A q \in Run : IsModelOf(model'[q], frames'[q].snapshot)
  <2>1. IsModelOf(p, f.snapshot)
    BY <1>1, <1>4, <1>5, <1>7 DEF IsModelOf
  <2> QED
    BY <1>3, <1>6, <1>7, <2>1
<1>9. IsReplayOf(p, frames'[r])
  <2>1. IsReplayOf(model[r], f)
    BY <1>1 DEF ViewInv
  <2>2. p.crc_fail_count = Trunc(Cardinality(Wrong(frames'[r].snapshot)))
    BY <1>3, <1>4, <1>5, <2>1 DEF IsReplayOf
  <2>3. f.mark \in Seq(Text)
    BY <1>2 DEF FramesType
  <2>4. m.marks = SubSeq(f.mark, 1, Min({Len(f.mark), MaxMarks}))
    BY <1>4, <2>1 DEF IsReplayOf
  <2>5. p.marks = SubSeq(frames'[r].mark, 1, Min({Len(frames'[r].mark), MaxMarks}))
    <3>1. CASE type = "mark"
      BY <1>3, <1>5, <2>3, <2>4, <3>1, MarkPushed
    <3>2. CASE type # "mark"
      BY <1>3, <1>5, <2>4, <3>2
    <3> QED
      BY <3>1, <3>2
  <2> QED
    BY <2>2, <2>5 DEF IsReplayOf
<1>10. frames'["b"] = NoFrames
  BY <1>1, <1>3 DEF ViewInv, Run
<1> QED
  BY <1>1, <1>3, <1>6, <1>8, <1>9, <1>10 DEF ViewInv, Compared

(* A frame of any other type keeps it. *)
LEMMA ViewOther ==
  ASSUME ViewInv, ReadOther
  PROVE  ViewInv'
<1> DEFINE r == loading
           m == Resynced(model[r], TRUE)
<1>1. /\ r = "a" /\ cmd = "replay" /\ cmd' = cmd /\ loading' = loading
      /\ Note("other", "other") /\ r \in Run /\ rows' = rows
      /\ model' = [model EXCEPT ![r] = m]
  BY DEF ViewInv, ReadOther, Reading, Run
<1>2. /\ model \in [Run -> ModelType] /\ frames \in [Run -> FramesType]
      /\ model[r] \in ModelType
  BY <1>1 DEF ViewInv
<1>3. /\ frames' \in [Run -> FramesType]
      /\ \A q \in Run \ {r} : frames'[q] = frames[q]
      /\ frames'[r].snapshot = frames[r].snapshot
      /\ frames'[r].mark = frames[r].mark
  BY <1>1, NotedOther
<1>4. /\ m \in ModelType /\ m.crc_fail_count = model[r].crc_fail_count
      /\ m.hotspots = model[r].hotspots /\ m.timeline = model[r].timeline
      /\ m.peak_used_ever = model[r].peak_used_ever
      /\ m.total_frames = model[r].total_frames
      /\ m.last_snapshot = model[r].last_snapshot /\ m.marks = model[r].marks
  <2>1. Inc(model[r].resync_count) \in Word
    BY <1>2, WordTyped DEF ModelType
  <2> QED
    BY <1>2, <2>1 DEF ModelType, Resynced
<1> HIDE DEF m
<1>5. /\ model' \in [Run -> ModelType] /\ model'[r] = m
      /\ \A q \in Run \ {r} : model'[q] = model[q]
  BY <1>1, <1>2, <1>4
<1>6. \A q \in Run : IsModelOf(model'[q], frames'[q].snapshot)
  <2>1. \A q \in Run : IsModelOf(model[q], frames[q].snapshot)
    BY <1>1 DEF ViewInv
  <2>2. IsModelOf(m, frames[r].snapshot)
    BY <1>1, <1>4, <2>1 DEF IsModelOf
  <2> QED
    BY <1>3, <1>5, <2>1, <2>2
<1>7. IsReplayOf(m, frames'[r])
  <2>1. IsReplayOf(model[r], frames[r])
    BY <1>1 DEF ViewInv
  <2> QED
    BY <1>3, <1>4, <2>1 DEF IsReplayOf
<1>8. frames'["b"] = NoFrames
  BY <1>1, <1>3 DEF ViewInv, Run
<1> QED
  BY <1>1, <1>3, <1>5, <1>6, <1>7, <1>8 DEF ViewInv, Compared

(* The end of a file keeps it: diff goes on to run b, whose model is new. *)
LEMMA ViewEnd ==
  ASSUME ViewInv, ReadEnd
  PROVE  ViewInv'
<1>1. /\ cmd' = cmd /\ rows' = rows /\ frames' = frames /\ loading \in Run
  BY DEF ViewInv, ReadEnd, Run
<1>2. CASE cmd = "diff" /\ loading = "a"
  <2>1. /\ loading' = "b" /\ model' = [model EXCEPT !.b = NewModel]
    BY <1>2 DEF ReadEnd, SecondModel
  <2>2. model \in [Run -> ModelType] /\ frames["b"] = NoFrames
    BY <1>2 DEF ViewInv
  <2>3. /\ model' \in [Run -> ModelType] /\ model'["b"] = NewModel
        /\ model'["a"] = model["a"]
    BY <2>1, <2>2, NewModelTyped DEF Run
  <2>4. IsModelOf(NewModel, NoFrames.snapshot)
    BY NewModelEmpty DEF NoFrames
  <2>5. \A q \in Run : IsModelOf(model'[q], frames[q].snapshot)
    BY <1>2, <2>2, <2>3, <2>4 DEF ViewInv, Run
  <2> QED
    BY <1>1, <1>2, <2>1, <2>3, <2>5 DEF ViewInv, Compared
<1>3. CASE ~(cmd = "diff" /\ loading = "a")
  <2>1. /\ loading' = "none" /\ model' = model
        /\ diff' = IF cmd = "diff" THEN DiffOf(model.a, model.b) ELSE NoDiff
        /\ top' = IF cmd = "diff" THEN [r \in Run |-> TopHotspots(model[r], TopN)] ELSE top
    BY <1>3 DEF ReadEnd
  <2>2. Compared' => Results'
    BY <1>1, <2>1 DEF Compared, Results
  <2> QED
    BY <1>1, <2>1, <2>2 DEF ViewInv, Exported
<1> QED
  BY <1>2, <1>3

(* So does a step that changes nothing. *)
LEMMA ViewStutter == ViewInv /\ UNCHANGED viewerVars => ViewInv'
BY DEF ViewInv, viewerVars, Exported, Results, Compared

(* And so every step of the loop. *)
LEMMA ViewNext == ViewInv /\ [Next]_viewerVars => ViewInv'
BY ViewSnapshot, ViewText, ViewOther, ViewEnd, ViewStutter DEF Next

(* The inductive invariant                                                  *)
LEMMA ViewInvariant == Spec => []ViewInv
BY ViewInit, ViewNext, PTL DEF Spec

(* The terminal only reads the model: a run of the program with the terminal *)
(* is, as far as the loop that reads is concerned, a run of that loop.       *)
THEOREM TerminalOnlyReads == TuiSpec => Spec
<1>1. TuiInit => Init
  BY DEF TuiInit
<1>2. [TuiNext]_tuiVars => [Next]_viewerVars
  BY DEF TuiNext, TextOnly, TuiStart, KeyScreen, KeyH, KeyOther, Key, KeyQ, tuiVars
<1> QED
  BY <1>1, <1>2, PTL DEF TuiSpec, Spec

-----------------------------------------------------------------------------
(* The hotspots of a model count the records of the run. *)

SumIs(f, S) == SumFunctionOnSet(f, S) = Total(f, S)

(* The fold that the properties sum with is the total of the lemmas. *)
LEMMA SumTotal == \A f, S : SumIs(f, S)
BY DEF SumIs, SumFunctionOnSet, FoldFunctionOnSet, MapThenFoldSet, Pick, SumIter, Total

SiteOf(x) == [file_id |-> x.file_id, line |-> x.line]

SitesIn(f) == {SiteOf(f[p]) : p \in DOMAIN f}

(* Two records are of one site when file id and line are equal. *)
LEMMA SameSiteOf == \A x, y : SameSite(x, y) <=> SiteOf(x) = SiteOf(y)
BY DEF SameSite, SiteOf

(* Hotspots of a list have as many sites as there are hotspots. *)
LEMMA AsManySites ==
  ASSUME NEW f, NEW hs, Tally(hs, f), NEW S \in SUBSET (DOMAIN hs),
         NEW T, T = {SiteOf(hs[k]) : k \in S}
  PROVE  Cardinality(T) = Cardinality(S)
<1> DEFINE g == [k \in S |-> SiteOf(hs[k])]
<1>1. IsFiniteSet(S)
  <2>1. DOMAIN hs = 1..Len(hs) /\ Len(hs) \in Nat
    BY DEF Tally
  <2>2. 1 \in Int /\ Len(hs) \in Int
    BY <2>1
  <2>3. IsFiniteSet(1..Len(hs))
    BY <2>2, FS_Interval
  <2> QED
    BY <2>1, <2>3, FS_Subset
<1>2. \A j, k \in S : SiteOf(hs[j]) = SiteOf(hs[k]) => j = k
  BY SameSiteOf DEF Tally
<1>3. g \in [S -> T] /\ \A k \in S : g[k] = SiteOf(hs[k])
  OBVIOUS
<1>4. \A t \in T : \E k \in S : g[k] = t
  OBVIOUS
<1>5. \A j, k \in S : g[j] = g[k] => j = k
  BY <1>2, <1>3
<1> HIDE DEF g
<1>6. g \in Bijection(S, T)
  BY <1>3, <1>4, <1>5 DEF Bijection, Injection, Surjection, IsInjective
<1>7. ExistsBijection(S, T)
  BY <1>6 DEF ExistsBijection
<1> QED
  BY <1>1, <1>7, FS_Bijection

(* The sites of the hotspots are those of the records. *)
LEMMA SitesTallied ==
  ASSUME NEW f, NEW hs, Tally(hs, f)
  PROVE  /\ SitesIn(f) = {SiteOf(hs[k]) : k \in DOMAIN hs}
         /\ Len(hs) = Cardinality(SitesIn(f))
<1>1. ASSUME NEW k \in DOMAIN hs
      PROVE  SiteOf(hs[k]) \in SitesIn(f)
  <2>1. PICK p \in DOMAIN f : SameSite(hs[k], f[p])
    BY DEF Tally, Counts, Of
  <2> QED
    BY <2>1, SameSiteOf DEF SitesIn
<1>2. ASSUME NEW p \in DOMAIN f
      PROVE  \E k \in DOMAIN hs : SiteOf(hs[k]) = SiteOf(f[p])
  BY SameSiteOf DEF Tally
<1>3. SitesIn(f) = {SiteOf(hs[k]) : k \in DOMAIN hs}
  BY <1>1, <1>2 DEF SitesIn
<1>4. Cardinality(SitesIn(f)) = Cardinality(DOMAIN hs)
  <2>1. DOMAIN hs \in SUBSET (DOMAIN hs)
    OBVIOUS
  <2> QED
    BY <1>3, <2>1, AsManySites
<1>5. Cardinality(DOMAIN hs) = Len(hs)
  <2>1. DOMAIN hs = 1..Len(hs) /\ Len(hs) \in Nat
    BY DEF Tally
  <2>2. 1 \in Int /\ Len(hs) \in Int
    BY <2>1
  <2>3. Cardinality(1..Len(hs)) = IF 1 > Len(hs) THEN 0 ELSE Len(hs) - 1 + 1
    BY <2>2, FS_Interval
  <2>4. Cardinality(1..Len(hs)) = Len(hs)
    BY <2>1, <2>3
  <2> QED
    BY <2>1, <2>4
<1> QED
  BY <1>3, <1>4, <1>5

(* The properties' names for the records of a run *)
LEMMA RunRecords ==
  ASSUME NEW r
  PROVE  LET f == RecordsIn(Snapshots(r))
         IN  /\ DOMAIN f = Positions(r) /\ Sizes(r) = SizesIn(f)
             /\ \A p \in Positions(r) : RecordAt(r, p) = f[p]
             /\ SitesOf(r) = SitesIn(f)
             /\ \A x : RecordsAt(r, x) = Of(f, x)
<1> DEFINE f == RecordsIn(Snapshots(r))
<1>1. DOMAIN f = Positions(r) /\ \A p \in Positions(r) : RecordAt(r, p) = f[p]
  BY DEF RecordsIn, PositionsIn, Positions, RecordAt
<1> HIDE DEF f
<1>2. Sizes(r) = SizesIn(f)
  BY <1>1 DEF Sizes, SizesIn
<1>3. SitesOf(r) = SitesIn(f)
  BY <1>1 DEF SitesOf, SitesIn, SiteOf
<1>4. ASSUME NEW x
      PROVE  RecordsAt(r, x) = Of(f, x)
  BY <1>1 DEF RecordsAt, Of, SameSite
<1> QED
  BY <1>1, <1>2, <1>3, <1>4 DEF f

(* The hotspots of a run are a tally of the records of its snapshots. *)
LEMMA ViewTally ==
  ASSUME ViewInv, cmd # "export", NEW r \in Run
  PROVE  Tally(model[r].hotspots, RecordsIn(Snapshots(r)))
BY DEF ViewInv, IsModelOf, Snapshots

(* In a tally each site has a hotspot with the count and the bytes of its    *)
(* records, modulo 2^32.                                                     *)
LEMMA TallyCounts ==
  ASSUME NEW f, NEW hs, Tally(hs, f), NEW x \in SitesIn(f)
  PROVE  \E k \in DOMAIN hs :
           /\ hs[k].file_id = x.file_id /\ hs[k].line = x.line
           /\ hs[k].total_allocs = Trunc(Cardinality(Of(f, x)))
           /\ hs[k].total_bytes = Trunc(Total(SizesIn(f), Of(f, x)))
<1>1. PICK k \in DOMAIN hs : x = SiteOf(hs[k])
  BY SitesTallied
<1>2. /\ x.file_id = hs[k].file_id /\ x.line = hs[k].line
  BY <1>1 DEF SiteOf
<1>3. Of(f, x) = Of(f, hs[k])
  BY <1>2 DEF Of, SameSite
<1>4. Counts(hs[k], f)
  BY DEF Tally
<1> QED
  BY <1>2, <1>3, <1>4 DEF Counts

(* Whatever replay or diff has read, mtv1_model_push_snapshot has kept one   *)
(* hotspot for each call site in the records of the snapshots, with the      *)
(* number of its records and the sum of their sizes, modulo 2^32.            *)
THEOREM HotspotsAreRight == Spec => []HotspotsCountRecords
<1>1. ViewInv => HotspotsCountRecords
  <2> SUFFICES ASSUME ViewInv, cmd # "export", NEW r \in Run
               PROVE  LET hs == model[r].hotspots
                      IN  /\ Len(hs) = Cardinality(SitesOf(r))
                          /\ \A x \in SitesOf(r) : \E k \in DOMAIN hs :
                               /\ hs[k].file_id = x.file_id /\ hs[k].line = x.line
                               /\ hs[k].total_allocs = Trunc(Cardinality(RecordsAt(r, x)))
                               /\ hs[k].total_bytes =
                                    Trunc(SumFunctionOnSet(Sizes(r), RecordsAt(r, x)))
    BY Zenon DEF HotspotsCountRecords
  <2> DEFINE hs == model[r].hotspots
             f == RecordsIn(Snapshots(r))
  <2>1. Tally(hs, f)
    BY ViewTally
  <2>2. /\ Sizes(r) = SizesIn(f) /\ SitesOf(r) = SitesIn(f)
        /\ \A x : RecordsAt(r, x) = Of(f, x)
    BY RunRecords
  <2> HIDE DEF hs, f
  <2>3. Len(hs) = Cardinality(SitesOf(r))
    BY <2>1, <2>2, SitesTallied
  <2>4. ASSUME NEW x \in SitesOf(r)
        PROVE  \E k \in DOMAIN hs :
                 /\ hs[k].file_id = x.file_id /\ hs[k].line = x.line
                 /\ hs[k].total_allocs = Trunc(Cardinality(RecordsAt(r, x)))
                 /\ hs[k].total_bytes = Trunc(SumFunctionOnSet(Sizes(r), RecordsAt(r, x)))
    <3>1. SumFunctionOnSet(Sizes(r), RecordsAt(r, x)) = Total(SizesIn(f), Of(f, x))
      BY <2>2, SumTotal DEF SumIs
    <3> QED
      BY <2>1, <2>2, <3>1, TallyCounts
  <2> QED
    BY <2>3, <2>4 DEF hs
<1> QED
  BY <1>1, ViewInvariant, PTL

-----------------------------------------------------------------------------
(* The comparison of two runs *)

LEMMA MaxIs ==
  ASSUME NEW S \in SUBSET Int, NEW x \in S, \A y \in S : x >= y
  PROVE  Max(S) = x
<1>1. /\ Max(S) \in S /\ \A y \in S : Max(S) >= y
  BY DEF Max
<1>2. Max(S) >= x /\ x >= Max(S) /\ Max(S) \in Int /\ x \in Int
  BY <1>1
<1> QED
  BY <1>2

(* What a model says of the snapshots of its run *)
LEMMA ViewRun ==
  ASSUME ViewInv, cmd # "export", NEW r \in Run
  PROVE  LET m == model[r]
             snaps == Snapshots(r)
         IN  /\ m \in ModelType /\ snaps \in Seq(Snapshot)
             /\ Len(m.timeline) = Len(snaps) /\ Len(snaps) \in Nat
             /\ \A i \in 1..Len(snaps) :
                  /\ m.timeline[i].current_used = snaps[i].current_used
                  /\ snaps[i].current_used \in Word
             /\ m.peak_used_ever = PeakOf(r) /\ PeakOf(r) \in Word
<1> DEFINE m == model[r]
           snaps == Snapshots(r)
           S == {0} \cup {s.peak_used : s \in ToSet(snaps)}
<1>1. /\ m \in ModelType /\ snaps \in Seq(Snapshot) /\ IsModelOf(m, snaps)
  BY DEF ViewInv, Snapshots, FramesType
<1>2. /\ DOMAIN snaps = 1..Len(snaps) /\ Len(snaps) \in Nat
      /\ \A i \in 1..Len(snaps) : snaps[i] \in Snapshot
  BY <1>1
<1>3. \A i \in 1..Len(snaps) : snaps[i].current_used \in Word /\ snaps[i].peak_used \in Word
  BY <1>2, SnapshotsTyped
<1>4. Len(m.timeline) = Len(snaps)
  BY <1>1 DEF IsModelOf
<1>5. \A i \in 1..Len(snaps) : m.timeline[i].current_used = snaps[i].current_used
  BY <1>1, <1>2 DEF IsModelOf
<1>6. m.peak_used_ever = PeakOf(r)
  <2>1. S \in SUBSET Int
    BY <1>2, <1>3, WordTyped DEF ToSet
  <2>2. m.peak_used_ever \in S /\ \A y \in S : m.peak_used_ever >= y
    <3>1. IsPeak(m.peak_used_ever, snaps)
      BY <1>1 DEF IsModelOf
    <3>2. m.peak_used_ever >= 0
      <4>1. m.peak_used_ever \in Word
        BY <1>1 DEF ModelType
      <4>2. \A w \in Word : w >= 0
        BY DEF Word
      <4> QED
        BY <4>1, <4>2
    <3> QED
      BY <3>1, <3>2 DEF IsPeak
  <2> HIDE DEF S
  <2>3. Max(S) = m.peak_used_ever
    BY <2>1, <2>2, MaxIs
  <2> QED
    BY <2>3 DEF S, PeakOf
<1>7. m.peak_used_ever \in Word
  BY <1>1 DEF ModelType
<1> QED
  BY <1>1, <1>2, <1>3, <1>4, <1>5, <1>6, <1>7

(* The hotspots that only one run has are the sites that only one has. *)
LEMMA OnlySites ==
  ASSUME NEW f, NEW g, NEW a, NEW b, Tally(a.hotspots, f), Tally(b.hotspots, g)
  PROVE  OnlyIn(a, b) = Cardinality(SitesIn(f) \ SitesIn(g))
<1> DEFINE S == {i \in DOMAIN a.hotspots :
                   \A j \in DOMAIN b.hotspots : ~SameSite(b.hotspots[j], a.hotspots[i])}
<1>1. S \in SUBSET DOMAIN a.hotspots
  OBVIOUS
<1>2. /\ SitesIn(f) = {SiteOf(a.hotspots[k]) : k \in DOMAIN a.hotspots}
      /\ SitesIn(g) = {SiteOf(b.hotspots[k]) : k \in DOMAIN b.hotspots}
  BY SitesTallied
<1>3. \A i \in DOMAIN a.hotspots :
        i \in S <=> SiteOf(a.hotspots[i]) \notin SitesIn(g)
  BY <1>2, SameSiteOf
<1>4. SitesIn(f) \ SitesIn(g) = {SiteOf(a.hotspots[k]) : k \in S}
  BY <1>1, <1>2, <1>3
<1>5. Cardinality(SitesIn(f) \ SitesIn(g)) = Cardinality(S)
  <2> HIDE DEF S
  <2> QED
    BY <1>1, <1>4, AsManySites
<1> QED
  BY <1>5 DEF OnlyIn

(* A difference is above the quotient exactly if it is above the fraction.   *)
LEMMA AboveQuotient ==
  ASSUME NEW n \in Nat \ {0}, NEW d \in Int, NEW p \in Int
  PROVE  d > p \div n <=> n * d > p
<1> DEFINE q == p \div n
           r == p % n
<1>1. p = n * q + r /\ q \in Int /\ r \in 0..(n - 1)
  BY DivMod
<1>2. r \in Int /\ 0 <= r /\ r < n
  BY <1>1
<1> HIDE DEF q, r
<1>3. CASE d > q
  <2> DEFINE e == d - q - 1
  <2>1. e \in Nat /\ d = q + 1 + e
    BY <1>1, <1>3
  <2> HIDE DEF e
  <2>2. n * d = n * q + n + n * e
    BY <1>1, <2>1
  <2>3. n * e \in Nat /\ n * q \in Int
    BY <1>1, <2>1
  <2>4. n * d > p
    <3> DEFINE x == n * e
               y == n * q
               z == n * d
    <3>1. x \in Nat /\ y \in Int /\ z = y + n + x /\ p = y + r
      BY <1>1, <2>2, <2>3
    <3> HIDE DEF x, y, z
    <3>2. z > p
      BY <1>2, <3>1
    <3> QED
      BY <3>2 DEF z
  <2> QED
    BY <1>3, <2>4 DEF q
<1>4. CASE ~(d > q)
  <2> DEFINE e == q - d
  <2>1. e \in Nat /\ q = d + e
    BY <1>1, <1>4
  <2> HIDE DEF e
  <2>2. n * q = n * d + n * e
    BY <1>1, <2>1
  <2>3. n * e \in Nat /\ n * d \in Int
    BY <2>1
  <2>4. ~(n * d > p)
    <3> DEFINE x == n * e
               y == n * q
               z == n * d
    <3>1. x \in Nat /\ z \in Int /\ y = z + x /\ p = y + r
      BY <1>1, <2>2, <2>3
    <3> HIDE DEF x, y, z
    <3>2. ~(z > p)
      BY <1>2, <3>1
    <3> QED
      BY <3>2 DEF z
  <2> QED
    BY <1>4, <2>4 DEF q
<1> QED
  BY <1>3, <1>4

(* Spikes are counted as they are in the snapshots read. *)
LEMMA SpikesTrue ==
  ASSUME ViewInv, cmd # "export", NEW r \in Run
  PROVE  Spikes(model[r]) = Cardinality(TrueSpikes(r))
<1> DEFINE m == model[r]
           snaps == Snapshots(r)
           A == {i \in 2..Len(m.timeline) :
                   /\ m.timeline[i].current_used > m.timeline[i - 1].current_used
                   /\ m.timeline[i].current_used - m.timeline[i - 1].current_used >
                        m.peak_used_ever \div 10}
<1>1. /\ Len(m.timeline) = Len(snaps) /\ Len(snaps) \in Nat
      /\ \A i \in 1..Len(snaps) :
           /\ m.timeline[i].current_used = snaps[i].current_used
           /\ snaps[i].current_used \in Word
      /\ m.peak_used_ever = PeakOf(r) /\ PeakOf(r) \in Word
  BY ViewRun
<1> HIDE DEF m
<1>2. ASSUME NEW i \in 2..Len(snaps)
      PROVE  /\ m.timeline[i].current_used > m.timeline[i - 1].current_used
                  <=> Growth(r, i) > 0
             /\ m.timeline[i].current_used - m.timeline[i - 1].current_used >
                  m.peak_used_ever \div 10 <=> 10 * Growth(r, i) > PeakOf(r)
  <2>1. i \in 1..Len(snaps) /\ i - 1 \in 1..Len(snaps)
    BY <1>1
  <2> DEFINE x == snaps[i].current_used
             y == snaps[i - 1].current_used
             p == PeakOf(r)
  <2>2. /\ m.timeline[i].current_used = x /\ m.timeline[i - 1].current_used = y
        /\ x \in Int /\ y \in Int /\ p \in Int /\ m.peak_used_ever = p
    BY <1>1, <2>1, WordTyped
  <2>3. Growth(r, i) = x - y
    BY DEF Growth
  <2> HIDE DEF x, y, p
  <2>4. x > y <=> x - y > 0
    BY <2>2
  <2>5. x - y > p \div 10 <=> 10 * (x - y) > p
    <3>1. 10 \in Nat \ {0} /\ x - y \in Int
      BY <2>2
    <3> QED
      BY <2>2, <3>1, AboveQuotient
  <2>6. PeakOf(r) = p
    BY DEF p
  <2> QED
    BY <2>2, <2>3, <2>4, <2>5, <2>6
<1>3. A = TrueSpikes(r)
  BY <1>1, <1>2 DEF TrueSpikes
<1>4. Spikes(m) = Cardinality(A)
  BY DEF Spikes
<1> QED
  BY <1>3, <1>4 DEF m

(* Peaks that an int32_t holds are subtracted as they are. *)
LEMMA PeaksSubtract ==
  ASSUME NEW x \in Word, NEW y \in Word, x <= U32Max \div 2, y <= U32Max \div 2
  PROVE  SignedDiff(x, y) = x - y
<1> DEFINE h == U32Max \div 2
           n == U32Max + 1
           d == x - y
<1>1. U32Max \in Nat /\ n \in Nat \ {0} /\ n = U32Max + 1
  BY U32Assumption
<1>2. h \in Int /\ 2 * h <= U32Max /\ U32Max <= 2 * h + 1
  BY <1>1
<1>3. x \in Int /\ y \in Int /\ 0 <= x /\ 0 <= y
  BY <1>1 DEF Word
<1>4. Signed(x) = x /\ Signed(y) = y
  BY <1>2, <1>3 DEF Signed
<1> HIDE DEF h, n
<1>5. CASE d >= 0
  <2>1. d \in Word /\ ~(d > h) /\ d \in Int
    BY <1>1, <1>2, <1>3, <1>5 DEF Word, h
  <2>2. Trunc(d) = d
    BY <2>1, TruncAdds
  <2>3. Signed(Trunc(d)) = d
    BY <2>1, <2>2 DEF Signed, h
  <2> QED
    BY <1>4, <2>3 DEF SignedDiff
<1>6. CASE d < 0
  <2>1. d \in Int /\ -1 \in Int /\ d + n \in 0..(n - 1) /\ d + n > h
    BY <1>1, <1>2, <1>3, <1>6 DEF h
  <2>2. d = n * (-1) + (d + n)
    BY <1>1, <2>1
  <2>3. d % n = d + n
    <3> DEFINE k == -1
               r == d + n
    <3>1. d = n * k + r /\ k \in Int /\ r \in 0..(n - 1) /\ d \in Int
      BY <2>1, <2>2
    <3> HIDE DEF k, r, d
    <3>2. d % n = r
      BY <1>1, <3>1, Quotient
    <3> QED
      BY <3>2 DEF r
  <2>4. Trunc(d) = d + n
    BY <2>3 DEF Trunc, n
  <2>5. Signed(d + n) = d
    <3>1. Signed(d + n) = IF d + n > h THEN (d + n) - n ELSE d + n
      BY DEF Signed, h, n
    <3> QED
      BY <1>1, <2>1, <3>1
  <2> QED
    BY <1>4, <2>4, <2>5 DEF SignedDiff
<1> QED
  BY <1>3, <1>5, <1>6

-----------------------------------------------------------------------------
(* The list of top hotspots *)

(* What a fold of a sequence of n elements is defined by, h[s] being its     *)
(* value after the elements at the positions s                               *)
IsTrace(h, n, A, b, F) ==
  /\ h[{}] = b
  /\ \A s \in SUBSET (1..n) :
       s # {} /\ h[s \ {Max(s)}] \in A => h[s] = F[<<h[s \ {Max(s)}], Max(s)>>]

Steps(n, A, F) == F \in [A \X (1..n) -> A]

(* It goes through a chain of values. *)
HasChain(h, n, A, b, F) ==
  \E tr \in [0..n -> A] : IsChain(tr, n, b, F) /\ tr[n] = h[1..n]

(* A fold whose steps stay in a set A goes from its first value to its last   *)
(* through a chain of values in A, one for each element.                     *)
LEMMA FoldTrace ==
  ASSUME NEW n \in Nat, NEW A, NEW b \in A, NEW F, Steps(n, A, F),
         NEW h, IsTrace(h, n, A, b, F)
  PROVE  HasChain(h, n, A, b, F)
<1>0. F \in [A \X (1..n) -> A]
  BY DEF Steps
<1>1. h[1..0] = b
  <2>1. 1..0 = {}
    OBVIOUS
  <2> QED
    BY <2>1 DEF IsTrace
<1>2. ASSUME NEW i \in 1..n, h[1..(i - 1)] \in A
      PROVE  h[1..i] = F[<<h[1..(i - 1)], i>>] /\ h[1..i] \in A
  <2>1. 1..i \in SUBSET (1..n) /\ 1..i # {} /\ i \in Nat \ {0}
    BY Prefix
  <2>2. Max(1..i) = i /\ (1..i) \ {Max(1..i)} = 1..(i - 1)
    BY <2>1, MaxUpTo
  <2>3. h[1..i] = F[<<h[1..(i - 1)], i>>]
    BY <1>2, <2>1, <2>2 DEF IsTrace
  <2>4. <<h[1..(i - 1)], i>> \in A \X (1..n)
    BY <1>2
  <2> QED
    BY <1>0, <2>3, <2>4
<1> DEFINE G == {i \in Nat : h[1..i] \in A}
           tr == [i \in 0..n |-> h[1..i]]
<1>3. \A i \in 0..n : i \in G
  <2>1. 0 \in G
    BY <1>1
  <2>2. ASSUME NEW i \in 1..n, i - 1 \in G
        PROVE  i \in G
    <3>1. h[1..(i - 1)] \in A /\ i \in Nat
      BY <2>2
    <3> QED
      BY <1>2, <3>1
  <2> HIDE DEF G
  <2> QED
    BY <2>1, <2>2, UpTo
<1>4. tr \in [0..n -> A]
  BY <1>3
<1>5. 0 \in 0..n /\ n \in 0..n /\ \A i \in 1..n : i \in 0..n /\ i - 1 \in 0..n
  OBVIOUS
<1>6. ASSUME NEW i \in 1..n
      PROVE  h[1..i] = F[<<h[1..(i - 1)], i>>]
  BY <1>2, <1>3, <1>5
<1>7. IsChain(tr, n, b, F)
  BY <1>1, <1>5, <1>6 DEF IsChain
<1> QED
  BY <1>4, <1>5, <1>7 DEF HasChain

(* The list is sorted by the number of allocations. *)
Descends(s) ==
  \A i, j \in 1..Len(s) : i < j => s[i].total_allocs >= s[j].total_allocs

(* p is s with h inserted at k. *)
InsertedAt(p, s, k, h) ==
  /\ p \in Seq(HotspotType) /\ Len(p) = Len(s) + 1 /\ p[k] = h
  /\ \A j \in 1..(k - 1) : p[j] = s[j]
  /\ \A j \in k..Len(s) : p[j + 1] = s[j]

(* Two sequences put together, position by position. *)
LEMMA Joined ==
  ASSUME NEW S, NEW s \in Seq(S), NEW t \in Seq(S)
  PROVE  /\ s \o t \in Seq(S) /\ Len(s \o t) = Len(s) + Len(t)
         /\ \A j \in 1..Len(s) : (s \o t)[j] = s[j]
         /\ \A j \in 1..Len(t) : (s \o t)[Len(s) + j] = t[j]
OBVIOUS

(* A hotspot inserted into the list, position by position. *)
LEMMA Inserted ==
  ASSUME NEW s \in Seq(HotspotType), NEW h \in HotspotType, NEW k \in 1..(Len(s) + 1)
  PROVE  InsertedAt(InsertAt(s, k, h), s, k, h)
<1> DEFINE a == SubSeq(s, 1, k - 1)
           c == SubSeq(s, k, Len(s))
           n == Len(s)
           p == InsertAt(s, k, h)
<1>1. n \in Nat /\ k \in Nat /\ 1 <= k /\ k <= n + 1
  OBVIOUS
<1>2. /\ a \in Seq(HotspotType) /\ Len(a) = k - 1
      /\ \A j \in 1..(k - 1) : a[j] = s[j]
  BY <1>1
<1>3. /\ c \in Seq(HotspotType) /\ Len(c) = n - k + 1
      /\ \A j \in 1..(n - k + 1) : c[j] = s[k + j - 1]
  BY <1>1
<1>4. p = a \o <<h>> \o c
  BY DEF InsertAt
<1> HIDE DEF a, c
<1>5. /\ a \o <<h>> \in Seq(HotspotType) /\ Len(a \o <<h>>) = k
      /\ (a \o <<h>>)[k] = h /\ \A j \in 1..(k - 1) : (a \o <<h>>)[j] = s[j]
  BY <1>1, <1>2
<1> DEFINE d == a \o <<h>>
<1> HIDE DEF d, p
<1>6. /\ p \in Seq(HotspotType) /\ Len(p) = n + 1
      /\ \A j \in 1..k : p[j] = d[j]
      /\ \A j \in 1..(n - k + 1) : p[k + j] = c[j]
  <2>1. d \in Seq(HotspotType) /\ Len(d) = k /\ p = d \o c
    BY <1>4, <1>5 DEF d
  <2>2. /\ p \in Seq(HotspotType) /\ Len(p) = k + Len(c)
        /\ \A j \in 1..k : p[j] = d[j]
        /\ \A j \in 1..Len(c) : p[k + j] = c[j]
    <3>1. /\ d \o c \in Seq(HotspotType) /\ Len(d \o c) = Len(d) + Len(c)
          /\ \A j \in 1..Len(d) : (d \o c)[j] = d[j]
          /\ \A j \in 1..Len(c) : (d \o c)[Len(d) + j] = c[j]
      BY <1>3, <2>1, Joined
    <3> QED
      BY <2>1, <3>1
  <2> QED
    BY <1>1, <1>3, <2>2
<1>7. ASSUME NEW j \in k..n
      PROVE  p[j + 1] = s[j]
  <2> DEFINE q == j - k + 1
  <2>1. q \in 1..(n - k + 1) /\ k + q = j + 1 /\ k + q - 1 = j
    BY <1>1
  <2> HIDE DEF q
  <2>2. p[k + q] = c[q] /\ c[q] = s[k + q - 1]
    BY <1>3, <1>6, <2>1
  <2> QED
    BY <2>1, <2>2
<1>8. p[k] = h /\ \A j \in 1..(k - 1) : p[j] = s[j]
  BY <1>1, <1>5, <1>6 DEF d
<1> QED
  BY <1>6, <1>7, <1>8 DEF InsertedAt, p

(* A hotspot goes after those that have no fewer allocations. *)
LEMMA Placed ==
  ASSUME NEW s \in Seq(HotspotType), NEW h \in HotspotType
  PROVE  \E k \in 1..(Len(s) + 1) :
           /\ InsertedAt(Place(s, h), s, k, h)
           /\ Descends(s) =>
                /\ \A j \in 1..(k - 1) : s[j].total_allocs >= h.total_allocs
                /\ \A j \in k..Len(s) : ~(s[j].total_allocs >= h.total_allocs)
<1> DEFINE n == Len(s)
           I == {i \in 1..n : s[i].total_allocs >= h.total_allocs}
           l == IF I # {} THEN Max(I) ELSE 0
           k == l + 1
<1>1. n \in Nat /\ \A j \in 1..n : s[j] \in HotspotType
  OBVIOUS
<1>2. /\ l \in 0..n /\ (l # 0 => l \in I)
      /\ \A j \in I : l >= j
  <2>1. I \in SUBSET (0..n)
    BY <1>1
  <2> HIDE DEF I
  <2>2. I # {} => Max(I) \in I /\ \A j \in I : Max(I) >= j
    BY <1>1, <2>1, MaxIn
  <2>3. CASE I # {}
    <3>1. l = Max(I)
      BY <2>3
    <3> HIDE DEF l
    <3> QED
      BY <2>1, <2>2, <2>3, <3>1
  <2>4. CASE I = {}
    <3>1. l = 0
      BY <2>4
    <3> HIDE DEF l
    <3> QED
      BY <1>1, <2>4, <3>1
  <2> QED
    BY <2>3, <2>4
<1>3. Place(s, h) = InsertAt(s, k, h)
  BY DEF Place, SelectLastInSeq
<1> HIDE DEF l
<1>4. k \in 1..(n + 1)
  BY <1>1, <1>2
<1>5. InsertedAt(Place(s, h), s, k, h)
  <2> HIDE DEF k
  <2> QED
    BY <1>3, <1>4, Inserted
<1>6. \A j \in k..n : ~(s[j].total_allocs >= h.total_allocs)
  BY <1>1, <1>2
<1>7. ASSUME Descends(s), NEW j \in 1..(k - 1)
      PROVE  s[j].total_allocs >= h.total_allocs
  <2>1. l \in 1..n /\ s[l].total_allocs >= h.total_allocs /\ j \in 1..n /\ j <= l
    BY <1>1, <1>2
  <2>2. CASE j = l
    BY <2>1, <2>2
  <2>3. CASE j < l
    <3>1. s[j].total_allocs >= s[l].total_allocs
      BY <1>7, <2>1, <2>3 DEF Descends
    <3>2. /\ s[j].total_allocs \in Word /\ s[l].total_allocs \in Word
          /\ h.total_allocs \in Word
      BY <1>1, <2>1 DEF HotspotType
    <3>3. s[j].total_allocs \in Int /\ s[l].total_allocs \in Int /\ h.total_allocs \in Int
      BY <3>2, WordTyped
    <3> QED
      BY <2>1, <3>1, <3>3
  <2> QED
    BY <1>1, <2>1, <2>2, <2>3
<1> QED
  BY <1>4, <1>5, <1>6, <1>7

(* t is the list of the first i hotspots of hs. *)
SortedFirst(t, hs, i) ==
  /\ t \in Seq(HotspotType) /\ Len(t) = i /\ Descends(t) /\ IsInjective(t)
  /\ \A j \in 1..i : \E q \in 1..i : t[j] = hs[q]

(* One more hotspot, put where its bytes belong, keeps the list sorted and   *)
(* complete.                                                                 *)
LEMMA OneMorePlaced ==
  ASSUME NEW hs \in Seq(HotspotType), NEW i \in 1..Len(hs),
         \A p, q \in 1..Len(hs) : hs[p] = hs[q] => p = q,
         NEW t, SortedFirst(t, hs, i - 1)
  PROVE  SortedFirst(Place(t, hs[i]), hs, i)
<1> DEFINE h == hs[i]
           n == i - 1
           p == Place(t, h)
<1>1. /\ n \in Nat /\ i = n + 1 /\ i \in Nat /\ h \in HotspotType
      /\ t \in Seq(HotspotType) /\ Len(t) = n /\ Descends(t) /\ IsInjective(t)
      /\ DOMAIN t = 1..n
  BY DEF SortedFirst
<1> HIDE DEF n
<1>2. PICK k \in 1..(n + 1) :
        /\ InsertedAt(p, t, k, h)
        /\ \A j \in 1..(k - 1) : t[j].total_allocs >= h.total_allocs
        /\ \A j \in k..n : ~(t[j].total_allocs >= h.total_allocs)
  BY <1>1, Placed
<1> HIDE DEF p
<1>3. /\ p \in Seq(HotspotType) /\ Len(p) = i /\ p[k] = h /\ DOMAIN p = 1..i
      /\ \A j \in 1..(k - 1) : p[j] = t[j]
      /\ \A j \in k..n : p[j + 1] = t[j]
  BY <1>1, <1>2 DEF InsertedAt
<1> DEFINE From(j) == IF j < k THEN j ELSE j - 1
<1>4. ASSUME NEW j \in 1..i, j # k
      PROVE  From(j) \in 1..n /\ p[j] = t[From(j)]
  <2>1. CASE j < k
    BY <1>1, <1>3, <2>1
  <2>2. CASE j > k
    <3>1. j - 1 \in k..n /\ (j - 1) + 1 = j
      BY <1>1, <2>2
    <3>2. p[j] = t[j - 1]
      BY <1>3, <3>1
    <3> QED
      BY <1>1, <2>2, <3>2
  <2> QED
    BY <1>1, <1>4, <2>1, <2>2
<1>5. ASSUME NEW j \in 1..i
      PROVE  \E q \in 1..i : p[j] = hs[q]
  <2>1. CASE j = k
    BY <1>1, <1>3, <2>1
  <2>2. CASE j # k
    <3>1. PICK q \in 1..n : t[From(j)] = hs[q]
      BY <1>4, <2>2 DEF SortedFirst, n
    <3>2. q \in 1..i
      BY <1>1, <3>1
    <3> QED
      BY <1>4, <2>2, <3>1, <3>2
  <2> QED
    BY <2>1, <2>2
<1>6. \A j \in 1..n : t[j] # h
  <2> TAKE j \in 1..n
  <2>1. PICK q \in 1..n : t[j] = hs[q]
    BY DEF SortedFirst, n
  <2>2. q \in 1..Len(hs) /\ q # i
    BY <1>1, <2>1
  <2> QED
    BY <2>1, <2>2
<1>7. ASSUME NEW a \in 1..i, NEW c \in 1..i, p[a] = p[c]
      PROVE  a = c
  <2>1. CASE a = k \/ c = k
    BY <1>3, <1>4, <1>6, <1>7, <2>1
  <2>2. CASE a # k /\ c # k
    <3>1. From(a) = From(c)
      BY <1>1, <1>4, <1>7, <2>2 DEF IsInjective
    <3> QED
      BY <1>1, <2>2, <3>1
  <2> QED
    BY <2>1, <2>2
<1>8. \A j \in 1..n : t[j].total_allocs \in Int
  <2>1. \A j \in 1..n : t[j] \in HotspotType
    BY <1>1
  <2> QED
    BY <2>1, WordTyped DEF HotspotType
<1>9. h.total_allocs \in Int
  BY <1>1, WordTyped DEF HotspotType
<1>10. ASSUME NEW a \in 1..i, NEW c \in 1..i, a < c
       PROVE  p[a].total_allocs >= p[c].total_allocs
  <2>1. CASE a = k
    <3>1. c # k /\ From(c) \in k..n
      BY <1>1, <1>10, <2>1
    <3> QED
      BY <1>2, <1>3, <1>4, <1>8, <1>9, <2>1, <3>1
  <2>2. CASE c = k
    <3>1. a # k /\ From(a) \in 1..(k - 1)
      BY <1>1, <1>10, <2>2
    <3> QED
      BY <1>2, <1>3, <1>4, <2>2, <3>1
  <2>3. CASE a # k /\ c # k
    <3>1. From(a) < From(c) /\ From(a) \in 1..n /\ From(c) \in 1..n
      BY <1>1, <1>10, <2>3
    <3> QED
      BY <1>1, <1>4, <2>3, <3>1 DEF Descends
  <2> QED
    BY <2>1, <2>2, <2>3
<1>11. Descends(p) /\ IsInjective(p)
  BY <1>3, <1>7, <1>10 DEF Descends, IsInjective
<1> QED
  BY <1>3, <1>5, <1>11 DEF SortedFirst, p

(* The list of hotspots is made by placing one after the other. *)
LEMMA HotspotsPlaced ==
  ASSUME NEW hs \in Seq(HotspotType)
  PROVE  \E tr \in [0..Len(hs) -> Seq(HotspotType)] :
           /\ tr[0] = <<>>
           /\ \A i \in 1..Len(hs) : tr[i] = Place(tr[i - 1], hs[i])
           /\ FoldLeft(Place, <<>>, hs) = tr[Len(hs)]
<1> DEFINE n == Len(hs)
           A == Seq(HotspotType)
           F == [p \in A \X (1..n) |-> Place(p[1], hs[p[2]])]
           Fold(g) == g = [s \in SUBSET (1..n) |->
                             IF s = {} THEN <<>> ELSE Place(g[s \ {Max(s)}], hs[Max(s)])]
<1>1. n \in Nat /\ DOMAIN hs = 1..n /\ \A i \in 1..n : hs[i] \in HotspotType
  OBVIOUS
<1>2. FoldLeft(Place, <<>>, hs) = (CHOOSE g : Fold(g))[1..n]
  BY <1>1 DEF FoldLeft, MapThenFoldSet
<1>3. F \in [A \X (1..n) -> A]
  <2>1. ASSUME NEW gs \in A, NEW i \in 1..n
        PROVE  Place(gs, hs[i]) \in A
    BY <1>1, Placed DEF InsertedAt
  <2> QED
    BY <2>1
<1>4. \A gs \in A, i \in 1..n : F[<<gs, i>>] = Place(gs, hs[i])
  OBVIOUS
<1>5. <<>> \in A
  OBVIOUS
<1> HIDE DEF A, F
<1>6. PICK g \in [SUBSET (1..n) -> A] : IsLeftFold(g, n, <<>>, F)
  BY <1>1, <1>3, <1>5, LeftFoldExists
<1>7. \A s \in SUBSET (1..n) : s # {} => Max(s) \in 1..n /\ s \ {Max(s)} \in SUBSET (1..n)
  <2> TAKE s \in SUBSET (1..n)
  <2>1. s \in SUBSET (0..n)
    BY <1>1
  <2> QED
    BY <1>1, <2>1, MaxIn
<1>8. Fold(g)
  <2>1. ASSUME NEW s \in SUBSET (1..n)
        PROVE  g[s] = IF s = {} THEN <<>> ELSE Place(g[s \ {Max(s)}], hs[Max(s)])
    BY <1>4, <1>6, <1>7 DEF IsLeftFold
  <2> QED
    BY <2>1
<1>9. PICK h : h = (CHOOSE q : Fold(q)) /\ Fold(h)
  BY <1>8
<1>10. IsTrace(h, n, A, <<>>, F)
  <2>1. \A s \in SUBSET (1..n) :
          h[s] = IF s = {} THEN <<>> ELSE Place(h[s \ {Max(s)}], hs[Max(s)])
    <3> TAKE s \in SUBSET (1..n)
    <3> QED
      BY <1>9
  <2>2. h[{}] = <<>>
    BY <2>1
  <2>3. ASSUME NEW s \in SUBSET (1..n), s # {}, h[s \ {Max(s)}] \in A
        PROVE  h[s] = F[<<h[s \ {Max(s)}], Max(s)>>]
    BY <1>4, <1>7, <2>1, <2>3
  <2> QED
    BY <2>2, <2>3 DEF IsTrace
<1>11. PICK tr \in [0..n -> A] : IsChain(tr, n, <<>>, F) /\ tr[n] = h[1..n]
  <2>1. n \in Nat
    BY <1>1
  <2> DEFINE none == <<>>
  <2>2. none \in A /\ IsTrace(h, n, A, none, F)
    BY <1>5, <1>10
  <2> HIDE DEF n, Fold, none
  <2>3. Steps(n, A, F)
    BY <1>3 DEF Steps
  <2>4. HasChain(h, n, A, none, F)
    BY <2>1, <2>2, <2>3, FoldTrace
  <2> QED
    BY <2>4 DEF none, HasChain
<1>12. \A i \in 1..n : tr[i] = Place(tr[i - 1], hs[i])
  <2> TAKE i \in 1..n
  <2>1. i - 1 \in 0..n
    BY <1>1
  <2>2. tr[i - 1] \in A /\ tr[i] = F[<<tr[i - 1], i>>]
    BY <2>1, <1>11 DEF IsChain
  <2> QED
    BY <1>4, <2>2
<1>13. tr[0] = <<>>
  BY <1>11 DEF IsChain
<1> QED
  BY <1>2, <1>9, <1>11, <1>12, <1>13 DEF A

(* The first n of a sequence. *)
LEMMA FirstOf ==
  ASSUME NEW S, NEW s \in Seq(S), NEW n \in 0..Len(s)
  PROVE  /\ SubSeq(s, 1, n) \in Seq(S) /\ Len(SubSeq(s, 1, n)) = n
         /\ \A i \in 1..n : SubSeq(s, 1, n)[i] = s[i]
<1>1. n \in Nat /\ Len(s) \in Nat /\ n <= Len(s)
  OBVIOUS
<1>2. Len(SubSeq(s, 1, n)) = n
  BY <1>1
<1>3. \A i \in 1..n : SubSeq(s, 1, n)[i] = s[i]
  BY <1>1
<1>4. SubSeq(s, 1, n) \in Seq(S)
  BY <1>1
<1> QED
  BY <1>2, <1>3, <1>4

(* The list is that of the first hotspots, as many as there is room for. *)
LEMMA TopSorted ==
  ASSUME NEW f, NEW m, Tally(m.hotspots, f), NEW n \in Nat
  PROVE  TopOf(TopHotspots(m, n), m, n) /\ TopHotspots(m, n) \in Seq(HotspotType)
<1> DEFINE hs == m.hotspots
           l == Len(hs)
           count == IF l < n THEN l ELSE n
           first == SubSeq(hs, 1, count)
           list == TopHotspots(m, n)
<1>1. hs \in Seq(HotspotType) /\ l \in Nat /\ DOMAIN hs = 1..l
  BY DEF Tally
<1>2. count \in 0..l /\ count \in Nat /\ count = Min({l, n})
  <2>1. {l, n} \subseteq Nat /\ {l, n} # {}
    BY <1>1
  <2>2. Min({l, n}) \in {l, n} /\ \A y \in {l, n} : Min({l, n}) <= y
    BY <2>1, MinIn
  <2> QED
    BY <1>1, <2>2
<1> HIDE DEF count
<1>3. /\ first \in Seq(HotspotType) /\ Len(first) = count
      /\ \A i \in 1..count : first[i] = hs[i]
  <2> HIDE DEF hs
  <2> QED
    BY <1>1, <1>2, FirstOf
<1>4. list = FoldLeft(Place, <<>>, first)
  BY DEF TopHotspots, count
<1> HIDE DEF list, first
<1>5. \A p, q \in 1..count : first[p] = first[q] => p = q
  <2>1. \A p, q \in 1..l : SameSite(hs[p], hs[q]) => p = q
    BY <1>1 DEF Tally
  <2>2. \A p, q \in 1..l : hs[p] = hs[q] => p = q
    BY <2>1 DEF SameSite
  <2>3. \A p \in 1..count : p \in 1..l
    BY <1>2
  <2> QED
    BY <1>3, <2>2, <2>3
<1>6. PICK tr \in [0..count -> Seq(HotspotType)] :
        /\ tr[0] = <<>>
        /\ \A i \in 1..count : tr[i] = Place(tr[i - 1], first[i])
        /\ list = tr[count]
  BY <1>3, <1>4, HotspotsPlaced
<1> DEFINE G == {i \in Nat : SortedFirst(tr[i], first, i)}
<1>7. count \in G
  <2>1. 0 \in G
    <3>1. SortedFirst(<<>>, first, 0)
      BY DEF SortedFirst, Descends, IsInjective
    <3> QED
      BY <1>6, <3>1
  <2>2. ASSUME NEW i \in 1..count, i - 1 \in G
        PROVE  i \in G
    <3>1. SortedFirst(tr[i - 1], first, i - 1) /\ i \in Nat
      BY <1>2, <2>2
    <3>2. SortedFirst(Place(tr[i - 1], first[i]), first, i)
      BY <1>3, <1>5, <3>1, OneMorePlaced
    <3> QED
      BY <1>6, <3>1, <3>2
  <2> HIDE DEF G
  <2>3. count \in 0..count
    BY <1>2
  <2> QED
    BY <1>2, <2>1, <2>2, <2>3, UpTo
<1>8. SortedFirst(list, first, count)
  BY <1>6, <1>7
<1>9. ToSet(list) \subseteq ToSet(hs)
  <2>1. \A j \in 1..count : \E q \in 1..count : list[j] = hs[q]
    BY <1>3, <1>8 DEF SortedFirst
  <2>2. DOMAIN list = 1..count /\ \A q \in 1..count : q \in DOMAIN hs
    BY <1>1, <1>2, <1>8 DEF SortedFirst
  <2> QED
    BY <2>1, <2>2 DEF ToSet
<1>10. IsSorted(list, LAMBDA g, h : g.total_allocs >= h.total_allocs)
  BY <1>8 DEF SortedFirst, Descends, IsSorted
<1>11. Len(list) = Min({Len(m.hotspots), n}) /\ IsInjective(list)
  BY <1>2, <1>8 DEF SortedFirst
<1>12. list \in Seq(HotspotType)
  BY <1>8 DEF SortedFirst
<1> QED
  BY <1>9, <1>10, <1>11, <1>12 DEF TopOf, list

-----------------------------------------------------------------------------
(* The slopes *)

LEMMA RiseTrue ==
  ASSUME ViewInv, cmd # "export", NEW r \in Run, Len(Snapshots(r)) > 1
  PROVE  /\ Rise(model[r]) \in Int /\ TrueRise(r) \in Int
         /\ TrueRise(r) >= 0 => Rise(model[r]) = TrueRise(r)
         /\ Rise(model[r]) = Trunc(TrueRise(r))
<1> DEFINE m == model[r]
           snaps == Snapshots(r)
           x == Last1(snaps).current_used
           y == snaps[1].current_used
<1>1. /\ Len(m.timeline) = Len(snaps) /\ Len(snaps) \in Nat
      /\ \A i \in 1..Len(snaps) :
           /\ m.timeline[i].current_used = snaps[i].current_used
           /\ snaps[i].current_used \in Word
  BY ViewRun
<1>2. 1 \in 1..Len(snaps) /\ Len(snaps) \in 1..Len(snaps)
  BY <1>1
<1>3. /\ Last1(m.timeline).current_used = x /\ m.timeline[1].current_used = y
      /\ x \in Word /\ y \in Word
  BY <1>1, <1>2 DEF Last1
<1>4. TrueRise(r) = x - y /\ Rise(m) = Trunc(x - y)
  BY <1>3 DEF TrueRise, Rise
<1> HIDE DEF x, y, m
<1>5. x \in Int /\ y \in Int /\ x - y \in Int /\ (x - y >= 0 => x - y \in Word)
  BY <1>3, U32Assumption DEF Word
<1>6. Trunc(x - y) \in Int /\ (x - y >= 0 => Trunc(x - y) = x - y)
  BY <1>5, TruncAdds, WordTyped
<1> QED
  BY <1>4, <1>5, <1>6 DEF m

(* Products in another order. *)
LEMMA SameProducts ==
  ASSUME NEW x \in Int, NEW a \in Int, NEW b \in Int
  PROVE  x * a * b = (a * b) * x
OBVIOUS

(* What diff reports is true of the two runs: the sites that only one has,   *)
(* the increases, the peaks, the slopes and the two lists of top hotspots.   *)
THEOREM DiffIsExact == Spec => []DiffExact
<1>1. ViewInv => DiffExact
  <2> SUFFICES ASSUME ViewInv, Compared PROVE DiffExact
    BY DEF DiffExact
  <2> DEFINE a == model["a"]
             b == model["b"]
             la == Len(a.timeline)
             lb == Len(b.timeline)
  <2>1. cmd # "export" /\ "a" \in Run /\ "b" \in Run
    BY DEF Compared, Run
  <2>2. diff = DiffOf(a, b) /\ top = [r \in Run |-> TopHotspots(model[r], TopN)]
    BY DEF ViewInv, Results
  <2>3. \A r \in Run : Tally(model[r].hotspots, RecordsIn(Snapshots(r)))
    BY <2>1, ViewTally
  <2>4. \A r \in Run : SitesOf(r) = SitesIn(RecordsIn(Snapshots(r)))
    BY RunRecords
  <2>5. diff.new_hotspot_count = Cardinality(SitesOf("b") \ SitesOf("a"))
    <3>1. diff.new_hotspot_count = OnlyIn(b, a)
      BY <2>2 DEF DiffOf
    <3> QED
      BY <2>1, <2>3, <2>4, <3>1, OnlySites
  <2>6. diff.resolved_hotspot_count = Cardinality(SitesOf("a") \ SitesOf("b"))
    <3>1. diff.resolved_hotspot_count = OnlyIn(a, b)
      BY <2>2 DEF DiffOf
    <3> QED
      BY <2>1, <2>3, <2>4, <3>1, OnlySites
  <2>7. diff.spike_count = Cardinality(TrueSpikes("a")) + Cardinality(TrueSpikes("b"))
    <3>1. diff.spike_count = Spikes(a) + Spikes(b)
      BY <2>2 DEF DiffOf
    <3> QED
      BY <2>1, <3>1, SpikesTrue
  <2>8. ASSUME PeakOf("a") <= U32Max \div 2, PeakOf("b") <= U32Max \div 2
        PROVE  diff.peak_delta = PeakOf("b") - PeakOf("a")
    <3>1. diff.peak_delta = SignedDiff(b.peak_used_ever, a.peak_used_ever)
      BY <2>2 DEF DiffOf
    <3>2. /\ a.peak_used_ever = PeakOf("a") /\ b.peak_used_ever = PeakOf("b")
          /\ PeakOf("a") \in Word /\ PeakOf("b") \in Word
      BY <2>1, ViewRun
    <3> QED
      BY <2>8, <3>1, <3>2, PeaksSubtract
  <2>9. /\ la = Len(Snapshots("a")) /\ lb = Len(Snapshots("b"))
        /\ la \in Nat /\ lb \in Nat
    BY <2>1, ViewRun
  <2>10. /\ diff.slope_num = IF la > 1 /\ lb > 1 THEN Rise(b) * la - Rise(a) * lb ELSE 0
         /\ diff.slope_den = IF la > 1 /\ lb > 1 THEN la * lb ELSE 1
    BY <2>2 DEF DiffOf
  <2>11. ASSUME \A r \in Run : Len(Snapshots(r)) > 1 /\ TrueRise(r) >= 0
         PROVE  diff.slope_num * Len(Snapshots("a")) * Len(Snapshots("b")) =
                  diff.slope_den * (TrueRise("b") * Len(Snapshots("a"))
                                      - TrueRise("a") * Len(Snapshots("b")))
    <3> DEFINE x == TrueRise("b") * la - TrueRise("a") * lb
    <3>1. /\ Rise(a) = TrueRise("a") /\ Rise(b) = TrueRise("b")
          /\ TrueRise("a") \in Int /\ TrueRise("b") \in Int
      BY <2>1, <2>11, RiseTrue
    <3> HIDE DEF a, b, la, lb
    <3>2. x \in Int /\ la > 1 /\ lb > 1 /\ la \in Int /\ lb \in Int
      BY <2>1, <2>9, <2>11, <3>1
    <3>3. diff.slope_num = x /\ diff.slope_den = la * lb
      BY <2>10, <3>1, <3>2
    <3> HIDE DEF x
    <3>4. x * la * lb = (la * lb) * x
      BY <3>2, SameProducts
    <3>5. diff.slope_num * la * lb = diff.slope_den * x
      BY <3>3, <3>4
    <3> QED
      BY <2>9, <3>5 DEF x
  <2>12. ASSUME Snapshots("a") = Snapshots("b")
         PROVE  diff.slope_num = 0
    <3>1. CASE la > 1 /\ lb > 1
      <4>1. la = lb /\ Len(Snapshots("a")) > 1 /\ Len(Snapshots("b")) > 1
        BY <2>9, <2>12, <3>1
      <4>2. TrueRise("a") = TrueRise("b")
        BY <2>12 DEF TrueRise
      <4>3. Rise(a) = Rise(b) /\ Rise(a) \in Int
        BY <2>1, <4>1, <4>2, RiseTrue
      <4> HIDE DEF a, b, la, lb
      <4>4. diff.slope_num = Rise(a) * la - Rise(a) * la
        BY <2>10, <3>1, <4>1, <4>3
      <4>5. Rise(a) * la \in Int
        BY <2>9, <4>3
      <4> QED
        BY <4>4, <4>5
    <3>2. CASE ~(la > 1 /\ lb > 1)
      BY <2>10, <3>2
    <3> QED
      BY <3>1, <3>2
  <2>13. ASSUME NEW r \in Run
         PROVE  TopOf(top[r], model[r], TopN)
    <3>1. TopN \in Nat
      BY MTV1ViewerAssumption
    <3> QED
      BY <2>2, <2>3, <3>1, TopSorted
  <2> QED
    BY <2>5, <2>6, <2>7, <2>8, <2>11, <2>12, <2>13 DEF DiffExact
<1> QED
  BY <1>1, ViewInvariant, PTL

-----------------------------------------------------------------------------
(* The terminal *)

Screens == {"overview", "timeline", "heatmap"}
Modes == {"size", "callsite"}

(* What is shown comes from the model of the run that was read. *)
Shows(m) ==
  \/ shown = Nothing
  \/ shown = [screen |-> "text", last |-> m.last_snapshot]
  \/ \E screen \in Screens, mode \in Modes : shown = Render(m, screen, mode)

TuiInv ==
  /\ current_screen \in Screens /\ heatmap_mode \in Modes
  /\ terminal = "as found" => shown = Nothing
  /\ terminal # "as found" => cmd = "replay" /\ loading = "none" /\ Shows(model["a"])

(* What is shown was made from the models as they are: TuiInv is an          *)
(* invariant of the loop with its terminal.                                  *)
LEMMA TuiInvariant == TuiSpec => []TuiInv
<1>1. TuiInit => TuiInv
  BY DEF TuiInit, TuiInv, Screens, Modes
<1>2. ASSUME TuiInv, [TuiNext]_tuiVars
      PROVE  TuiInv'
  <2>1. CASE Next /\ UNCHANGED screenVars
    <3>1. loading # "none"
      BY <2>1 DEF Next, ReadSnapshot, ReadText, ReadOther, ReadEnd, Reading
    <3> QED
      BY <1>2, <2>1, <3>1 DEF TuiInv, screenVars
  <2>2. CASE TextOnly
    BY <1>2, <2>2 DEF TuiInv, TextOnly, Replayed, viewerVars, Shows
  <2>3. CASE TuiStart
    BY <1>2, <2>3 DEF TuiInv, TuiStart, Replayed, viewerVars, Shows
  <2>4. ASSUME NEW s \in Screens, NEW mode \in Modes, Key(s, mode)
        PROVE  TuiInv'
    BY <1>2, <2>4 DEF TuiInv, Key, viewerVars, Shows
  <2>5. CASE KeyScreen
    BY <1>2, <2>4, <2>5 DEF KeyScreen, TuiInv, Screens
  <2>6. CASE KeyH
    <3>1. OtherMode \in Modes
      BY DEF OtherMode, Modes
    <3> QED
      BY <1>2, <2>4, <2>6, <3>1 DEF KeyH, TuiInv
  <2>7. CASE KeyOther
    BY <1>2, <2>4, <2>7 DEF KeyOther, TuiInv
  <2>8. CASE KeyQ
    BY <1>2, <2>8 DEF TuiInv, KeyQ, viewerVars, Shows
  <2>9. CASE UNCHANGED tuiVars
    BY <1>2, <2>9 DEF TuiInv, tuiVars, screenVars, viewerVars, Shows
  <2> QED
    BY <1>2, <2>1, <2>2, <2>3, <2>5, <2>6, <2>7, <2>8, <2>9 DEF TuiNext
<1> QED
  BY <1>1, <1>2, PTL DEF TuiSpec

(* Each screen says which one it is. *)
LEMMA ScreenNamed ==
  ASSUME NEW m, NEW mode \in Modes
  PROVE  /\ Render(m, "overview", mode) = Overview(m) /\ Overview(m).screen = "overview"
         /\ Render(m, "timeline", mode) = Timeline(m) /\ Timeline(m).screen = "timeline"
         /\ Render(m, "heatmap", mode) = Heatmap(m, mode)
         /\ Heatmap(m, mode).screen = "heatmap"
         /\ Nothing.screen = "nothing"
<1>1. Overview(m).screen = "overview"
  BY DEF Overview
<1>2. Timeline(m).screen = "timeline"
  BY DEF Timeline
<1>3. Heatmap(m, mode).screen = "heatmap"
  BY DEF Heatmap, Modes
<1> QED
  BY <1>1, <1>2, <1>3 DEF Render, Nothing

(* What replay shows and export writes is what was read: every snapshot in   *)
(* its row, the last one on the overview and in the text, the numbers of     *)
(* snapshots and of wrong checksums, the list of hotspots, the first marks.  *)
THEOREM RunIsShown == TuiSpec => []RunShown
<1>1. ViewInv /\ TuiInv => RunShown
  <2> SUFFICES ASSUME ViewInv, TuiInv PROVE RunShown
    OBVIOUS
  <2> DEFINE snaps == Snapshots("a")
             marks == frames["a"].mark
             m == model["a"]
  <2>1. "a" \in Run /\ snaps = frames["a"].snapshot
    BY DEF Run, Snapshots
  <2>2. ASSUME cmd = "export"
        PROVE  /\ Len(rows) = Len(snaps)
               /\ \A k \in DOMAIN snaps :
                    /\ rows[k].current_used = snaps[k].current_used
                    /\ rows[k].peak_used = snaps[k].peak_used
                    /\ rows[k].records = snaps[k].records
    BY <2>1, <2>2 DEF ViewInv, Exported
  <2>3. cmd = "replay" => m.marks = SubSeq(marks, 1, Min({Len(marks), MaxMarks}))
    BY DEF ViewInv, IsReplayOf
  <2>4. ASSUME shown.screen \in {"overview", "text"}
        PROVE  cmd = "replay" /\ Shows(m)
    <3>1. Nothing.screen = "nothing"
      BY DEF Nothing
    <3>2. shown # Nothing
      BY <2>4, <3>1
    <3> QED
      BY <3>2 DEF TuiInv
  <2>5. cmd = "replay" => IsModelOf(m, snaps) /\ IsReplayOf(m, frames["a"])
    BY <2>1 DEF ViewInv
  <2>6. ASSUME shown.screen = "overview"
        PROVE  shown = Overview(m)
    <3>1. PICK screen \in Screens, mode \in Modes : shown = Render(m, screen, mode)
      BY <2>4, <2>6 DEF Shows, Nothing
    <3>2. screen = "overview"
      BY <2>6, <3>1, ScreenNamed DEF Screens
    <3> QED
      BY <3>1, <3>2, ScreenNamed
  <2>7. ASSUME shown.screen = "text"
        PROVE  shown.last = m.last_snapshot
    <3>1. ~\E screen \in Screens, mode \in Modes : shown = Render(m, screen, mode)
      BY <2>7, ScreenNamed DEF Screens
    <3> QED
      BY <2>4, <2>7, <3>1 DEF Shows, Nothing
  <2>8. ASSUME shown.screen \in {"overview", "text"}
        PROVE  shown.last = LastOf(snaps)
    BY <2>4, <2>5, <2>6, <2>7, <2>8 DEF Overview, IsModelOf
  <2>9. ASSUME shown.screen = "overview"
        PROVE  /\ shown.frames = Trunc(Len(snaps))
               /\ shown.crc_fails = Trunc(Cardinality({k \in DOMAIN snaps : ~snaps[k].crc_ok}))
               /\ TopOf([k \in DOMAIN shown.top |-> shown.top[k].hotspot], m, TopN)
    <3>1. /\ IsModelOf(m, snaps) /\ IsReplayOf(m, frames["a"]) /\ shown = Overview(m)
      BY <2>4, <2>5, <2>6, <2>9
    <3>2. shown.frames = Trunc(Len(snaps))
      BY <3>1 DEF Overview, IsModelOf
    <3>3. shown.crc_fails = Trunc(Cardinality({k \in DOMAIN snaps : ~snaps[k].crc_ok}))
      BY <2>1, <3>1 DEF Overview, IsReplayOf, Wrong
    <3> DEFINE list == TopHotspots(m, TopN)
    <3>4. TopOf(list, m, TopN) /\ list \in Seq(HotspotType)
      <4>1. Tally(m.hotspots, RecordsIn(snaps)) /\ TopN \in Nat
        BY <3>1, MTV1ViewerAssumption DEF IsModelOf
      <4> QED
        BY <4>1, TopSorted
    <3>5. shown.top = WithNames(list)
      BY <3>1 DEF Overview
    <3> HIDE DEF list
    <3>6. [k \in DOMAIN shown.top |-> shown.top[k].hotspot] = list
      BY <3>4, <3>5 DEF WithNames
    <3> QED
      BY <3>2, <3>3, <3>4, <3>6
  <2> QED
    BY <2>2, <2>3, <2>8, <2>9 DEF RunShown
<1> QED
  BY <1>1, ViewInvariant, TerminalOnlyReads, TuiInvariant, PTL

-----------------------------------------------------------------------------
(* Quotients of columns and bars *)

LEMMA QuotientMonotone ==
  ASSUME NEW n \in Nat \ {0}, NEW a \in Int, NEW b \in Int, a <= b
  PROVE  a \div n <= b \div n
<1> DEFINE q == a \div n
           p == b \div n
           z == n * q
<1>1. q \in Int /\ p \in Int /\ z \in Int /\ a = z + (a % n) /\ a % n \in Nat
  BY DivMod
<1>2. q > p <=> z > b
  BY <1>1, AboveQuotient
<1> DEFINE r == a % n
<1>3. r \in Nat /\ a = z + r
  BY <1>1
<1> HIDE DEF q, p, z, r
<1>4. ~(z > b)
  BY <1>1, <1>3
<1>5. q <= p
  BY <1>1, <1>2, <1>4
<1> QED
  BY <1>5 DEF q, p

(* The product of two positive numbers is positive. *)
LEMMA ProductPositive ==
  ASSUME NEW x \in Nat \ {0}, NEW y \in Nat \ {0}
  PROVE  x * y \in Nat \ {0}
OBVIOUS

(* A product grows with its factor. *)
LEMMA ProductMonotone ==
  ASSUME NEW x \in Int, NEW y \in Int, NEW n \in Nat
  PROVE  /\ x <= y => n * x <= n * y
         /\ x < y /\ n > 0 => n * x < n * y
         /\ n * x \in Int /\ n * y \in Int
<1> DEFINE e == y - x
<1>1. y = x + e /\ e \in Int
  OBVIOUS
<1> HIDE DEF e
<1>2. n * y = n * x + n * e
  BY <1>1
<1>3. e >= 0 => n * e >= 0
  BY <1>1
<1>4. e > 0 /\ n > 0 => n * e > 0
  BY <1>1, ProductPositive
<1> DEFINE u == n * x
           v == n * y
           w == n * e
<1>5. /\ u \in Int /\ v \in Int /\ w \in Int /\ v = u + w
      /\ (e >= 0 => w >= 0) /\ (e > 0 /\ n > 0 => w > 0)
  BY <1>1, <1>2, <1>3, <1>4
<1> HIDE DEF u, v, w
<1>6. /\ x <= y => u <= v
      /\ x < y /\ n > 0 => u < v
  BY <1>1, <1>5
<1> QED
  BY <1>5, <1>6 DEF u, v

(* The largest of a sequence of numbers *)
LEMMA LargestIs ==
  ASSUME NEW s \in Seq(Nat)
  PROVE  /\ LargestOf(s) \in {0} \cup {s[i] : i \in 1..Len(s)} /\ LargestOf(s) \in Nat
         /\ \A i \in 1..Len(s) : LargestOf(s) >= s[i]
<1> DEFINE n == Len(s)
           A == Nat
           Op(x, y) == IF y > x THEN y ELSE x
           F == [p \in A \X (1..n) |-> Op(p[1], s[p[2]])]
           Fold(g) == g = [r \in SUBSET (1..n) |->
                             IF r = {} THEN 0 ELSE Op(g[r \ {Max(r)}], s[Max(r)])]
<1>1. n \in Nat /\ DOMAIN s = 1..n /\ \A i \in 1..n : s[i] \in Nat
  OBVIOUS
<1>2. LargestOf(s) = (CHOOSE g : Fold(g))[1..n]
  BY <1>1 DEF LargestOf, FoldLeft, MapThenFoldSet
<1>3. F \in [A \X (1..n) -> A]
  BY <1>1
<1>4. \A x \in A, i \in 1..n : F[<<x, i>>] = Op(x, s[i])
  OBVIOUS
<1>5. 0 \in A
  OBVIOUS
<1>5a. \A x \in Nat, y \in Nat : Op(x, y) \in {x, y} /\ Op(x, y) >= x /\ Op(x, y) >= y
  OBVIOUS
<1> HIDE DEF A, F, Op
<1>6. PICK g \in [SUBSET (1..n) -> A] : IsLeftFold(g, n, 0, F)
  BY <1>1, <1>3, <1>5, LeftFoldExists
<1>7. \A r \in SUBSET (1..n) : r # {} => Max(r) \in 1..n /\ r \ {Max(r)} \in SUBSET (1..n)
  <2> TAKE r \in SUBSET (1..n)
  <2>1. r \in SUBSET (0..n)
    BY <1>1
  <2> QED
    BY <1>1, <2>1, MaxIn
<1>8. Fold(g)
  <2>1. ASSUME NEW r \in SUBSET (1..n)
        PROVE  g[r] = IF r = {} THEN 0 ELSE Op(g[r \ {Max(r)}], s[Max(r)])
    BY <1>4, <1>6, <1>7 DEF IsLeftFold
  <2> QED
    BY <2>1
<1>9. PICK h : h = (CHOOSE q : Fold(q)) /\ Fold(h)
  BY <1>8
<1>10. IsTrace(h, n, A, 0, F)
  <2>1. \A r \in SUBSET (1..n) :
          h[r] = IF r = {} THEN 0 ELSE Op(h[r \ {Max(r)}], s[Max(r)])
    <3> TAKE r \in SUBSET (1..n)
    <3> QED
      BY <1>9
  <2>2. h[{}] = 0
    BY <2>1
  <2>3. ASSUME NEW r \in SUBSET (1..n), r # {}, h[r \ {Max(r)}] \in A
        PROVE  h[r] = F[<<h[r \ {Max(r)}], Max(r)>>]
    BY <1>4, <1>7, <2>1, <2>3
  <2> QED
    BY <2>2, <2>3 DEF IsTrace
<1>11. PICK tr \in [0..n -> A] : IsChain(tr, n, 0, F) /\ tr[n] = h[1..n]
  <2>1. n \in Nat /\ Steps(n, A, F)
    BY <1>1, <1>3 DEF Steps
  <2> HIDE DEF n, Fold
  <2>2. HasChain(h, n, A, 0, F)
    BY <1>5, <1>10, <2>1, FoldTrace
  <2> QED
    BY <2>2 DEF HasChain
<1>12. tr[0] = 0 /\ \A i \in 1..n : tr[i - 1] \in Nat /\ tr[i] = Op(tr[i - 1], s[i])
  <2>1. tr[0] = 0
    BY <1>11 DEF IsChain
  <2>2. ASSUME NEW i \in 1..n
        PROVE  tr[i - 1] \in Nat /\ tr[i] = Op(tr[i - 1], s[i])
    <3>1. i - 1 \in 0..n
      BY <1>1
    <3>2. tr[i - 1] \in A /\ tr[i] = F[<<tr[i - 1], i>>]
      BY <1>11, <3>1 DEF IsChain
    <3> QED
      BY <1>4, <3>2 DEF A
  <2> QED
    BY <2>1, <2>2
<1> DEFINE Largest(i) == /\ tr[i] \in Nat /\ tr[i] \in {0} \cup {s[j] : j \in 1..i}
                      /\ \A j \in 1..i : tr[i] >= s[j]
           G == {i \in Nat : Largest(i)}
<1>13. n \in G
  <2>1. 0 \in G
    BY <1>12
  <2>2. ASSUME NEW i \in 1..n, i - 1 \in G
        PROVE  i \in G
    <3> DEFINE x == tr[i - 1]
               y == s[i]
               z == tr[i]
    <3>1. /\ x \in Nat /\ y \in Nat /\ z = Op(x, y) /\ i \in Nat
          /\ x \in {0} \cup {s[j] : j \in 1..(i - 1)}
          /\ \A j \in 1..(i - 1) : x >= s[j]
      BY <1>1, <1>12, <2>2
    <3>2. z \in {x, y} /\ z >= x /\ z >= y
      BY <1>5a, <3>1
    <3>3. \A j \in 1..i : (j \in 1..(i - 1) \/ j = i) /\ s[j] \in Nat
      BY <1>1, <3>1
    <3> HIDE DEF x, z
    <3>4. \A j \in 1..i : z >= s[j]
      BY <3>1, <3>2, <3>3
    <3>5. z \in {0} \cup {s[j] : j \in 1..i}
      BY <3>1, <3>2
    <3> QED
      BY <3>1, <3>2, <3>4, <3>5 DEF z
  <2> HIDE DEF G
  <2>3. n \in 0..n
    BY <1>1
  <2> QED
    BY <1>1, <2>1, <2>2, <2>3, UpTo
<1>14. LargestOf(s) = tr[n]
  BY <1>2, <1>9, <1>11
<1> QED
  BY <1>13, <1>14

(* The product of two natural numbers is one. *)
LEMMA ProductNat ==
  ASSUME NEW x \in Nat, NEW y \in Nat
  PROVE  x * y \in Nat
OBVIOUS

(* A quotient rounds down. *)
LEMMA QuotientNat ==
  ASSUME NEW a \in Nat, NEW n \in Nat \ {0}
  PROVE  a \div n \in Nat /\ n * (a \div n) \in Nat /\ n * (a \div n) <= a
<1> DEFINE q == a \div n
           r == a % n
           x == n * q
<1>1. a = x + r /\ q \in Int /\ r \in 0..(n - 1)
  BY DivMod
<1>2. 0 \div n <= q /\ 0 \div n = 0
  BY QuotientMonotone
<1>3. q \in Nat /\ r \in Nat
  BY <1>1, <1>2
<1>4. x \in Nat
  BY <1>3, ProductNat
<1> HIDE DEF q, r, x
<1>5. x <= a
  BY <1>1, <1>3, <1>4
<1> QED
  BY <1>3, <1>4, <1>5 DEF q, x

(* A product that wraps only gets smaller. *)
LEMMA TruncBelow ==
  ASSUME NEW a \in Nat
  PROVE  Trunc(a) \in Nat /\ Trunc(a) <= a /\ (a <= U32Max => Trunc(a) = a)
<1> DEFINE n == U32Max + 1
           x == n * (a \div n)
           r == a % n
<1>1. n \in Nat \ {0}
  BY U32Assumption
<1>2. Trunc(a) = r
  BY DEF Trunc
<1> HIDE DEF n
<1>3. x \in Nat
  BY <1>1, QuotientNat
<1>4. a \in Int /\ a = n * (a \div n) + (a % n) /\ a % n \in 0..(n - 1)
  BY <1>1, DivMod
<1>5. a = x + r /\ r \in 0..(n - 1)
  BY <1>4
<1>6. a <= U32Max => Trunc(a) = a
  BY U32Assumption DEF Trunc
<1> HIDE DEF x, r
<1> QED
  BY <1>1, <1>2, <1>3, <1>5, <1>6

(* The columns of the timeline run through the file from its first snapshot, *)
(* in order until their product wraps, and leave none out if there are enough *)
(* of them and it never does.                                                *)
LEMMA ColumnsRun ==
  ASSUME NEW count \in Nat \ {0}
  PROVE  /\ SnapshotAt(0, count) = 0
         /\ \A i \in 0..(Width - 1) :
              /\ SnapshotAt(i, count) \in 0..(count - 1)
              /\ SnapshotAt(i, count) <= (i * count) \div Width
         /\ \A i, j \in 0..(Width - 1) :
              i <= j /\ j * count <= U32Max => SnapshotAt(i, count) <= SnapshotAt(j, count)
         /\ count <= Width /\ (Width - 1) * count <= U32Max =>
              \A k \in 0..(count - 1) : \E i \in 0..(Width - 1) : SnapshotAt(i, count) = k
<1> DEFINE W == Width
<1>0. W \in Nat \ {0}
  BY MTV1TuiAssumption
<1>1. ASSUME NEW i \in 0..(W - 1)
      PROVE  /\ SnapshotAt(i, count) \in 0..(count - 1)
             /\ (i * count) \div W \in 0..(count - 1)
             /\ SnapshotAt(i, count) <= (i * count) \div W
             /\ i * count <= U32Max => SnapshotAt(i, count) = (i * count) \div W
  <2> DEFINE p == i * count
             t == Trunc(p)
             idx == t \div W
  <2>1. i \in Nat /\ i < W /\ p \in Nat
    BY <1>0, ProductNat
  <2>2. p < W * count
    <3>1. count * i < count * W
      BY <1>0, <2>1, ProductMonotone
    <3>2. p = count * i /\ count * W = W * count
      BY <1>0, <2>1
    <3> QED
      BY <3>1, <3>2
  <2>3. t \in Nat /\ t <= p /\ (p <= U32Max => t = p)
    BY <2>1, TruncBelow
  <2>4. idx = t \div W /\ SnapshotAt(i, count) = IF idx >= count THEN count - 1 ELSE idx
    BY DEF SnapshotAt, idx, t, p, W
  <2> HIDE DEF p, t, idx, W
  <2>5. idx \in Int /\ p \div W \in Int
    BY <1>0, <2>1, <2>3, <2>4, DivMod
  <2>6. count > p \div W
    BY <1>0, <2>1, <2>2, AboveQuotient
  <2>7. idx <= p \div W
    BY <1>0, <2>1, <2>3, <2>4, QuotientMonotone
  <2>8. 0 \div W <= idx /\ 0 \div W = 0
    <3>1. 0 \div W <= t \div W
      BY <1>0, <2>3, QuotientMonotone
    <3> QED
      BY <1>0, <2>4, <3>1
  <2>9. SnapshotAt(i, count) = idx /\ idx \in 0..(count - 1) /\ p \div W \in 0..(count - 1)
    BY <2>4, <2>5, <2>6, <2>7, <2>8
  <2>10. p <= U32Max => idx = p \div W
    BY <2>3, <2>4
  <2> QED
    BY <2>7, <2>9, <2>10 DEF p
<1>2. SnapshotAt(0, count) = 0
  <2>1. 0 \in 0..(W - 1) /\ 0 * count = 0 /\ 0 \div W = 0
    BY <1>0
  <2>2. SnapshotAt(0, count) \in 0..(count - 1) /\ SnapshotAt(0, count) <= 0
    BY <1>1, <2>1
  <2> QED
    BY <2>2
<1>3. ASSUME NEW i \in 0..(W - 1), NEW j \in 0..(W - 1), i <= j, j * count <= U32Max
      PROVE  SnapshotAt(i, count) <= SnapshotAt(j, count)
  <2> DEFINE x == i * count
             y == j * count
  <2>1. x <= y /\ x \in Int /\ y \in Int
    <3>1. count * i <= count * j /\ i \in Int /\ j \in Int
      BY <1>0, <1>3, ProductMonotone
    <3> QED
      BY <3>1
  <2> HIDE DEF x, y, W
  <2>2. x \div W <= y \div W
    BY <1>0, <2>1, QuotientMonotone
  <2>3. /\ SnapshotAt(i, count) <= x \div W /\ SnapshotAt(j, count) = y \div W
        /\ SnapshotAt(i, count) \in Int /\ x \div W \in Int /\ y \div W \in Int
    BY <1>1, <1>3 DEF x, y
  <2> QED
    BY <2>2, <2>3
<1>4. ASSUME count <= W, (W - 1) * count <= U32Max, NEW k \in 0..(count - 1)
      PROVE  \E i \in 0..(W - 1) : SnapshotAt(i, count) = k
  <2> DEFINE a == W * k + (count - 1)
             i == a \div count
             r == a % count
             e == count - 1 - r
             x == W * k
             y == count * i
  <2>1. k \in Nat /\ k <= count - 1 /\ x \in Int /\ a \in Int
    BY <1>0
  <2>2. a = count * i + r /\ i \in Int /\ r \in 0..(count - 1)
    BY <2>1, DivMod
  <2>3. /\ y \in Int /\ x + (count - 1) = y + r /\ e \in Int
        /\ 0 <= e /\ e <= count - 1 /\ e < W /\ y = x + e
    BY <1>0, <1>4, <2>1, <2>2
  <2> HIDE DEF i, e, a, r
  <2>4. i >= 0
    <3>1. x >= 0
      BY <1>0, <2>1
    <3>2. i < 0 => count * i < count * 0
      BY <2>2, ProductMonotone
    <3>3. y >= 0
      <4> HIDE DEF x, y
      <4> QED
        BY <2>1, <2>3, <3>1
    <3> QED
      BY <2>2, <3>2, <3>3
  <2>5. i < W
    <3>1. x <= W * (count - 1)
      BY <1>0, <2>1, ProductMonotone
    <3>2. W * (count - 1) = W * count - W
      BY <1>0
    <3>3. W * count = count * W /\ W * count \in Int
      BY <1>0
    <3> DEFINE z == W * count
    <3>4. y < z
      <4> HIDE DEF x, y, z
      <4>1. x <= z - W /\ z \in Int
        BY <3>1, <3>2, <3>3 DEF z
      <4> QED
        BY <1>0, <2>1, <2>3, <4>1
    <3>5. ~(i < W) => count * W <= count * i
      BY <1>0, <2>2, ProductMonotone
    <3>6. ~(i < W) => z <= y
      BY <3>3, <3>5
    <3> HIDE DEF y, z
    <3>7. y \in Int /\ z \in Int
      BY <2>3, <3>3 DEF z
    <3> QED
      BY <3>4, <3>6, <3>7
  <2>6. i \in 0..(W - 1)
    BY <1>0, <2>2, <2>4, <2>5
  <2>7. (i * count) \div W = k
    <3>1. i * count = W * k + e
      BY <2>2, <2>3
    <3>2. e \in 0..(W - 1) /\ i * count \in Int
      BY <1>0, <2>2, <2>3
    <3> DEFINE p == i * count
    <3> HIDE DEF p, W
    <3>3. p = W * k + e /\ p \in Int
      BY <3>1, <3>2 DEF p
    <3> QED
      BY <1>0, <2>1, <3>2, <3>3, Quotient DEF p
  <2>8. i * count <= U32Max
    <3>1. i \in Int /\ W - 1 \in Int /\ i <= W - 1 /\ count \in Nat
      BY <1>0, <2>6
    <3>2. count * i <= count * (W - 1)
      BY <3>1, ProductMonotone
    <3>3. count * i = i * count /\ count * (W - 1) = (W - 1) * count
      BY <3>1
    <3> DEFINE u == i * count
               v == (W - 1) * count
    <3>4. u \in Int /\ v \in Int /\ u <= v /\ v <= U32Max /\ U32Max \in Int
      BY <1>4, <3>1, <3>2, <3>3, U32Assumption
    <3> HIDE DEF u, v
    <3>5. u <= U32Max
      BY <3>4
    <3> QED
      BY <3>5 DEF u
  <2> QED
    BY <1>1, <2>6, <2>7, <2>8
<1> QED
  BY <1>1, <1>2, <1>3, <1>4

(* A column is never too high, and exact where its product does not wrap.    *)
LEMMA BarBounds ==
  ASSUME NEW val \in Nat, NEW peak \in Nat, val <= peak
  PROVE  /\ Bar(val, peak) \in Nat /\ Bar(val, peak) <= Height
         /\ Bar(val, peak) * peak <= val * Height
         /\ val * Height <= U32Max /\ peak > 0 =>
              Bar(val, peak) = (val * Height) \div peak
<1> DEFINE p == val * Height
           t == Trunc(p)
           h == t \div peak
           b == Bar(val, peak)
<1>1. Height \in Nat \ {0} /\ p \in Nat
  <2>1. Height \in Nat \ {0}
    BY MTV1TuiAssumption
  <2> QED
    BY <2>1, ProductNat
<1>2. b = IF val = 0 \/ peak = 0 THEN 0 ELSE IF h > Height THEN Height ELSE h
  BY DEF Bar
<1>3. CASE val = 0 \/ peak = 0
  <2>1. b = 0 /\ val = 0 /\ p = 0
    BY <1>1, <1>2, <1>3
  <2>2. peak > 0 => 0 \div peak = 0
    OBVIOUS
  <2> HIDE DEF b, p
  <2> QED
    BY <1>1, <2>1, <2>2 DEF b, p
<1>4. CASE val # 0 /\ peak # 0
  <2>1. t \in Nat /\ t <= p /\ (p <= U32Max => t = p)
    <3>1. Trunc(p) \in Word /\ (p \in Word => Trunc(p) = p)
      BY <1>1, TruncAdds
    <3>2. t \in Nat /\ t <= p
      BY <1>1, TruncBelow
    <3>3. p <= U32Max => p \in Word
      BY <1>1, U32Assumption DEF Word
    <3> HIDE DEF p
    <3> QED
      BY <1>1, <3>1, <3>2, <3>3
  <2>2. peak \in Nat \ {0} /\ h \in Nat /\ peak * h <= t
    <3> HIDE DEF t
    <3> QED
      BY <1>4, <2>1, QuotientNat
  <2>3. b = IF h > Height THEN Height ELSE h
    BY <1>2, <1>4
  <2> HIDE DEF h, t, p, b
  <2>4. b \in Nat /\ b <= Height /\ b <= h
    BY <1>1, <2>2, <2>3
  <2>5. b * peak <= p
    <3>1. peak * b <= peak * h /\ peak * b = b * peak
      BY <2>2, <2>4, ProductMonotone
    <3> DEFINE x == peak * b
               y == peak * h
    <3>2. x \in Int /\ y \in Int /\ x <= y /\ y <= t /\ t <= p /\ t \in Int /\ p \in Int
      BY <1>1, <2>1, <2>2, <2>4, <3>1
    <3> HIDE DEF x, y
    <3>3. x <= p
      BY <3>2
    <3> QED
      BY <3>1, <3>3 DEF x
  <2>6. ASSUME p <= U32Max
        PROVE  b = p \div peak
    <3>1. t = p /\ h = p \div peak
      BY <2>1, <2>6 DEF h
    <3>2. h <= Height
      <4>1. p = Height * val /\ Height * val <= Height * peak
        BY <1>1, ProductMonotone DEF p
      <4>2. Height * peak = peak * Height /\ Height * peak \in Int
        BY <1>1
      <4>3. ~(peak * Height < p)
        <5> DEFINE x == Height * peak
                   y == Height * val
        <5>1. x \in Int /\ y \in Int /\ y <= x
          BY <1>1, <4>1, <4>2
        <5> HIDE DEF x, y
        <5>2. ~(x < y)
          BY <5>1
        <5> QED
          BY <4>1, <4>2, <5>2 DEF x, y
      <4>4. Height + 1 > p \div peak
        <5>1. peak * (Height + 1) > p
          <6>1. peak * (Height + 1) = peak * Height + peak /\ peak * Height \in Int
            BY <1>1, <2>2
          <6> DEFINE x == peak * Height
          <6>2. x \in Int /\ ~(x < p) /\ peak * (Height + 1) = x + peak
            BY <4>3, <6>1
          <6> HIDE DEF x
          <6> QED
            BY <1>1, <2>2, <6>2
        <5>2. Height + 1 \in Int /\ p \in Int
          BY <1>1
        <5> QED
          BY <2>2, <5>1, <5>2, AboveQuotient
      <4> QED
        BY <1>1, <2>2, <3>1, <4>4
    <3> QED
      BY <2>3, <2>2, <1>1, <3>1, <3>2
  <2> QED
    BY <2>4, <2>5, <2>6 DEF b, p
<1> QED
  BY <1>3, <1>4

(* The bars of the heatmap: no count is above the largest, whose bar is as   *)
(* long as there is room.                                                    *)
LEMMA BarLengths ==
  ASSUME NEW n \in Nat, NEW max \in Nat \ {0}, n <= max, max * BarWidth <= U32Max
  PROVE  /\ BarLen(max, max) = BarWidth
         /\ BarLen(n, max) \in Int /\ BarLen(n, max) <= BarWidth
<1> DEFINE W == BarWidth
           p == n * W
           q == max * W
<1>1. W \in Nat /\ p \in Nat /\ q \in Nat
  <2>1. W \in Nat
    BY MTV1TuiAssumption
  <2> QED
    BY <2>1, ProductNat
<1>2. p <= q
  <2>1. W * n <= W * max
    BY <1>1, ProductMonotone
  <2> QED
    BY <1>1, <2>1
<1>3. Trunc(q) = q /\ Trunc(p) = p
  <2>1. U32Max \in Nat
    BY U32Assumption
  <2>2. q <= U32Max
    OBVIOUS
  <2> HIDE DEF p, q
  <2>3. p \in Word /\ q \in Word /\ p \in Int /\ q \in Int
    BY <1>1, <1>2, <2>1, <2>2 DEF Word
  <2> QED
    BY <2>3, TruncAdds
<1>4. q \div max = W
  <2>1. q = max * W + 0 /\ 0 \in 0..(max - 1) /\ q \in Int /\ W \in Int
    BY <1>1
  <2> HIDE DEF q, W
  <2> QED
    BY <2>1, Quotient
<1>5. BarLen(max, max) = q \div max /\ BarLen(n, max) = p \div max
  BY <1>3 DEF BarLen
<1>6. p \div max <= q \div max /\ p \div max \in Int
  <2> HIDE DEF p, q
  <2>1. p \div max <= q \div max
    BY <1>1, <1>2, QuotientMonotone
  <2>2. p \div max \in Nat
    BY <1>1, QuotientNat
  <2> QED
    BY <2>1, <2>2
<1> QED
  BY <1>4, <1>5, <1>6

(* The timeline of a run *)
LEMMA TimelineTrue ==
  ASSUME ViewInv, cmd # "export", shown = Timeline(model["a"]), Len(Snapshots("a")) >= 2
  PROVE  LET snaps   == Snapshots("a")
             n       == Len(snaps)
             peak    == Max({s.current_used : s \in ToSet(snaps)})
             columns == shown.bars
         IN  /\ shown.peak = peak
             /\ columns[1].of = 1
             /\ \A c \in 1..Width :
                  columns[c].of \in 1..n /\ columns[c].of <= ((c - 1) * n) \div Width + 1
             /\ \A c \in 2..Width :
                  (c - 1) * n <= U32Max => columns[c - 1].of <= columns[c].of
             /\ n <= Width /\ (Width - 1) * n <= U32Max =>
                  {columns[c].of : c \in 1..Width} = 1..n
             /\ \A c \in 1..Width :
                  LET used   == snaps[columns[c].of].current_used
                      height == columns[c].height
                  IN  /\ height <= Height /\ height * peak <= used * Height
                      /\ used * Height <= U32Max /\ peak > 0 =>
                           height = (used * Height) \div peak
<1> DEFINE m == model["a"]
           snaps == Snapshots("a")
           n == Len(snaps)
           S == {s.current_used : s \in ToSet(snaps)}
           used == [k \in 1..n |-> m.timeline[k].current_used]
           peak == LargestOf(used)
           avg == FoldLeft(LAMBDA x, u : x + u, 0, used) \div n
           columns == shown.bars
           snapOf(c) == SnapshotAt(c - 1, n) + 1
           bar(c) == [of |-> snapOf(c), height |-> Bar(used[snapOf(c)], peak)]
<1>1. /\ Len(m.timeline) = n /\ n \in Nat \ {0} /\ snaps \in Seq(Snapshot)
      /\ DOMAIN snaps = 1..n
      /\ \A i \in 1..n : /\ m.timeline[i].current_used = snaps[i].current_used
                         /\ snaps[i].current_used \in Word
  <2>1. "a" \in Run
    BY DEF Run
  <2>2. /\ Len(m.timeline) = n /\ n \in Nat /\ snaps \in Seq(Snapshot)
        /\ \A i \in 1..n : /\ m.timeline[i].current_used = snaps[i].current_used
                           /\ snaps[i].current_used \in Word
    BY <2>1, ViewRun
  <2>3. DOMAIN snaps = 1..n
    BY <2>2
  <2>4. n >= 2
    OBVIOUS
  <2> HIDE DEF m, snaps, n
  <2> QED
    BY <2>2, <2>3, <2>4
<1>2. Width \in Nat \ {0}
  BY MTV1TuiAssumption
<1>3. shown = [screen |-> "timeline", current |-> used[n], peak |-> peak, avg |-> avg,
               bars |-> [c \in 1..Width |-> bar(c)]]
  <2>1. ~(n < 2)
    BY <1>1
  <2> QED
    BY <1>1, <2>1, Zenon DEF Timeline
<1> HIDE DEF avg, bar, snapOf
<1>4. shown.peak = peak /\ columns = [c \in 1..Width |-> bar(c)]
  BY <1>3
<1> HIDE DEF columns
<1>5. \A c \in 1..Width : columns[c].of = snapOf(c) /\ columns[c].height = Bar(used[snapOf(c)], peak)
  BY <1>4 DEF bar
<1>6. /\ used \in Seq(Nat) /\ Len(used) = n
      /\ \A i \in 1..n : used[i] = snaps[i].current_used /\ used[i] \in Nat
  <2>1. \A i \in 1..n : used[i] = snaps[i].current_used /\ used[i] \in Nat
    BY <1>1, WordTyped
  <2>2. used \in [1..n -> Nat] /\ n \in Nat
    BY <1>1, <2>1
  <2> HIDE DEF used, n
  <2>3. used \in Seq(Nat) /\ Len(used) = n
    BY <2>2, TableSeq
  <2> QED
    BY <2>1, <2>3
<1>7. /\ peak \in {0} \cup {used[i] : i \in 1..n} /\ peak \in Nat
      /\ \A i \in 1..n : peak >= used[i]
  <2> HIDE DEF used
  <2> QED
    BY <1>6, LargestIs
<1> HIDE DEF used, peak, m
<1>8. Max(S) = peak
  <2>1. S = {used[i] : i \in 1..n}
    BY <1>1, <1>6 DEF ToSet
  <2>2. S \in SUBSET Int /\ \A y \in S : peak >= y
    <3>1. \A i \in 1..n : used[i] \in Int /\ peak >= used[i]
      BY <1>6, <1>7
    <3> HIDE DEF S, n
    <3> QED
      BY <2>1, <3>1
  <2>3. peak \in S
    <3>1. CASE peak = 0
      <4>1. 1 \in 1..n /\ used[1] \in Nat /\ peak >= used[1]
        BY <1>1, <1>6, <1>7
      <4>2. used[1] = 0
        BY <3>1, <4>1
      <4> QED
        BY <2>1, <3>1, <4>1, <4>2
    <3> QED
      BY <1>7, <2>1, <3>1
  <2> HIDE DEF S
  <2> QED
    BY <2>2, <2>3, MaxIs
<1> HIDE DEF snaps, n, S
<1>9. /\ SnapshotAt(0, n) = 0
      /\ \A i \in 0..(Width - 1) : /\ SnapshotAt(i, n) \in 0..(n - 1)
                                  /\ SnapshotAt(i, n) <= (i * n) \div Width
      /\ \A i, j \in 0..(Width - 1) :
           i <= j /\ j * n <= U32Max => SnapshotAt(i, n) <= SnapshotAt(j, n)
      /\ n <= Width /\ (Width - 1) * n <= U32Max =>
           \A k \in 0..(n - 1) : \E i \in 0..(Width - 1) : SnapshotAt(i, n) = k
  BY <1>1, ColumnsRun
<1>10. \A c \in 1..Width : c - 1 \in 0..(Width - 1) /\ snapOf(c) \in 1..n
  <2> TAKE c \in 1..Width
  <2>1. c - 1 \in 0..(Width - 1)
    BY <1>2
  <2>2. SnapshotAt(c - 1, n) \in 0..(n - 1)
    BY <1>9, <2>1
  <2> QED
    BY <1>1, <2>1, <2>2 DEF snapOf
<1>11. columns[1].of = 1
  <2>1. 1 \in 1..Width /\ 1 - 1 = 0
    BY <1>2
  <2>2. snapOf(1) = 1
    BY <1>9, <2>1 DEF snapOf
  <2> QED
    BY <1>5, <2>1, <2>2
<1>12. ASSUME NEW c \in 1..Width
      PROVE  columns[c].of \in 1..n /\ columns[c].of <= ((c - 1) * n) \div Width + 1
  <2> DEFINE i == c - 1
             q == (i * n) \div Width
  <2>1. i \in 0..(Width - 1) /\ columns[c].of \in 1..n /\ columns[c].of = SnapshotAt(i, n) + 1
    BY <1>5, <1>10 DEF snapOf
  <2>2. q \in Int
    BY <1>1, <1>2, <2>1, DivMod
  <2>3. SnapshotAt(i, n) <= q /\ SnapshotAt(i, n) \in Int
    BY <1>9, <2>1
  <2> HIDE DEF q
  <2>4. columns[c].of <= q + 1
    BY <2>1, <2>2, <2>3
  <2> QED
    BY <2>1, <2>4 DEF q
<1>13. ASSUME NEW c \in 2..Width, (c - 1) * n <= U32Max
       PROVE  columns[c - 1].of <= columns[c].of
  <2>1. c - 1 \in 1..Width /\ c \in 1..Width
    BY <1>2
  <2> DEFINE i == c - 1 - 1
             j == c - 1
  <2>2. i \in 0..(Width - 1) /\ j \in 0..(Width - 1) /\ i <= j /\ j * n <= U32Max
    BY <1>2, <1>13, <2>1
  <2>3. snapOf(c - 1) = SnapshotAt(i, n) + 1 /\ snapOf(c) = SnapshotAt(j, n) + 1
    BY DEF snapOf
  <2>4. columns[c - 1].of = snapOf(c - 1) /\ columns[c].of = snapOf(c)
    BY <1>5, <2>1
  <2> HIDE DEF i, j
  <2>5. SnapshotAt(i, n) <= SnapshotAt(j, n) /\ SnapshotAt(i, n) \in Int /\ SnapshotAt(j, n) \in Int
    BY <1>9, <2>2
  <2>6. snapOf(c - 1) <= snapOf(c)
    BY <2>3, <2>5
  <2> QED
    BY <2>4, <2>6
<1>14. ASSUME n <= Width, (Width - 1) * n <= U32Max
       PROVE  {columns[c].of : c \in 1..Width} = 1..n
  <2>1. \A c \in 1..Width : columns[c].of \in 1..n
    BY <1>5, <1>10
  <2>2. ASSUME NEW k \in 1..n
        PROVE  \E c \in 1..Width : columns[c].of = k
    <3>1. k - 1 \in 0..(n - 1) /\ k \in Int
      BY <1>1
    <3>2. PICK i \in 0..(Width - 1) : SnapshotAt(i, n) = k - 1
      BY <1>9, <1>14, <3>1
    <3>3. i + 1 \in 1..Width /\ (i + 1) - 1 = i
      BY <1>2
    <3>4. snapOf(i + 1) = k
      BY <3>1, <3>2, <3>3 DEF snapOf
    <3> QED
      BY <1>5, <3>3, <3>4
  <2> QED
    BY <2>1, <2>2
<1>15. ASSUME NEW c \in 1..Width
       PROVE  LET val    == snaps[columns[c].of].current_used
                  height == columns[c].height
              IN  /\ height <= Height /\ height * peak <= val * Height
                  /\ val * Height <= U32Max /\ peak > 0 =>
                       height = (val * Height) \div peak
  <2> DEFINE val == snaps[columns[c].of].current_used
  <2>1. snapOf(c) \in 1..n /\ columns[c].of = snapOf(c) /\ columns[c].height = Bar(used[snapOf(c)], peak)
    BY <1>5, <1>10
  <2>2. val = used[snapOf(c)] /\ used[snapOf(c)] \in Nat /\ peak >= used[snapOf(c)]
    BY <1>6, <1>7, <2>1
  <2> HIDE DEF val
  <2>3. val \in Nat /\ val <= peak /\ columns[c].height = Bar(val, peak)
    BY <1>7, <2>1, <2>2
  <2>4. /\ Bar(val, peak) <= Height /\ Bar(val, peak) * peak <= val * Height
        /\ val * Height <= U32Max /\ peak > 0 => Bar(val, peak) = (val * Height) \div peak
    BY <1>7, <2>3, BarBounds
  <2> QED
    BY <2>3, <2>4 DEF val
<1>16. shown.peak = Max(S)
  BY <1>4, <1>8
<1> QED
  BY <1>8, <1>11, <1>12, <1>13, <1>14, <1>15, <1>16 DEF snaps, n, S, columns

-----------------------------------------------------------------------------
(* The buckets of the heatmap *)

Buckets == 1..(Len(BucketLimits) + 1)

BucketsType == [Buckets -> [allocs : Word, bytes : Word]]

(* What the label of bucket k says of a size *)
Labelled(k, size) ==
  /\ k > 1 => size >= BucketLimits[k - 1]
  /\ k <= Len(BucketLimits) => size < BucketLimits[k]

(* The limits of the buckets grow. *)
LEMMA LimitsSorted ==
  /\ Len(BucketLimits) \in Nat /\ DOMAIN BucketLimits = 1..Len(BucketLimits)
  /\ \A j \in 1..Len(BucketLimits) : BucketLimits[j] \in Nat
  /\ \A i, j \in 1..Len(BucketLimits) : i < j => BucketLimits[i] < BucketLimits[j]
<1>1. BucketLimits \in Seq(Nat)
  BY MTV1TuiAssumption
<1>2. \A i, j \in 1..Len(BucketLimits) : i < j => BucketLimits[i] < BucketLimits[j]
  BY MTV1TuiAssumption DEF IsSorted
<1> QED
  BY <1>1, <1>2

(* A size is in the bucket that is labelled with it, and in no other. *)
LEMMA BucketLabelled ==
  ASSUME NEW size \in Nat
  PROVE  /\ Bucket(size) \in Buckets
         /\ \A k \in Buckets : Bucket(size) = k <=> Labelled(k, size)
<1> DEFINE l == Len(BucketLimits)
           T == {j \in 1..l : size >= BucketLimits[j]}
<1>1. /\ l \in Nat /\ \A j \in 1..l : BucketLimits[j] \in Nat
      /\ \A i, j \in 1..l : i < j => BucketLimits[i] < BucketLimits[j]
  BY LimitsSorted
<1>2. DOMAIN BucketLimits = 1..l
  BY LimitsSorted
<1>3. Bucket(size) = 1 + Cardinality(T)
  BY <1>2 DEF Bucket
<1>4. ASSUME NEW k \in Buckets, Labelled(k, size)
      PROVE  Bucket(size) = k
  <2>1. k \in Nat /\ 1 <= k /\ k <= l + 1
    BY <1>1 DEF Buckets
  <2>2. ASSUME NEW j \in 1..l
        PROVE  size >= BucketLimits[j] <=> j \in 1..(k - 1)
    <3>1. CASE j < k - 1
      <4>1. k - 1 \in 1..l /\ k > 1
        BY <1>1, <2>1, <3>1
      <4>2. BucketLimits[j] < BucketLimits[k - 1] /\ size >= BucketLimits[k - 1]
        BY <1>1, <1>4, <3>1, <4>1 DEF Labelled
      <4>3. BucketLimits[j] \in Int /\ BucketLimits[k - 1] \in Int
        BY <1>1, <4>1
      <4> QED
        BY <2>1, <3>1, <4>2, <4>3
    <3>2. CASE j = k - 1
      <4>1. k > 1 /\ size >= BucketLimits[k - 1]
        BY <1>1, <1>4, <2>1, <3>2 DEF Labelled
      <4> QED
        BY <2>1, <3>2, <4>1
    <3>3. CASE j = k
      <4>1. size < BucketLimits[k] /\ BucketLimits[j] \in Int
        BY <1>1, <1>4, <3>3 DEF Labelled
      <4> QED
        BY <2>1, <3>3, <4>1
    <3>4. CASE j > k
      <4>1. k \in 1..l
        BY <1>1, <2>1, <3>4
      <4>2. size < BucketLimits[k] /\ BucketLimits[k] < BucketLimits[j]
        BY <1>1, <1>4, <3>4, <4>1 DEF Labelled
      <4>3. BucketLimits[j] \in Int /\ BucketLimits[k] \in Int
        BY <1>1, <4>1
      <4> QED
        BY <2>1, <3>4, <4>2, <4>3
    <3> QED
      BY <2>1, <3>1, <3>2, <3>3, <3>4
  <2>3. T = 1..(k - 1)
    <3>1. \A j \in 1..(k - 1) : j \in 1..l
      BY <1>1, <2>1
    <3> QED
      BY <2>2, <3>1
  <2>4. Cardinality(1..(k - 1)) = k - 1
    <3> DEFINE c == k - 1
    <3>1. 1 \in Int /\ c \in Int /\ c \in Nat
      BY <2>1
    <3> HIDE DEF c
    <3>2. Cardinality(1..c) = IF 1 > c THEN 0 ELSE c - 1 + 1
      BY <3>1, FS_Interval
    <3>3. Cardinality(1..c) = c
      BY <3>1, <3>2
    <3> QED
      BY <3>3 DEF c
  <2> HIDE DEF T
  <2> QED
    BY <1>3, <2>1, <2>3, <2>4
<1>5. \E k \in Buckets : Labelled(k, size)
  <2>1. T \in SUBSET (0..l)
    BY <1>1
  <2>2. CASE T = {}
    <3>1. 1 \in Buckets
      BY <1>1 DEF Buckets
    <3>2. 1 <= l => size < BucketLimits[1]
      <4>1. 1 <= l => 1 \in 1..l /\ BucketLimits[1] \in Int
        BY <1>1
      <4> QED
        BY <2>2, <4>1
    <3> QED
      BY <3>1, <3>2 DEF Labelled
  <2>3. CASE T # {}
    <3> DEFINE j == Max(T)
    <3>1. j \in T /\ \A y \in T : j >= y
      <4> HIDE DEF T
      <4> QED
        BY <1>1, <2>1, <2>3, MaxIn
    <3> HIDE DEF j
    <3>2. j \in 1..l /\ size >= BucketLimits[j]
      BY <3>1
    <3>3. j + 1 \in Buckets /\ (j + 1) - 1 = j /\ j \in Nat
      BY <1>1, <3>2 DEF Buckets
    <3>4. j + 1 <= l => size < BucketLimits[j + 1]
      <4>1. j + 1 <= l => j + 1 \in 1..l /\ j + 1 \notin T
        BY <1>1, <3>1, <3>2, <3>3
      <4>2. j + 1 <= l => BucketLimits[j + 1] \in Int
        BY <1>1, <4>1
      <4> QED
        BY <4>1, <4>2
    <3> QED
      BY <3>2, <3>3, <3>4 DEF Labelled
  <2> QED
    BY <2>2, <2>3
<1> QED
  BY <1>4, <1>5

(* The records among the first i whose sizes are in bucket k *)
FirstIn(records, i, k) == {j \in 1..i : Bucket(records[j].size) = k}

SizesOf(records) == [j \in DOMAIN records |-> records[j].size]

(* The buckets count the first i records. *)
CountFirst(b, records, i) ==
  /\ b \in BucketsType
  /\ \A k \in Buckets :
       /\ b[k].allocs = Trunc(Cardinality(FirstIn(records, i, k)))
       /\ b[k].bytes = Trunc(Total(SizesOf(records), FirstIn(records, i, k)))

(* One more record of the heatmap: its bucket's counters move, no other. *)
LEMMA CountTyped ==
  ASSUME NEW b \in BucketsType, NEW r, r.size \in Word
  PROVE  LET k == Bucket(r.size)
         IN  /\ Count(b, r) \in BucketsType /\ k \in Buckets
             /\ Count(b, r)[k].allocs = Inc(b[k].allocs)
             /\ Count(b, r)[k].bytes = Trunc(b[k].bytes + r.size)
             /\ \A j \in Buckets \ {k} : Count(b, r)[j] = b[j]
<1> DEFINE k == Bucket(r.size)
           V == [allocs : Word, bytes : Word]
           v == [allocs |-> Inc(b[k].allocs), bytes |-> Trunc(b[k].bytes + r.size)]
<1>1. k \in Buckets
  <2>1. r.size \in Nat
    BY WordTyped
  <2> QED
    BY <2>1, BucketLabelled
<1>2. b[k] \in V
  BY <1>1 DEF BucketsType
<1>3. b[k].allocs \in Word /\ b[k].bytes \in Word
  BY <1>2
<1>4. Inc(b[k].allocs) \in Word /\ Trunc(b[k].bytes + r.size) \in Word
  <2>1. b[k].bytes + r.size \in Int
    <3>1. b[k].bytes \in Int /\ r.size \in Int
      BY <1>3, WordTyped
    <3> QED
      BY <3>1
  <2> QED
    BY <1>3, <2>1, WordTyped, TruncAdds
<1>5. Count(b, r) = [b EXCEPT ![k] = v]
  BY DEF Count
<1>6. v \in V /\ v.allocs = Inc(b[k].allocs) /\ v.bytes = Trunc(b[k].bytes + r.size)
  BY <1>4
<1> HIDE DEF v, k, V
<1>7. b \in [Buckets -> V]
  BY DEF BucketsType, V
<1>8. /\ [b EXCEPT ![k] = v] \in [Buckets -> V] /\ [b EXCEPT ![k] = v][k] = v
      /\ \A j \in Buckets \ {k} : [b EXCEPT ![k] = v][j] = b[j]
  BY <1>1, <1>6, <1>7
<1> QED
  BY <1>1, <1>5, <1>6, <1>8 DEF BucketsType, V, k

(* Before the first record every bucket is empty. *)
LEMMA NothingCounted ==
  ASSUME NEW records
  PROVE  CountFirst(NoBuckets, records, 0)
<1>1. NoBuckets \in BucketsType
  <2>1. 0 \in Word
    BY WordTyped
  <2> QED
    BY <2>1 DEF NoBuckets, BucketsType, Buckets
<1>2. ASSUME NEW k \in Buckets
      PROVE  /\ NoBuckets[k].allocs = Trunc(Cardinality(FirstIn(records, 0, k)))
             /\ NoBuckets[k].bytes = Trunc(Total(SizesOf(records), FirstIn(records, 0, k)))
  <2>1. FirstIn(records, 0, k) = {}
    <3>1. 1..0 = {}
      OBVIOUS
    <3> QED
      BY <3>1 DEF FirstIn
  <2>2. Cardinality({}) = 0 /\ IsFiniteSet({})
    BY FS_EmptySet
  <2> DEFINE f == SizesOf(records)
             S == {}
  <2>3. IsFiniteSet(S) /\ \A x \in S : f[x] \in Int
    BY <2>2
  <2> HIDE DEF f, S
  <2>4. Total(f, {}) = 0
    BY <2>3, TotalUnfolds
  <2>5. Trunc(0) = 0
    BY WordTyped, TruncAdds
  <2>6. NoBuckets[k] = [allocs |-> 0, bytes |-> 0]
    BY DEF NoBuckets, Buckets
  <2> QED
    BY <2>1, <2>2, <2>4, <2>5, <2>6 DEF f
<1> QED
  BY <1>1, <1>2 DEF CountFirst

(* One more record counted keeps the buckets exact for the records so far. *)
LEMMA OneCounted ==
  ASSUME NEW records \in Seq(Records), SizesAreWords, NEW i \in 1..Len(records),
         NEW b, CountFirst(b, records, i - 1)
  PROVE  CountFirst(Count(b, records[i]), records, i)
<1> DEFINE r == records[i]
           q == Bucket(r.size)
           c == Count(b, r)
           f == SizesOf(records)
           P(k) == FirstIn(records, i - 1, k)
           R(k) == FirstIn(records, i, k)
<1>1. /\ i \in Nat /\ i - 1 \in Nat /\ i \notin 1..(i - 1) /\ 1..i = (1..(i - 1)) \cup {i}
      /\ \A j \in 1..i : j \in DOMAIN records /\ records[j] \in Records
  OBVIOUS
<1>2. \A j \in 1..i : records[j].size \in Word
  BY <1>1 DEF SizesAreWords
<1>3. r.size \in Word
  BY <1>2
<1>4. \A j \in 1..i : f[j] = records[j].size /\ f[j] \in Int
  BY <1>1, <1>2, WordTyped DEF SizesOf
<1>5. b \in BucketsType
  BY DEF CountFirst
<1>6. /\ c \in BucketsType /\ q \in Buckets
      /\ c[q].allocs = Inc(b[q].allocs) /\ c[q].bytes = Trunc(b[q].bytes + r.size)
      /\ \A k \in Buckets \ {q} : c[k] = b[k]
  BY <1>3, <1>5, CountTyped
<1>7. \A k \in Buckets :
        /\ b[k].allocs = Trunc(Cardinality(P(k))) /\ b[k].bytes = Trunc(Total(f, P(k)))
  BY DEF CountFirst
<1>8. i \in R(q) /\ R(q) \ {i} = P(q) /\ R(q) = P(q) \cup {i} /\ i \notin P(q)
  BY <1>1 DEF FirstIn
<1>9. \A k \in Buckets \ {q} : R(k) = P(k)
  BY <1>1 DEF FirstIn
<1>10. IsFiniteSet(P(q)) /\ IsFiniteSet(R(q))
  <2>1. 1 \in Int /\ i \in Int
    BY <1>1
  <2>2. IsFiniteSet(1..i)
    BY <2>1, FS_Interval
  <2>3. P(q) \in SUBSET (1..i) /\ R(q) \in SUBSET (1..i)
    BY <1>1 DEF FirstIn
  <2> QED
    BY <2>2, <2>3, FS_Subset
<1>11. \A j \in R(q) : f[j] \in Int
  BY <1>4 DEF FirstIn
<1> HIDE DEF c, f, P, R, q
<1>12. Cardinality(R(q)) = Cardinality(P(q)) + 1 /\ Cardinality(P(q)) \in Int
  <2>1. Cardinality(P(q)) \in Nat
    BY <1>10, FS_CardinalityType
  <2> QED
    BY <1>8, <1>10, <2>1, FS_AddElement
<1>13. Total(f, R(q)) = f[i] + Total(f, P(q)) /\ Total(f, P(q)) \in Int /\ f[i] \in Int
  <2>1. Total(f, R(q)) = f[i] + Total(f, R(q) \ {i})
    <3>1. \A x \in R(q) : Total(f, R(q)) = f[x] + Total(f, R(q) \ {x})
      BY <1>10, <1>11, TotalPeels
    <3> QED
      BY <1>8, <3>1
  <2>2. \A j \in P(q) : f[j] \in Int
    BY <1>8, <1>11
  <2>3. Total(f, P(q)) \in Int
    BY <1>10, <2>2, TotalPeels
  <2> QED
    BY <1>8, <1>11, <2>1, <2>3
<1>14. c[q].allocs = Trunc(Cardinality(R(q)))
  BY <1>6, <1>7, <1>12, TruncAdds
<1>15. c[q].bytes = Trunc(Total(f, R(q)))
  <2>1. r.size = f[i] /\ r.size \in Int
    BY <1>1, <1>4, <1>13
  <2>2. Trunc(Trunc(Total(f, P(q))) + r.size) = Trunc(Total(f, P(q)) + r.size)
    BY <1>13, <2>1, TruncAdds
  <2>3. Total(f, P(q)) + r.size = Total(f, R(q))
    BY <1>13, <2>1
  <2>4. b[q].bytes = Trunc(Total(f, P(q)))
    BY <1>6, <1>7
  <2> QED
    BY <1>6, <2>2, <2>3, <2>4
<1>16. ASSUME NEW k \in Buckets
       PROVE  c[k].allocs = Trunc(Cardinality(R(k))) /\ c[k].bytes = Trunc(Total(f, R(k)))
  <2>1. CASE k = q
    BY <1>14, <1>15, <2>1
  <2>2. CASE k # q
    BY <1>6, <1>7, <1>9, <2>2
  <2> QED
    BY <2>1, <2>2
<1> QED
  BY <1>6, <1>16 DEF CountFirst, c, f, R

(* All records of the snapshot are counted. *)
LEMMA RecordsCounted ==
  ASSUME NEW records \in Seq(Records), SizesAreWords
  PROVE  CountFirst(FoldLeft(Count, NoBuckets, records), records, Len(records))
<1> DEFINE n == Len(records)
           A == BucketsType
           F == [p \in A \X (1..n) |-> Count(p[1], records[p[2]])]
           Fold(g) == g = [s \in SUBSET (1..n) |->
                             IF s = {} THEN NoBuckets
                             ELSE Count(g[s \ {Max(s)}], records[Max(s)])]
<1>1. /\ n \in Nat /\ DOMAIN records = 1..n
      /\ \A i \in 1..n : records[i] \in Records /\ records[i].size \in Word
  BY DEF SizesAreWords
<1>2. FoldLeft(Count, NoBuckets, records) = (CHOOSE g : Fold(g))[1..n]
  BY <1>1 DEF FoldLeft, MapThenFoldSet
<1>3. F \in [A \X (1..n) -> A]
  <2>1. ASSUME NEW b \in A, NEW i \in 1..n
        PROVE  Count(b, records[i]) \in A
    BY <1>1, CountTyped
  <2> HIDE DEF A
  <2> QED
    BY <2>1
<1> HIDE DEF A
<1>4. \A b \in A, i \in 1..n : F[<<b, i>>] = Count(b, records[i])
  OBVIOUS
<1>5. NoBuckets \in A /\ CountFirst(NoBuckets, records, 0)
  BY NothingCounted DEF CountFirst, A
<1> HIDE DEF F
<1>6. PICK g \in [SUBSET (1..n) -> A] : IsLeftFold(g, n, NoBuckets, F)
  BY <1>1, <1>3, <1>5, LeftFoldExists
<1>7. \A s \in SUBSET (1..n) : s # {} => Max(s) \in 1..n /\ s \ {Max(s)} \in SUBSET (1..n)
  <2> TAKE s \in SUBSET (1..n)
  <2>1. s \in SUBSET (0..n)
    BY <1>1
  <2> QED
    BY <1>1, <2>1, MaxIn
<1>8. Fold(g)
  <2>1. ASSUME NEW s \in SUBSET (1..n)
        PROVE  g[s] = IF s = {} THEN NoBuckets
                      ELSE Count(g[s \ {Max(s)}], records[Max(s)])
    BY <1>4, <1>6, <1>7 DEF IsLeftFold
  <2> QED
    BY <2>1
<1>9. PICK h : h = (CHOOSE q : Fold(q)) /\ Fold(h)
  BY <1>8
<1>10. IsTrace(h, n, A, NoBuckets, F)
  <2>1. \A s \in SUBSET (1..n) :
          h[s] = IF s = {} THEN NoBuckets ELSE Count(h[s \ {Max(s)}], records[Max(s)])
    <3> TAKE s \in SUBSET (1..n)
    <3> QED
      BY <1>9
  <2>2. h[{}] = NoBuckets
    BY <2>1
  <2>3. ASSUME NEW s \in SUBSET (1..n), s # {}, h[s \ {Max(s)}] \in A
        PROVE  h[s] = F[<<h[s \ {Max(s)}], Max(s)>>]
    BY <1>4, <1>7, <2>1, <2>3
  <2> QED
    BY <2>2, <2>3 DEF IsTrace
<1>11. PICK tr \in [0..n -> A] : IsChain(tr, n, NoBuckets, F) /\ tr[n] = h[1..n]
  <2>1. n \in Nat /\ Steps(n, A, F)
    BY <1>1, <1>3 DEF Steps
  <2> HIDE DEF n, Fold
  <2>2. HasChain(h, n, A, NoBuckets, F)
    BY <1>5, <1>10, <2>1, FoldTrace
  <2> QED
    BY <2>2 DEF HasChain
<1>12. tr[0] = NoBuckets /\ \A i \in 1..n : tr[i] = Count(tr[i - 1], records[i])
  <2>1. tr[0] = NoBuckets
    BY <1>11 DEF IsChain
  <2>2. ASSUME NEW i \in 1..n
        PROVE  tr[i] = Count(tr[i - 1], records[i])
    <3>1. i - 1 \in 0..n
      BY <1>1
    <3>2. tr[i - 1] \in A /\ tr[i] = F[<<tr[i - 1], i>>]
      BY <1>11, <3>1 DEF IsChain
    <3> QED
      BY <1>4, <3>2
  <2> QED
    BY <2>1, <2>2
<1> DEFINE G == {i \in Nat : CountFirst(tr[i], records, i)}
<1>13. n \in G
  <2>1. 0 \in G
    BY <1>5, <1>12
  <2>2. ASSUME NEW i \in 1..n, i - 1 \in G
        PROVE  i \in G
    <3>1. CountFirst(tr[i - 1], records, i - 1) /\ i \in Nat
      BY <1>1, <2>2
    <3>2. CountFirst(Count(tr[i - 1], records[i]), records, i)
      BY <3>1, OneCounted
    <3> QED
      BY <1>12, <3>1, <3>2
  <2> HIDE DEF G
  <2>3. n \in 0..n
    BY <1>1
  <2> QED
    BY <1>1, <2>1, <2>2, <2>3, UpTo
<1>14. FoldLeft(Count, NoBuckets, records) = tr[n]
  BY <1>2, <1>9, <1>11
<1> QED
  BY <1>13, <1>14

(* A longest bar is as long as there is room.                                *)
LEMMA LongestBar ==
  ASSUME NEW records \in Seq(Records), SizesAreWords, records # <<>>,
         Len(records) * BarWidth <= U32Max,
         NEW b, CountFirst(b, records, Len(records)),
         NEW counts, counts = [k \in DOMAIN b |-> b[k].allocs],
         NEW bars, bars = [k \in DOMAIN counts |-> BarLen(counts[k], LargestOf(counts))]
  PROVE  Max(Range(bars)) = BarWidth
<1> DEFINE n == Len(records)
           W == BarWidth
           l == Len(BucketLimits) + 1
           max == LargestOf(counts)
           S == Range(bars)
<1>1. n \in Nat \ {0} /\ W \in Nat /\ l \in Nat \ {0} /\ Buckets = 1..l
  <2>1. W \in Nat
    BY MTV1TuiAssumption
  <2>2. l \in Nat \ {0} /\ Buckets = 1..l
    BY LimitsSorted DEF Buckets
  <2> QED
    BY <2>1, <2>2
<1>2. /\ DOMAIN b = 1..l /\ DOMAIN counts = 1..l /\ DOMAIN bars = 1..l
      /\ \A k \in 1..l : /\ counts[k] = Trunc(Cardinality(FirstIn(records, n, k)))
                         /\ bars[k] = BarLen(counts[k], max)
  BY <1>1 DEF CountFirst, BucketsType
<1>3. \A k \in 1..l : /\ IsFiniteSet(FirstIn(records, n, k))
                      /\ Cardinality(FirstIn(records, n, k)) \in 0..n
  <2> TAKE k \in 1..l
  <2>1. 1 \in Int /\ n \in Int
    BY <1>1
  <2> HIDE DEF n
  <2>2. IsFiniteSet(1..n) /\ Cardinality(1..n) = IF 1 > n THEN 0 ELSE n - 1 + 1
    BY <2>1, FS_Interval
  <2>3. Cardinality(1..n) = n
    BY <1>1, <2>2
  <2>4. FirstIn(records, n, k) \in SUBSET (1..n)
    BY DEF FirstIn
  <2>5. /\ IsFiniteSet(FirstIn(records, n, k))
        /\ Cardinality(FirstIn(records, n, k)) <= Cardinality(1..n)
    BY <2>2, <2>4, FS_Subset
  <2>6. Cardinality(FirstIn(records, n, k)) \in Nat
    BY <2>5, FS_CardinalityType
  <2> QED
    BY <1>1, <2>3, <2>5, <2>6
<1>4. \A k \in 1..l : counts[k] \in Nat /\ counts[k] <= n
  <2> TAKE k \in 1..l
  <2> DEFINE c == Cardinality(FirstIn(records, n, k))
  <2>1. c \in Nat /\ c <= n /\ counts[k] = Trunc(c)
    BY <1>1, <1>2, <1>3
  <2> HIDE DEF c
  <2>2. Trunc(c) \in Nat /\ Trunc(c) <= c
    BY <2>1, TruncBelow
  <2> HIDE DEF n
  <2> QED
    BY <1>1, <2>1, <2>2
<1>5. counts \in Seq(Nat) /\ Len(counts) = l
  <2>1. counts \in [1..l -> Nat] /\ l \in Nat
    BY <1>1, <1>2, <1>4
  <2> HIDE DEF l
  <2> QED
    BY <2>1, TableSeq
<1>6. /\ max \in {0} \cup {counts[k] : k \in 1..l} /\ max \in Nat
      /\ \A k \in 1..l : max >= counts[k]
  <2> HIDE DEF l
  <2> QED
    BY <1>5, LargestIs
<1> HIDE DEF n, l, max
<1>7. S = {bars[k] : k \in 1..l}
  BY <1>2 DEF Range
<1>8. CASE W = 0
  <2>1. ASSUME NEW k \in 1..l
        PROVE  bars[k] = 0
    <3> DEFINE c == counts[k]
    <3>1. c \in Nat /\ bars[k] = BarLen(c, max)
      BY <1>2, <1>4
    <3> HIDE DEF c
    <3>2. BarLen(c, max) = IF max > 0 THEN Trunc(c * W) \div max ELSE 0
      BY DEF BarLen
    <3>3. c * W = 0 /\ Trunc(0) = 0
      BY <1>8, <3>1, WordTyped, TruncAdds
    <3>4. max > 0 => 0 \div max = 0
      BY <1>6
    <3>5. BarLen(c, max) = IF max > 0 THEN 0 \div max ELSE 0
      BY <3>2, <3>3
    <3> QED
      BY <3>1, <3>4, <3>5
  <2>2. 1 \in 1..l
    BY <1>1
  <2>3. S = {0}
    BY <1>7, <2>1, <2>2
  <2>4. S \in SUBSET Int /\ 0 \in S /\ \A y \in S : 0 >= y
    BY <2>3
  <2> HIDE DEF S
  <2>5. Max(S) = 0
    BY <2>4, MaxIs
  <2> QED
    BY <1>8, <2>5 DEF S
<1>9. CASE W # 0
  <2>1. n <= U32Max
    <3>1. n * 1 <= n * W /\ n * 1 = n
      BY <1>1, <1>9, ProductMonotone
    <3> DEFINE p == n * W
    <3>2. p <= U32Max /\ p \in Int
      BY <1>1 DEF n
    <3>3. n <= p
      BY <3>1
    <3> HIDE DEF p
    <3> QED
      BY <1>1, <3>2, <3>3, U32Assumption
  <2>2. PICK k \in 1..l : counts[k] > 0
    <3> DEFINE q == Bucket(records[1].size)
               c == Cardinality(FirstIn(records, n, q))
    <3>1. 1 \in 1..n /\ records[1] \in Records
      BY <1>1 DEF n
    <3>2. records[1].size \in Word
      BY <3>1 DEF SizesAreWords
    <3>2a. records[1].size \in Nat
      BY <3>2, WordTyped
    <3>3. q \in 1..l
      BY <1>1, <3>2a, BucketLabelled
    <3>4. 1 \in FirstIn(records, n, q)
      BY <3>1 DEF FirstIn
    <3> HIDE DEF q
    <3>5. c # 0 /\ c \in 0..n
      <4>1. IsFiniteSet(FirstIn(records, n, q))
        BY <1>3, <3>3
      <4>2. FirstIn(records, n, q) # {}
        BY <3>4
      <4> QED
        BY <1>3, <3>3, <4>1, <4>2, FS_EmptySet
    <3> HIDE DEF c
    <3>6. c \in Word /\ c > 0 /\ c \in Int
      BY <1>1, <2>1, <3>5, U32Assumption DEF Word
    <3>7. Trunc(c) = c
      BY <3>6, TruncAdds
    <3> QED
      BY <1>2, <3>3, <3>6, <3>7 DEF c
  <2>3. max > 0
    <3>1. counts[k] \in Nat /\ max >= counts[k]
      BY <1>4, <1>6
    <3> QED
      BY <1>6, <2>2, <3>1
  <2>4. PICK j \in 1..l : max = counts[j]
    BY <1>6, <2>3
  <2>5. max \in Nat \ {0} /\ max <= n
    <3>1. counts[j] <= n
      BY <1>4
    <3>2. max <= n
      BY <2>4, <3>1
    <3> QED
      BY <1>6, <2>3, <3>2
  <2>6. max * W <= U32Max
    <3>1. W * max <= W * n /\ W * max = max * W /\ W * n = n * W
      BY <1>1, <2>5, ProductMonotone
    <3> DEFINE x == max * W
               y == n * W
    <3>2. x \in Int /\ y \in Int /\ y <= U32Max /\ x <= y
      BY <1>1, <2>5, <3>1 DEF n
    <3> HIDE DEF x, y
    <3>3. x <= U32Max
      BY <3>2, U32Assumption
    <3> QED
      BY <3>3 DEF x
  <2>7. \A i \in 1..l : bars[i] \in Int /\ bars[i] <= W
    <3> TAKE i \in 1..l
    <3> DEFINE c == counts[i]
    <3>1. c \in Nat /\ c <= max /\ bars[i] = BarLen(c, max)
      BY <1>2, <1>4, <1>6
    <3> HIDE DEF c
    <3> QED
      BY <2>5, <2>6, <3>1, BarLengths
  <2>8. bars[j] = W
    <3>1. bars[j] = BarLen(max, max)
      BY <1>2, <2>4
    <3>2. max \in Nat /\ max <= max
      BY <2>5
    <3> QED
      BY <2>5, <2>6, <3>1, <3>2, BarLengths
  <2>9. S \in SUBSET Int /\ W \in S /\ \A y \in S : W >= y
    BY <1>1, <1>7, <2>7, <2>8
  <2> HIDE DEF S
  <2>10. Max(S) = W
    BY <2>9, MaxIs
  <2> QED
    BY <2>10 DEF S
<1> QED
  BY <1>8, <1>9

(* What the heatmap shows of sizes *)
LEMMA HeatmapTrue ==
  ASSUME ViewInv, cmd = "replay", shown = Heatmap(model["a"], "size"), shown.mode = "size"
  PROVE  LET snaps == Snapshots("a")
         IN  /\ \A k \in DOMAIN shown.buckets :
                LET records == Last(snaps).records
                    sizes   == [i \in DOMAIN records |-> records[i].size]
                IN  /\ shown.buckets[k].allocs = Trunc(Cardinality(InBucket(k)))
                    /\ shown.buckets[k].bytes =
                         Trunc(SumFunctionOnSet(sizes, InBucket(k)))
             /\ Last(snaps).records # <<>> /\ Len(Last(snaps).records) * BarWidth <= U32Max =>
                  Max(Range(shown.bars)) = BarWidth
<1> DEFINE m == model["a"]
           snaps == Snapshots("a")
           records == Last(snaps).records
           b == FoldLeft(Count, NoBuckets, Last1(m.last_snapshot).records)
           counts == [k \in DOMAIN b |-> b[k].allocs]
           bars == [k \in DOMAIN counts |-> BarLen(counts[k], LargestOf(counts))]
<1>1. "a" \in Run /\ snaps \in Seq(Snapshot) /\ m.last_snapshot = LastOf(snaps)
  <2>1. "a" \in Run
    BY DEF Run
  <2>2. IsModelOf(m, snaps)
    BY <2>1 DEF ViewInv, Snapshots
  <2>3. snaps \in Seq(Snapshot)
    BY <2>1, ViewRun
  <2> QED
    BY <2>1, <2>2, <2>3 DEF IsModelOf
<1>2. m.last_snapshot # <<>>
  <2>1. ASSUME m.last_snapshot = <<>>
        PROVE  FALSE
    <3>1. shown = [screen |-> "heatmap", mode |-> "none"]
      BY <2>1 DEF Heatmap
    <3> QED
      BY <3>1
  <2> QED
    BY <2>1
<1>3. shown = [screen |-> "heatmap", mode |-> "size", buckets |-> b, bars |-> bars]
  <2>1. shown = IF m.last_snapshot = <<>> THEN [screen |-> "heatmap", mode |-> "none"]
                ELSE [screen |-> "heatmap", mode |-> "size", buckets |-> b, bars |-> bars]
    <3>1. "size" # "callsite"
      OBVIOUS
    <3> QED
      BY <3>1, Zenon DEF Heatmap
  <2> HIDE DEF b, bars
  <2> QED
    BY <1>2, <2>1
<1>4. snaps # <<>> /\ m.last_snapshot = <<Last1(snaps)>>
  BY <1>1, <1>2 DEF LastOf
<1>5. Last1(m.last_snapshot).records = records
  BY <1>4 DEF Last1, Last
<1>6. records \in Seq(Records) /\ SizesAreWords
  <2>1. Last(snaps) \in Snapshot
    BY <1>1, <1>4 DEF Last
  <2> QED
    BY <2>1, SnapshotsTyped
<1> HIDE DEF counts, bars
<1>7. /\ shown.buckets = b /\ shown.bars = bars
      /\ b = FoldLeft(Count, NoBuckets, records)
  BY <1>3, <1>5
<1> HIDE DEF b, records, snaps, m
<1>8. CountFirst(b, records, Len(records))
  BY <1>6, <1>7, RecordsCounted
<1>9. DOMAIN b = Buckets
  BY <1>8 DEF CountFirst, BucketsType
<1>10. ASSUME NEW k \in Buckets
       PROVE  FirstIn(records, Len(records), k) = InBucket(k)
  <2>1. DOMAIN records = 1..Len(records)
    BY <1>6
  <2>2. InBucket(k) = {i \in 1..Len(records) : Labelled(k, records[i].size)}
    BY <2>1 DEF InBucket, Labelled, records, snaps
  <2>3. \A i \in 1..Len(records) : records[i].size \in Nat
    <3>1. \A i \in 1..Len(records) : records[i] \in Records
      BY <1>6
    <3>2. \A i \in 1..Len(records) : records[i].size \in Word
      BY <1>6, <3>1 DEF SizesAreWords
    <3> QED
      BY <3>2, WordTyped
  <2>4. \A i \in 1..Len(records) :
          Bucket(records[i].size) = k <=> Labelled(k, records[i].size)
    BY <2>3, BucketLabelled
  <2> QED
    BY <2>2, <2>4 DEF FirstIn
<1>11. ASSUME NEW k \in DOMAIN shown.buckets
       PROVE  /\ shown.buckets[k].allocs = Trunc(Cardinality(InBucket(k)))
              /\ shown.buckets[k].bytes =
                   Trunc(SumFunctionOnSet([i \in DOMAIN records |-> records[i].size],
                                          InBucket(k)))
  <2> DEFINE T == InBucket(k)
             f == SizesOf(records)
  <2>1. k \in Buckets /\ shown.buckets[k] = b[k]
    BY <1>7, <1>9
  <2>2. /\ b[k].allocs = Trunc(Cardinality(T)) /\ b[k].bytes = Trunc(Total(f, T))
    BY <1>8, <1>10, <2>1 DEF CountFirst
  <2>3. SumFunctionOnSet(f, T) = Total(f, T)
    <3> HIDE DEF f, T
    <3> QED
      BY SumTotal DEF SumIs
  <2> QED
    BY <2>1, <2>2, <2>3 DEF SizesOf
<1>12. ASSUME records # <<>>, Len(records) * BarWidth <= U32Max
       PROVE  Max(Range(shown.bars)) = BarWidth
  <2>1. Max(Range(bars)) = BarWidth
    <3>1. counts = [k \in DOMAIN b |-> b[k].allocs]
      BY DEF counts
    <3>2. bars = [k \in DOMAIN counts |-> BarLen(counts[k], LargestOf(counts))]
      BY DEF bars
    <3> QED
      BY <1>6, <1>8, <1>12, <3>1, <3>2, LongestBar
  <2> QED
    BY <1>7, <2>1
<1> QED
  BY <1>11, <1>12 DEF records, snaps

(* Whatever the terminal shows as a chart is true to the run that was read.  *)
(* On the timeline, columns run through the run in order as far as the       *)
(* product of column and count fits in a word, and although it and that of   *)
(* usage and height wrap, none is ahead of its place and no bar is too high; *)
(* on the heatmap each record is in the bucket that is labelled with its     *)
(* size.                                                                     *)
THEOREM ChartsAreExact == TuiSpec => []ChartsExact
<1>1. ViewInv /\ TuiInv => ChartsExact
  <2> SUFFICES ASSUME ViewInv, TuiInv PROVE ChartsExact
    OBVIOUS
  <2> DEFINE m == model["a"]
  <2>1. ASSUME shown.screen \in {"timeline", "heatmap"}
        PROVE  /\ cmd = "replay"
               /\ \E screen \in Screens, mode \in Modes : shown = Render(m, screen, mode)
    <3>1. Nothing.screen = "nothing"
      BY DEF Nothing
    <3>2. shown # Nothing
      BY <2>1, <3>1
    <3>3. cmd = "replay" /\ Shows(m)
      BY <3>2 DEF TuiInv
    <3>4. shown # [screen |-> "text", last |-> m.last_snapshot]
      BY <2>1
    <3> QED
      BY <3>2, <3>3, <3>4 DEF Shows
  <2>2. ASSUME shown.screen = "timeline"
        PROVE  shown = Timeline(m)
    <3>1. PICK screen \in Screens, mode \in Modes : shown = Render(m, screen, mode)
      BY <2>1, <2>2
    <3>2. screen = "timeline"
      BY <2>2, <3>1, ScreenNamed DEF Screens
    <3> QED
      BY <3>1, <3>2, ScreenNamed
  <2>3. ASSUME shown.screen = "heatmap", shown.mode = "size"
        PROVE  shown = Heatmap(m, "size")
    <3>1. PICK screen \in Screens, mode \in Modes : shown = Render(m, screen, mode)
      BY <2>1, <2>3
    <3>2. screen = "heatmap"
      BY <2>3, <3>1, ScreenNamed DEF Screens
    <3>3. shown = Heatmap(m, mode)
      BY <3>1, <3>2, ScreenNamed
    <3>4. CASE mode = "size"
      BY <3>3, <3>4
    <3>5. CASE mode = "callsite"
      <4>1. Heatmap(m, "callsite").mode \in {"none", "callsite"}
        BY DEF Heatmap
      <4> QED
        BY <2>3, <3>3, <3>5, <4>1
    <3> QED
      BY <3>4, <3>5 DEF Modes
  <2>4. ASSUME shown.screen = "timeline", Len(Snapshots("a")) >= 2
        PROVE  cmd # "export" /\ shown = Timeline(m)
    BY <2>1, <2>2, <2>4
  <2>5. ASSUME shown.screen = "heatmap", shown.mode = "size"
        PROVE  cmd = "replay" /\ shown = Heatmap(m, "size")
    BY <2>1, <2>3, <2>5
  <2> HIDE DEF m
  <2> QED
    BY <2>4, <2>5, TimelineTrue, HeatmapTrue DEF ChartsExact, m
<1> QED
  BY <1>1, ViewInvariant, TerminalOnlyReads, TuiInvariant, PTL
=============================================================================
