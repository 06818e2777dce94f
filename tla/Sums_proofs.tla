---------------------------- MODULE Sums_proofs ----------------------------
(***************************************************************************)
(* Facts about Sum(h, n): it is well defined for every n, it is zero when  *)
(* every row is, and changing one row changes it by as much.  The same     *)
(* about SetSum(h, S), for every finite set S.                             *)
(*                                                                         *)
(* The library states induction with an operator as a parameter; here it   *)
(* is the minimum of the set of counterexamples (NatMinimum).              *)
(***************************************************************************)
EXTENDS Sums, FiniteSetTheorems, WellFoundedInduction, TLAPS

(* A non-empty set of naturals has a least element. *)
LEMMA NatMinimum ==
    ASSUME NEW T \in SUBSET Nat, T # {}
    PROVE  \E x \in T : \A y \in T : x <= y
<1>1. PICK x \in T : \A y \in T : ~ (<<y, x>> \in OpToRel(<, Nat))
  BY NatLessThanWellFounded, WFMin
<1>2. ASSUME NEW y \in T PROVE x <= y
  <2>1. ~ (<<y, x>> \in OpToRel(<, Nat))
    BY <1>1
  <2>2. ~ (y < x)
    BY <2>1 DEF OpToRel
  <2> QED
    BY <2>2
<1> QED
  BY <1>2

(* Induction over 0 .. n for a set of numbers: it holds at 0, and at i     *)
(* whenever it holds at i - 1.                                             *)
LEMMA UpTo ==
    ASSUME NEW n \in Nat, NEW G, 0 \in G,
           \A i \in 1 .. n : i - 1 \in G => i \in G
    PROVE  0 .. n \subseteq G
<1> DEFINE T == (0 .. n) \ G
<1>1. SUFFICES ASSUME T # {} PROVE FALSE
  OBVIOUS
<1>2. T \in SUBSET Nat
  OBVIOUS
<1>3. PICK x \in T : \A y \in T : x <= y
  BY <1>1, <1>2, NatMinimum
<1>4. x \in 1 .. n /\ x - 1 \in 0 .. n
  OBVIOUS
<1>5. x - 1 \notin T
  BY <1>3, <1>4
<1> QED
  BY <1>4, <1>5

(* What the recursive definition says, of any function s.                  *)
Summing(s, h, n) ==
    s[0] = 0 /\ \A i \in 1 .. n : s[i] = s[i - 1] + h[i]

(* Partial sums exist up to every bound.                                   *)
LEMMA PartialSumsExist ==
    ASSUME NEW n \in Nat, NEW h \in [1 .. n -> Int]
    PROVE  \E s \in [0 .. n -> Int] : Summing(s, h, n)
<1> DEFINE G == {m \in 0 .. n : \E s \in [0 .. m -> Int] : Summing(s, h, m)}
<1>1. 0 \in G
  <2>1. [i \in 0 .. 0 |-> 0] \in [0 .. 0 -> Int]
    OBVIOUS
  <2>2. Summing([i \in 0 .. 0 |-> 0], h, 0)
    BY DEF Summing
  <2> QED
    BY <2>1, <2>2
<1>2. ASSUME NEW i \in 1 .. n, i - 1 \in G PROVE i \in G
  <2>1. PICK s \in [0 .. i - 1 -> Int] : Summing(s, h, i - 1)
    BY <1>2
  <2> DEFINE t == [j \in 0 .. i |-> IF j = i THEN s[i - 1] + h[i] ELSE s[j]]
  <2>2. t \in [0 .. i -> Int]
    OBVIOUS
  <2>3. Summing(t, h, i)
    BY <2>1 DEF Summing
  <2> QED
    BY <2>2, <2>3
<1>3. 0 .. n \subseteq G
  <2> HIDE DEF G
  <2> QED BY <1>1, <1>2, UpTo
<1> QED
  BY <1>3

(* PartialSums is the function its definition describes.                   *)
LEMMA PartialSumsRecursion ==
    ASSUME NEW n \in Nat, NEW h \in [1 .. n -> Int]
    PROVE  PartialSums(h, n) =
             [i \in 0 .. n |-> IF i = 0 THEN 0 ELSE PartialSums(h, n)[i - 1] + h[i]]
<1> DEFINE Def(s) == [i \in 0 .. n |-> IF i = 0 THEN 0 ELSE s[i - 1] + h[i]]
<1>1. PICK s \in [0 .. n -> Int] : Summing(s, h, n)
  BY PartialSumsExist
<1>2. s = Def(s)
  BY <1>1 DEF Summing
<1>3. PartialSums(h, n) = CHOOSE f : f = Def(f)
  BY DEF PartialSums
<1> QED
  BY <1>2, <1>3

(* The entries of PartialSums are integers, and satisfy the recursion.     *)
LEMMA PartialSumsType ==
    ASSUME NEW n \in Nat, NEW h \in [1 .. n -> Int]
    PROVE  /\ \A i \in 0 .. n : PartialSums(h, n)[i] \in Int
           /\ Summing(PartialSums(h, n), h, n)
<1> DEFINE s == PartialSums(h, n)
           G == {i \in 0 .. n : s[i] \in Int}
<1>1. Summing(s, h, n)
  <2>1. s = [i \in 0 .. n |-> IF i = 0 THEN 0 ELSE s[i - 1] + h[i]]
    BY PartialSumsRecursion
  <2> HIDE DEF s
  <2>2. s[0] = 0
    BY <2>1
  <2>3. ASSUME NEW i \in 1 .. n PROVE s[i] = s[i - 1] + h[i]
    <3>1. i \in 0 .. n /\ i # 0
      OBVIOUS
    <3> QED BY <2>1, <3>1
  <2> QED
    BY <2>2, <2>3 DEF Summing
<1>2. 0 \in G
  BY <1>1 DEF Summing
<1>3. ASSUME NEW i \in 1 .. n, i - 1 \in G PROVE i \in G
  BY <1>1, <1>3 DEF Summing
<1>4. 0 .. n \subseteq G
  <2> HIDE DEF G
  <2> QED BY <1>2, <1>3, UpTo
<1> QED
  BY <1>1, <1>4

(* Sum(h, n) is an integer.                                                *)
LEMMA SumType ==
    ASSUME NEW n \in Nat, NEW h \in [1 .. n -> Int]
    PROVE  Sum(h, n) \in Int
BY PartialSumsType DEF Sum

(* The sum of rows that are all zero is zero.                              *)
LEMMA SumZero ==
    ASSUME NEW n \in Nat, NEW h \in [1 .. n -> Int], \A i \in 1 .. n : h[i] = 0
    PROVE  Sum(h, n) = 0
<1> DEFINE s == PartialSums(h, n)
           G == {i \in 0 .. n : s[i] = 0}
<1>1. Summing(s, h, n)
  BY PartialSumsType
<1>2. 0 \in G
  BY <1>1 DEF Summing
<1>3. ASSUME NEW i \in 1 .. n, i - 1 \in G PROVE i \in G
  BY <1>1, <1>3 DEF Summing
<1>4. 0 .. n \subseteq G
  <2> HIDE DEF G
  <2> QED BY <1>2, <1>3, UpTo
<1> QED
  BY <1>4 DEF Sum

(* Changing row i changes the sum by as much.                              *)
LEMMA SumUpdate ==
    ASSUME NEW n \in Nat, NEW h \in [1 .. n -> Int], NEW g \in [1 .. n -> Int],
           NEW i \in 1 .. n, \A j \in 1 .. n : j # i => g[j] = h[j]
    PROVE  Sum(g, n) = Sum(h, n) + g[i] - h[i]
<1> DEFINE s == PartialSums(h, n)
           t == PartialSums(g, n)
           G == {m \in 0 .. n : t[m] = s[m] + (IF m >= i THEN g[i] - h[i] ELSE 0)}
<1>1. /\ \A m \in 0 .. n : s[m] \in Int /\ t[m] \in Int
      /\ Summing(s, h, n) /\ Summing(t, g, n)
  BY PartialSumsType
<1>2. 0 \in G
  BY <1>1 DEF Summing
<1>3. ASSUME NEW m \in 1 .. n, m - 1 \in G PROVE m \in G
  <2>0. m - 1 \in 0 .. n
    OBVIOUS
  <2>1. /\ s[m] = s[m - 1] + h[m] /\ t[m] = t[m - 1] + g[m]
        /\ s[m - 1] \in Int /\ t[m - 1] \in Int
    <3> HIDE DEF s, t
    <3> QED BY <1>1, <2>0 DEF Summing
  <2>2. t[m - 1] = s[m - 1] + (IF m - 1 >= i THEN g[i] - h[i] ELSE 0)
    BY <1>3
  <2>3. CASE m = i
    BY <2>1, <2>2, <2>3
  <2>4. CASE m # i
    <3> DEFINE d == IF m >= i THEN g[i] - h[i] ELSE 0
    <3>1. g[m] = h[m] /\ h[m] \in Int /\ d \in Int
      BY <2>4
    <3>2. d = IF m - 1 >= i THEN g[i] - h[i] ELSE 0
      BY <2>4
    <3> HIDE DEF s, t, d
    <3>3. t[m - 1] = s[m - 1] + d
      BY <2>2, <3>2
    <3>4. t[m] = s[m] + d
      BY <2>1, <3>1, <3>3
    <3> QED BY <3>4 DEF s, t, d
  <2> QED
    BY <2>3, <2>4
<1>4. 0 .. n \subseteq G
  <2> HIDE DEF G
  <2> QED BY <1>2, <1>3, UpTo
<1>5. n \in G
  BY <1>4
<1> QED
  BY <1>1, <1>5 DEF Sum

(* A sum of naturals is at least each of them. *)
LEMMA SumCovers ==
    ASSUME NEW n \in Nat, NEW h \in [1 .. n -> Nat], NEW i \in 1 .. n
    PROVE  Sum(h, n) \in Nat /\ h[i] <= Sum(h, n)
<1> DEFINE s == PartialSums(h, n)
           G == {m \in 0 .. n : s[m] \in Nat /\ (m >= i => h[i] <= s[m])}
<1>0. h \in [1 .. n -> Int]
  OBVIOUS
<1>1. s[0] = 0 /\ \A m \in 1 .. n : s[m] = s[m - 1] + h[m]
  BY <1>0, PartialSumsType DEF Summing
<1>2. 0 \in G
  BY <1>1
<1>3. ASSUME NEW m \in 1 .. n, m - 1 \in G PROVE m \in G
  <2>1. /\ s[m - 1] \in Nat /\ (m - 1 >= i => h[i] <= s[m - 1])
        /\ s[m] = s[m - 1] + h[m] /\ h[m] \in Nat /\ h[i] \in Nat
    BY <1>1, <1>3
  <2> HIDE DEF s
  <2>2. m = i \/ m - 1 >= i \/ m < i
    OBVIOUS
  <2> QED BY <2>1, <2>2
<1>4. n \in G
  <2>1. n \in 0 .. n
    OBVIOUS
  <2> HIDE DEF G
  <2> QED BY <1>2, <1>3, <2>1, UpTo
<1> QED
  BY <1>4 DEF Sum

(***************************************************************************)
(* Sums over finite sets                                                   *)
(***************************************************************************)

(* The element SetSum takes next from T.                                   *)
Pick(T) == CHOOSE x \in T : TRUE

(* What the recursive definition of the sum says, of any function s.       *)
Folding(s, h, S) ==
    /\ s[{}] = 0
    /\ \A T \in SUBSET S : T # {} => s[T] = h[Pick(T)] + s[T \ {Pick(T)}]

(* Induction over the subsets of a finite set: what holds of T whenever it *)
(* holds of T less any one element holds of them all.                      *)
LEMMA SubsetsOf ==
    ASSUME NEW S, IsFiniteSet(S), NEW G,
           \A T \in SUBSET S : (\A x \in T : T \ {x} \in G) => T \in G
    PROVE  \A T \in SUBSET S : T \in G
<1> DEFINE n == Cardinality(S)
           H == {m \in 0 .. n : \A T \in SUBSET S : Cardinality(T) = m => T \in G}
<1>1. n \in Nat /\ \A T \in SUBSET S : IsFiniteSet(T) /\ Cardinality(T) \in 0 .. n
  BY FS_CardinalityType, FS_Subset
<1>2. 0 \in H
  <2> SUFFICES ASSUME NEW T \in SUBSET S, Cardinality(T) = 0 PROVE T \in G
    BY <1>1
  <2>1. T = {}
    BY <1>1, FS_EmptySet
  <2> QED
    BY <2>1
<1>3. ASSUME NEW m \in 1 .. n, m - 1 \in H PROVE m \in H
  <2> SUFFICES ASSUME NEW T \in SUBSET S, Cardinality(T) = m PROVE T \in G
    OBVIOUS
  <2>1. ASSUME NEW x \in T PROVE T \ {x} \in G
    <3>1. Cardinality(T \ {x}) = m - 1
      BY <1>1, FS_RemoveElement
    <3> QED BY <1>3, <3>1
  <2> QED
    BY <2>1
<1>4. 0 .. n \subseteq H
  <2> HIDE DEF H, n
  <2> QED BY <1>1, <1>2, <1>3, UpTo
<1> QED
  BY <1>1, <1>4

(* The element the sum takes from a non-empty set is one of its own.       *)
LEMMA PickIn == ASSUME NEW T, T # {} PROVE Pick(T) \in T
BY DEF Pick

(* The sum exists for every finite set.                                    *)
LEMMA FoldingExists ==
    ASSUME NEW S, IsFiniteSet(S), NEW h, \A x \in S : h[x] \in Int
    PROVE  \E s \in [SUBSET S -> Int] : Folding(s, h, S)
<1> DEFINE n == Cardinality(S)
           Small(m) == {T \in SUBSET S : Cardinality(T) <= m}
           Rec(s, m) ==
             /\ s[{}] = 0
             /\ \A T \in Small(m) : T # {} => s[T] = h[Pick(T)] + s[T \ {Pick(T)}]
           H == {m \in 0 .. n : \E s \in [Small(m) -> Int] : Rec(s, m)}
<1>1. /\ n \in Nat
      /\ \A T \in SUBSET S : IsFiniteSet(T) /\ Cardinality(T) \in 0 .. n
  BY FS_CardinalityType, FS_Subset
<1>2. Cardinality({}) = 0 /\ \A T \in SUBSET S : Cardinality(T) = 0 => T = {}
  BY <1>1, FS_EmptySet
<1>3. 0 \in H
  <2> DEFINE z == [T \in Small(0) |-> 0]
  <2>1. z \in [Small(0) -> Int]
    OBVIOUS
  <2>2. Rec(z, 0)
    BY <1>1, <1>2
  <2> HIDE DEF z, Small, Rec
  <2> QED
    BY <1>1, <2>1, <2>2
<1>4. ASSUME NEW m \in 1 .. n, m - 1 \in H PROVE m \in H
  <2>1. PICK s \in [Small(m - 1) -> Int] : Rec(s, m - 1)
    BY <1>4
  <2> DEFINE t == [T \in Small(m) |->
                     IF Cardinality(T) <= m - 1 THEN s[T] ELSE h[Pick(T)] + s[T \ {Pick(T)}]]
  <2>2. ASSUME NEW T \in Small(m), T # {}
        PROVE  Pick(T) \in T /\ h[Pick(T)] \in Int /\ T \ {Pick(T)} \in Small(m - 1)
    <3>1. Pick(T) \in T
      BY <2>2, PickIn
    <3>2. Cardinality(T \ {Pick(T)}) = Cardinality(T) - 1
      BY <1>1, <3>1, FS_RemoveElement
    <3> QED BY <1>1, <3>1, <3>2
  <2>3. t \in [Small(m) -> Int]
    <3> SUFFICES ASSUME NEW T \in Small(m)
                 PROVE  (IF Cardinality(T) <= m - 1 THEN s[T]
                         ELSE h[Pick(T)] + s[T \ {Pick(T)}]) \in Int
      OBVIOUS
    <3>1. CASE Cardinality(T) <= m - 1
      BY <2>1, <3>1
    <3>2. CASE ~ (Cardinality(T) <= m - 1)
      <4>1. m - 1 >= 0
        BY <1>1
      <4>2. T # {}
        <5> SUFFICES ASSUME T = {} PROVE FALSE
          OBVIOUS
        <5>1. Cardinality(T) = 0
          BY <1>2
        <5> QED BY <3>2, <4>1, <5>1
      <4> QED BY <2>1, <2>2, <3>2, <4>2
    <3> QED BY <3>1, <3>2
  <2>4. \A T \in Small(m - 1) : T \in Small(m) /\ t[T] = s[T]
    BY <1>1
  <2>5. Rec(t, m)
    <3>1. t[{}] = 0
      BY <1>2, <2>1, <2>4
    <3>2. ASSUME NEW T \in Small(m), T # {}
          PROVE  t[T] = h[Pick(T)] + t[T \ {Pick(T)}]
      <4>1. t[T \ {Pick(T)}] = s[T \ {Pick(T)}]
        BY <2>2, <2>4, <3>2
      <4>2. CASE Cardinality(T) <= m - 1
        <5>1. T \in Small(m - 1)
          BY <4>2
        <5> QED BY <2>1, <2>4, <3>2, <4>1, <5>1
      <4>3. CASE ~ (Cardinality(T) <= m - 1)
        BY <4>1, <4>3
      <4> QED BY <4>2, <4>3
    <3> QED BY <3>1, <3>2
  <2> HIDE DEF t, Small, Rec
  <2> QED
    BY <1>1, <2>3, <2>5
<1>5. n \in H
  <2>1. 0 .. n \subseteq H
    <3> HIDE DEF H, n
    <3> QED BY <1>1, <1>3, <1>4, UpTo
  <2> QED BY <1>1, <2>1
<1>6. Small(n) = SUBSET S
  BY <1>1
<1> QED
  BY <1>5, <1>6 DEF Folding

(* Two functions that satisfy the recursion on the subsets of S agree on   *)
(* all of them.                                                            *)
LEMMA FoldingUnique ==
    ASSUME NEW S, IsFiniteSet(S), NEW h, NEW s, NEW t,
           Folding(s, h, S), Folding(t, h, S)
    PROVE  \A T \in SUBSET S : s[T] = t[T]
<1> DEFINE G == {T \in SUBSET S : s[T] = t[T]}
<1>1. ASSUME NEW T \in SUBSET S, \A x \in T : T \ {x} \in G
      PROVE  T \in G
  <2>1. CASE T = {}
    BY <2>1 DEF Folding
  <2>2. CASE T # {}
    <3>1. s[T \ {Pick(T)}] = t[T \ {Pick(T)}]
      BY <1>1, <2>2, PickIn
    <3> QED BY <2>2, <3>1 DEF Folding
  <2> QED
    BY <2>1, <2>2
<1>2. \A T \in SUBSET S : T \in G
  <2> HIDE DEF G
  <2> QED BY <1>1, SubsetsOf
<1> QED
  BY <1>2

(* The community modules' sum is the one the recursion describes.          *)
LEMMA SetSumFolds ==
    ASSUME NEW S, IsFiniteSet(S), NEW h, NEW s, Folding(s, h, S), NEW T \in SUBSET S
    PROVE  SetSum(h, T) = s[T]
<1> DEFINE Def(f) == [U \in SUBSET T |-> IF U = {} THEN 0
                                         ELSE h[Pick(U)] + f[U \ {Pick(U)}]]
           r == [U \in SUBSET T |-> s[U]]
           it == CHOOSE f : f = Def(f)
<1>1. r = Def(r)
  <2>1. ASSUME NEW U \in SUBSET T, U # {}
        PROVE  U \ {Pick(U)} \in SUBSET T /\ s[U] = h[Pick(U)] + s[U \ {Pick(U)}]
    BY <2>1 DEF Folding
  <2> QED BY <2>1 DEF Folding
<1>2. it = Def(it)
  <2> HIDE DEF r, Def
  <2> QED BY <1>1
<1>3. Folding(it, h, T)
  <2> HIDE DEF it
  <2>1. it[{}] = 0
    BY <1>2
  <2>2. ASSUME NEW U \in SUBSET T, U # {}
        PROVE  it[U] = h[Pick(U)] + it[U \ {Pick(U)}]
    BY <1>2, <2>2
  <2> QED BY <2>1, <2>2 DEF Folding
<1>4. Folding(s, h, T)
  BY DEF Folding
<1>5. IsFiniteSet(T)
  BY FS_Subset
<1>6. it[T] = s[T]
  <2> HIDE DEF it
  <2> QED BY <1>3, <1>4, <1>5, FoldingUnique
<1>7. SetSum(h, T) = it[T]
  BY DEF SetSum, Sets!MapThenSumSet, Sets!MapThenFoldSet, Pick
<1> QED
  BY <1>6, <1>7

(* A sum of integers is one.                                               *)
LEMMA SetSumType ==
    ASSUME NEW S, IsFiniteSet(S), NEW h, \A x \in S : h[x] \in Int
    PROVE  SetSum(h, S) \in Int
<1>1. PICK s \in [SUBSET S -> Int] : Folding(s, h, S)
  BY FoldingExists
<1>2. SetSum(h, S) = s[S]
  BY <1>1, SetSumFolds
<1> QED
  BY <1>2

(* The sum of equal terms is the sum.                                      *)
LEMMA SetSumEqual ==
    ASSUME NEW S, IsFiniteSet(S), NEW h, NEW g,
           \A x \in S : h[x] \in Int /\ g[x] = h[x]
    PROVE  SetSum(g, S) = SetSum(h, S)
<1>1. PICK s \in [SUBSET S -> Int] : Folding(s, h, S)
  BY FoldingExists
<1>2. Folding(s, g, S)
  <2>1. ASSUME NEW T \in SUBSET S, T # {} PROVE g[Pick(T)] = h[Pick(T)]
    BY <2>1, PickIn
  <2> QED BY <1>1, <2>1 DEF Folding
<1>3. SetSum(h, S) = s[S]
  BY <1>1, SetSumFolds
<1>4. SetSum(g, S) = s[S]
  BY <1>2, SetSumFolds
<1> QED
  BY <1>3, <1>4

(* The sum of n equal terms.                                               *)
LEMMA SetSumConstant ==
    ASSUME NEW S, IsFiniteSet(S), NEW c \in Int, NEW h, \A x \in S : h[x] = c
    PROVE  SetSum(h, S) = Cardinality(S) * c
<1>1. PICK s \in [SUBSET S -> Int] : Folding(s, h, S)
  BY FoldingExists
<1> DEFINE G == {T \in SUBSET S : s[T] = Cardinality(T) * c}
<1>2. ASSUME NEW T \in SUBSET S, \A x \in T : T \ {x} \in G
      PROVE  T \in G
  <2>1. CASE T = {}
    <3>1. Cardinality(T) = 0
      BY <2>1, FS_EmptySet
    <3> QED BY <1>1, <2>1, <3>1 DEF Folding
  <2>2. CASE T # {}
    <3>1. Pick(T) \in T
      BY <2>2, PickIn
    <3>2. Cardinality(T \ {Pick(T)}) = Cardinality(T) - 1 /\ Cardinality(T) \in Nat
      BY <3>1, FS_Subset, FS_CardinalityType, FS_RemoveElement
    <3>3. s[T] = c + (Cardinality(T) - 1) * c
      BY <1>1, <1>2, <2>2, <3>1, <3>2 DEF Folding
    <3>4. \A m \in Nat : c + (m - 1) * c = m * c
      OBVIOUS
    <3> QED BY <3>2, <3>3, <3>4
  <2> QED
    BY <2>1, <2>2
<1>3. \A T \in SUBSET S : T \in G
  <2> HIDE DEF G
  <2>1. \A T \in SUBSET S : (\A y \in T : T \ {y} \in G) => T \in G
    BY <1>2
  <2> QED BY <2>1, SubsetsOf
<1> QED
  BY <1>1, <1>3, SetSumFolds

(* Changing the term of x changes the sum by as much.                      *)
LEMMA SetSumUpdate ==
    ASSUME NEW S, IsFiniteSet(S), NEW h, NEW g, NEW x \in S,
           \A y \in S : h[y] \in Int /\ g[y] \in Int,
           \A y \in S : y # x => g[y] = h[y]
    PROVE  SetSum(g, S) = SetSum(h, S) + g[x] - h[x]
<1>1. PICK s \in [SUBSET S -> Int] : Folding(s, h, S)
  BY FoldingExists
<1>2. PICK t \in [SUBSET S -> Int] : Folding(t, g, S)
  BY FoldingExists
<1> DEFINE G == {T \in SUBSET S : t[T] = s[T] + (IF x \in T THEN g[x] - h[x] ELSE 0)}
<1>3. ASSUME NEW T \in SUBSET S, \A y \in T : T \ {y} \in G
      PROVE  T \in G
  <2>1. CASE T = {}
    BY <1>1, <1>2, <2>1 DEF Folding
  <2>2. CASE T # {}
    <3> DEFINE p == Pick(T)
    <3>1. p \in T /\ T \ {p} \in SUBSET S
      BY <2>2, PickIn
    <3>2. s[T] = h[p] + s[T \ {p}] /\ t[T] = g[p] + t[T \ {p}]
      BY <1>1, <1>2, <2>2 DEF Folding
    <3>3. t[T \ {p}] = s[T \ {p}] + (IF x \in T \ {p} THEN g[x] - h[x] ELSE 0)
      BY <1>3, <3>1
    <3>4. s[T \ {p}] \in Int /\ h[p] \in Int /\ g[p] \in Int /\ h[x] \in Int /\ g[x] \in Int
      BY <1>1, <3>1
    <3> HIDE DEF p
    <3>5. CASE p = x
      BY <3>1, <3>2, <3>3, <3>4, <3>5
    <3>6. CASE p # x
      BY <3>1, <3>2, <3>3, <3>4, <3>6
    <3> QED BY <3>5, <3>6
  <2> QED
    BY <2>1, <2>2
<1>4. \A T \in SUBSET S : T \in G
  <2> HIDE DEF G
  <2>1. \A T \in SUBSET S : (\A y \in T : T \ {y} \in G) => T \in G
    BY <1>3
  <2> QED BY <2>1, SubsetsOf
<1>5. t[S] = s[S] + g[x] - h[x] /\ SetSum(h, S) = s[S] /\ SetSum(g, S) = t[S]
  <2>1. SetSum(h, S) = s[S] /\ SetSum(g, S) = t[S]
    BY <1>1, <1>2, SetSumFolds
  <2> QED BY <1>4, <2>1
<1> QED
  BY <1>5

=============================================================================
