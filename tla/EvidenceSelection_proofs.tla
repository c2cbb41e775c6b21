----------------------- MODULE EvidenceSelection_proofs -----------------------
(***************************************************************************)
(* What the operators of EvidenceSelection return, for any lists of files  *)
(* and pages: which elements, in which order, and that none comes twice.   *)
(***************************************************************************)
EXTENDS EvidenceSelection, FiniteSetTheorems, SequenceTheorems, WellFoundedInduction, TLAPS

-----------------------------------------------------------------------------
(* Sorting                                                                  *)

StrictOrder(S, R) ==
  /\ \A x \in S : <<x, x>> \notin R
  /\ \A x, y \in S : x # y => <<x, y>> \in R \/ <<y, x>> \in R
  /\ \A x, y, z \in S : <<x, y>> \in R /\ <<y, z>> \in R => <<x, z>> \in R

(* The list l has each element of S once.                                  *)
Lists(l, S) == l \in Seq(S) /\ Len(l) = Cardinality(S) /\ IsInjective(l) /\ Range(l) = S

(* How many elements of S come before each of them, in the order R.        *)
Before(S, R) == [x \in S |-> Cardinality({y \in S : <<y, x>> \in R})]

(* In a finite set in a strict order, those that come later have more      *)
(* elements before them.                                                   *)
LEMMA Counting ==
  ASSUME NEW S, IsFiniteSet(S), NEW R, StrictOrder(S, R)
  PROVE  /\ Cardinality(S) \in Nat
         /\ Before(S, R) \in [S -> 0..(Cardinality(S) - 1)]
         /\ \A x, y \in S : <<x, y>> \in R => Before(S, R)[x] < Before(S, R)[y]
<1> DEFINE below == [x \in S |-> {y \in S : <<y, x>> \in R}]
<1>1. Cardinality(S) \in Nat
  BY FS_CardinalityType
<1>2. ASSUME NEW x \in S
      PROVE  /\ IsFiniteSet(below[x]) /\ Cardinality(below[x]) \in Nat
             /\ Cardinality(below[x]) <= Cardinality(S) - 1
  <2>1. below[x] \in SUBSET (S \ {x})
    BY DEF StrictOrder
  <2> HIDE DEF below
  <2>2. IsFiniteSet(S \ {x}) /\ Cardinality(S \ {x}) = Cardinality(S) - 1
    BY FS_RemoveElement
  <2>3. IsFiniteSet(below[x]) /\ Cardinality(below[x]) <= Cardinality(S) - 1
    BY <2>1, <2>2, FS_Subset
  <2> QED
    BY <2>3, FS_CardinalityType
<1>3. ASSUME NEW x \in S, NEW y \in S, <<x, y>> \in R
      PROVE  Cardinality(below[x]) < Cardinality(below[y])
  <2>1. below[x] \in SUBSET below[y] /\ x \in below[y] /\ x \notin below[x]
    BY <1>3 DEF StrictOrder
  <2> HIDE DEF below
  <2>2. below[x] # below[y]
    BY <2>1
  <2>3. IsFiniteSet(below[y]) /\ Cardinality(below[x]) \in Nat /\ Cardinality(below[y]) \in Nat
    BY <1>2
  <2>4. Cardinality(below[x]) <= Cardinality(below[y]) /\ Cardinality(below[y]) # Cardinality(below[x])
    BY <2>1, <2>2, <2>3, FS_Subset
  <2> QED
    BY <2>3, <2>4
<1>4. Before(S, R) = [x \in S |-> Cardinality(below[x])]
  BY DEF Before
<1> HIDE DEF below
<1>5. ASSUME NEW x \in S
      PROVE  Cardinality(below[x]) \in 0..(Cardinality(S) - 1)
  BY <1>1, <1>2
<1> QED
  BY <1>1, <1>3, <1>4, <1>5

(* A finite set in a strict order: all of its elements, in that order.     *)
LEMMA Sorting ==
  ASSUME NEW S, IsFiniteSet(S), NEW R, StrictOrder(S, R)
  PROVE  /\ Lists(SortedBy(S, R), S)
         /\ \A i, j \in 1..Cardinality(S) : i < j => <<SortedBy(S, R)[i], SortedBy(S, R)[j]>> \in R
         /\ \A x \in S : Before(S, R)[x] + 1 \in 1..Cardinality(S) /\ SortedBy(S, R)[Before(S, R)[x] + 1] = x
<1> DEFINE n == Cardinality(S)
           b == Before(S, R)
           c == [x \in S |-> b[x] + 1]
           s == SortedBy(S, R)
<1>1. n \in Nat /\ b \in [S -> 0..(n - 1)] /\ \A x, y \in S : <<x, y>> \in R => b[x] < b[y]
  BY Counting
<1>2. s = [i \in 1..n |-> CHOOSE x \in S : Cardinality({y \in S : <<y, x>> \in R}) = i - 1]
  BY DEF SortedBy
<1>a. \A x \in S : b[x] = Cardinality({y \in S : <<y, x>> \in R})
  BY DEF Before
<1> HIDE DEF n, b, s
<1>3. \A x \in S : c[x] \in 1..n
  BY <1>1
<1>4. \A x, y \in S : x # y => b[x] # b[y]
  <2> SUFFICES ASSUME NEW x \in S, NEW y \in S, x # y
               PROVE  b[x] # b[y]
    OBVIOUS
  <2>1. <<x, y>> \in R \/ <<y, x>> \in R
    BY DEF StrictOrder
  <2> QED
    BY <2>1, <1>1
<1>5. c \in [S -> 1..n] /\ \A x, y \in S : c[x] = c[y] => x = y
  BY <1>1, <1>3, <1>4
<1>6. c \in Injection(S, 1..n)
  BY <1>5 DEF Injection, IsInjective
<1>7. c \in Surjection(S, 1..n)
  <2>1. IsFiniteSet(1..n) /\ Cardinality(1..n) = n
    BY <1>1, FS_Interval
  <2> HIDE DEF c
  <2> QED
    BY <1>6, <2>1, FS_Injection DEF n
<1>8. ASSUME NEW i \in 1..n
      PROVE  s[i] \in S /\ b[s[i]] = i - 1
  <2>1. \E x \in S : c[x] = i
    BY <1>7 DEF Surjection
  <2>2. PICK x \in S : b[x] = i - 1
    BY <2>1, <1>1
  <2>3. Cardinality({y \in S : <<y, x>> \in R}) = i - 1
    BY <2>2, <1>a
  <2>4. s[i] = CHOOSE z \in S : Cardinality({y \in S : <<y, z>> \in R}) = i - 1
    BY <1>2
  <2>5. s[i] \in S /\ Cardinality({y \in S : <<y, s[i]>> \in R}) = i - 1
    BY <2>3, <2>4
  <2> QED
    BY <2>5, <1>a
<1>9. s \in [1..n -> S]
  BY <1>2, <1>8
<1>10. s \in Seq(S) /\ Len(s) = n
  BY <1>1, <1>9, SeqDef, LenProperties
<1>11. IsInjective(s)
  <2> SUFFICES ASSUME NEW i \in 1..n, NEW j \in 1..n, s[i] = s[j]
               PROVE  i = j
    BY <1>9 DEF IsInjective
  <2>1. i - 1 = j - 1
    BY <1>8
  <2> QED
    BY <2>1, <1>1
<1>12. ASSUME NEW i \in 1..n, NEW j \in 1..n, i < j
       PROVE  <<s[i], s[j]>> \in R
  <2>1. s[i] \in S /\ s[j] \in S /\ b[s[i]] = i - 1 /\ b[s[j]] = j - 1
    BY <1>8
  <2>2. s[i] # s[j] /\ <<s[j], s[i]>> \notin R
    BY <2>1, <1>1, <1>12
  <2> QED
    BY <2>1, <2>2 DEF StrictOrder
<1>13. ASSUME NEW x \in S
       PROVE  b[x] + 1 \in 1..n /\ s[b[x] + 1] = x
  <2>1. b[x] + 1 \in 1..n /\ b[x] \in Int
    BY <1>1
  <2>2. s[b[x] + 1] \in S /\ b[s[b[x] + 1]] = b[x]
    BY <2>1, <1>8
  <2> QED
    BY <2>1, <2>2, <1>4
<1>14. Range(s) = S
  BY <1>9, <1>13 DEF Range
<1> QED
  BY <1>10, <1>11, <1>12, <1>13, <1>14 DEF Lists, n, b, s

(* Numbers in their order.                                                 *)
LEMMA Ordering ==
  ASSUME NEW S \in SUBSET Nat, IsFiniteSet(S)
  PROVE  /\ Cardinality(S) \in Nat
         /\ Lists(InOrder(S), S)
         /\ \A i, j \in 1..Cardinality(S) : i < j => InOrder(S)[i] < InOrder(S)[j]
<1> DEFINE R == {p \in S \X S : p[1] < p[2]}
<1>1. \A x, y \in S : <<x, y>> \in R <=> x < y
  OBVIOUS
<1>2. StrictOrder(S, R)
  <2> HIDE DEF R
  <2> QED
    BY <1>1 DEF StrictOrder
<1>3. InOrder(S) = SortedBy(S, R)
  BY DEF InOrder
<1> HIDE DEF R
<1>4. Cardinality(S) \in Nat
  BY FS_CardinalityType
<1>5. Lists(InOrder(S), S)
  BY <1>2, <1>3, Sorting
<1>6. ASSUME NEW i \in 1..Cardinality(S), NEW j \in 1..Cardinality(S), i < j
      PROVE  InOrder(S)[i] < InOrder(S)[j]
  <2>1. InOrder(S)[i] \in S /\ InOrder(S)[j] \in S
    BY <1>4, <1>5 DEF Lists
  <2>2. <<InOrder(S)[i], InOrder(S)[j]>> \in R
    BY <1>2, <1>3, <1>6, Sorting
  <2> QED
    BY <2>1, <2>2, <1>1
<1> QED
  BY <1>4, <1>5, <1>6

(* The first numbers, when they are all there, are at their own places.    *)
LEMMA FirstOnes ==
  ASSUME NEW S \in SUBSET (Nat \ {0}), IsFiniteSet(S), NEW n \in Nat, 1..n \subseteq S
  PROVE  n <= Cardinality(S) /\ \A k \in 1..n : InOrder(S)[k] = k
<1> DEFINE R == {p \in S \X S : p[1] < p[2]}
<1>1. \A x, y \in S : <<x, y>> \in R <=> x < y
  OBVIOUS
<1>2. StrictOrder(S, R)
  <2> HIDE DEF R
  <2> QED
    BY <1>1 DEF StrictOrder
<1>3. InOrder(S) = SortedBy(S, R)
  BY DEF InOrder
<1>4. n <= Cardinality(S)
  <2>1. IsFiniteSet(1..n) /\ Cardinality(1..n) = n
    BY FS_Interval
  <2> QED
    BY <2>1, FS_Subset
<1> HIDE DEF R
<1>5. ASSUME NEW k \in 1..n
      PROVE  InOrder(S)[k] = k
  <2>1. k \in S
    OBVIOUS
  <2>2. {y \in S : <<y, k>> \in R} = 1..(k - 1)
    <3>1. \A y \in S : <<y, k>> \in R <=> y \in 1..(k - 1)
      BY <1>1, <2>1
    <3>2. 1..(k - 1) \subseteq S
      OBVIOUS
    <3> QED
      BY <3>1, <3>2
  <2>3. Cardinality(1..(k - 1)) = k - 1
    BY FS_Interval
  <2>4. Before(S, R)[k] = k - 1
    BY <2>1, <2>2, <2>3 DEF Before
  <2>5. SortedBy(S, R)[Before(S, R)[k] + 1] = k
    BY <1>2, <2>1, Sorting
  <2> QED
    BY <2>4, <2>5, <1>3
<1> QED
  BY <1>4, <1>5

-----------------------------------------------------------------------------
(* Lists                                                                    *)

(* The elements of a list at some of its places.                           *)
LEMMA Selecting ==
  ASSUME NEW T, NEW s \in Seq(T), NEW I \in SUBSET (1..Len(s))
  PROVE  /\ IsFiniteSet(I) /\ Cardinality(I) \in Nat
         /\ At(s, I) \in Seq(T) /\ Len(At(s, I)) = Cardinality(I)
         /\ \A x : x \in Range(At(s, I)) <=> \E i \in I : s[i] = x
         /\ (\A i, j \in I : s[i] = s[j] => i = j) => IsInjective(At(s, I))
         /\ \A k \in 1..Cardinality(I) : At(s, I)[k] = s[InOrder(I)[k]]
<1> DEFINE n == Cardinality(I)
           o == InOrder(I)
           a == At(s, I)
<1>1. Len(s) \in Nat /\ s \in [1..Len(s) -> T]
  BY LenProperties
<1>2. IsFiniteSet(I) /\ I \in SUBSET Nat
  <2>1. IsFiniteSet(1..Len(s))
    BY <1>1, FS_Interval
  <2>2. IsFiniteSet(I)
    BY <2>1, FS_Subset
  <2>3. I \in SUBSET Nat
    BY <1>1
  <2> QED
    BY <2>2, <2>3
<1>3. n \in Nat /\ Lists(o, I)
  BY <1>2, Ordering
<1>4. a = [k \in 1..n |-> s[o[k]]]
  BY DEF At
<1> HIDE DEF n, o, a
<1>5. o \in [1..n -> I] /\ Range(o) = I /\ \A i, j \in 1..n : o[i] = o[j] => i = j
  <2>1. o \in Seq(I) /\ Len(o) = n /\ IsInjective(o) /\ Range(o) = I
    BY <1>3 DEF Lists, n
  <2>2. o \in [1..n -> I]
    BY <2>1, LenProperties
  <2> QED
    BY <2>1, <2>2 DEF IsInjective
<1>6. a \in [1..n -> T]
  BY <1>1, <1>4, <1>5
<1>7. a \in Seq(T) /\ Len(a) = n
  BY <1>3, <1>6, SeqDef, LenProperties
<1>8. ASSUME NEW x
      PROVE  x \in Range(a) <=> \E i \in I : s[i] = x
  <2>1. x \in Range(a) <=> \E k \in 1..n : s[o[k]] = x
    BY <1>4 DEF Range
  <2>2. \A i \in I : \E k \in 1..n : o[k] = i
    BY <1>5 DEF Range
  <2> QED
    BY <2>1, <2>2, <1>5
<1>9. ASSUME \A i, j \in I : s[i] = s[j] => i = j
      PROVE  IsInjective(a)
  <2>1. DOMAIN a = 1..n /\ \A k \in 1..n : a[k] = s[o[k]] /\ o[k] \in I
    BY <1>4, <1>5
  <2> SUFFICES ASSUME NEW i \in 1..n, NEW j \in 1..n, a[i] = a[j]
               PROVE  i = j
    BY <2>1 DEF IsInjective
  <2>2. o[i] \in I /\ o[j] \in I /\ s[o[i]] = s[o[j]]
    BY <2>1
  <2>3. o[i] = o[j]
    BY <2>2, <1>9
  <2> QED
    BY <2>3, <1>5
<1> QED
  BY <1>2, <1>3, <1>4, <1>7, <1>8, <1>9 DEF n, o, a

(* A number with a property has a least one below it.                      *)
LEMMA Least ==
  ASSUME NEW S \in SUBSET Nat, S # {}
  PROVE  Min(S) \in S /\ \A y \in S : Min(S) <= y
<1> DEFINE Less == {p \in Nat \X Nat : p[1] < p[2]}
<1>1. IsWellFoundedOn(Less, Nat)
  <2>1. IsWellFoundedOn(OpToRel(<, Nat), Nat)
    BY NatLessThanWellFounded
  <2>2. OpToRel(<, Nat) = Less
    BY DEF OpToRel
  <2> QED
    BY <2>1, <2>2
<1>2. PICK x \in S : \A y \in S : ~(<<y, x>> \in Less)
  <2> HIDE DEF Less
  <2> QED
    BY <1>1, WFMin
<1>3. \A y \in S : x <= y
  <2> SUFFICES ASSUME NEW y \in S
               PROVE  x <= y
    OBVIOUS
  <2>1. x \in Nat /\ y \in Nat /\ ~(y < x)
    BY <1>2
  <2> QED
    BY <2>1
<1> QED
  BY <1>3 DEF Min

(* Without what comes again, a list has the same elements, each once.      *)
LEMMA Distinguishing ==
  ASSUME NEW T, NEW s \in Seq(T)
  PROVE  Distinct(s) \in Seq(T) /\ Range(Distinct(s)) = Range(s) /\ IsInjective(Distinct(s))
<1> DEFINE I == {i \in DOMAIN s : \A j \in 1..(i - 1) : s[j] # s[i]}
<1>1. Len(s) \in Nat /\ s \in [1..Len(s) -> T] /\ DOMAIN s = 1..Len(s)
  BY LenProperties
<1>2. Distinct(s) = At(s, I) /\ I \in SUBSET (1..Len(s))
  BY <1>1 DEF Distinct
<1>3. \A i, j \in I : s[i] = s[j] => i = j
  <2> SUFFICES ASSUME NEW i \in I, NEW j \in I, s[i] = s[j], i < j
               PROVE  FALSE
    BY <1>1, <1>2
  <2>1. i \in 1..(j - 1)
    BY <1>1
  <2> QED
    BY <2>1
<1>4. ASSUME NEW x \in Range(s)
      PROVE  \E i \in I : s[i] = x
  <2> DEFINE P == {i \in 1..Len(s) : s[i] = x}
  <2>1. P \in SUBSET Nat /\ P # {}
    BY <1>1, <1>4 DEF Range
  <2>2. Min(P) \in P /\ \A y \in P : Min(P) <= y
    BY <2>1, Least
  <2>3. Min(P) \in I
    <3> DEFINE m == Min(P)
    <3>1. m \in 1..Len(s) /\ s[m] = x /\ \A y \in P : m <= y
      BY <2>2
    <3> HIDE DEF m
    <3>2. ASSUME NEW j \in 1..(m - 1)
          PROVE  s[j] # s[m]
      <4>1. j \in 1..Len(s) /\ ~(m <= j)
        BY <3>1, <1>1
      <4> QED
        BY <4>1, <3>1
    <3>3. m \in I
      BY <3>1, <3>2, <1>1
    <3> QED
      BY <3>3 DEF m
  <2> QED
    BY <2>2, <2>3
<1>5. ASSUME NEW i \in I
      PROVE  s[i] \in Range(s)
  BY <1>1 DEF Range
<1> HIDE DEF I
<1>6. /\ At(s, I) \in Seq(T)
      /\ \A x : x \in Range(At(s, I)) <=> \E i \in I : s[i] = x
      /\ IsInjective(At(s, I))
  BY <1>2, <1>3, Selecting
<1>7. \A x : x \in Range(At(s, I)) <=> x \in Range(s)
  BY <1>4, <1>5, <1>6
<1>8. Range(At(s, I)) = Range(s)
  BY <1>7
<1> QED
  BY <1>2, <1>6, <1>8

(* It begins like a list that begins without a repetition.                 *)
LEMMA DistinctBegins ==
  ASSUME NEW T, NEW s \in Seq(T), NEW t \in Seq(T), IsInjective(s)
  PROVE  /\ Len(s) <= Len(Distinct(s \o t))
         /\ \A k \in 1..Len(s) : Distinct(s \o t)[k] = s[k]
<1> DEFINE u == s \o t
           I == {i \in DOMAIN u : \A j \in 1..(i - 1) : u[j] # u[i]}
<1>1. Len(s) \in Nat /\ DOMAIN s = 1..Len(s) /\ Len(t) \in Nat
  BY LenProperties
<1>2. u \in Seq(T) /\ Len(u) = Len(s) + Len(t) /\ \A i \in 1..Len(s) : u[i] = s[i]
  BY <1>1, ConcatProperties
<1>3. DOMAIN u = 1..Len(u) /\ Len(u) \in Nat
  BY <1>2, LenProperties
<1>4. Distinct(u) = At(u, I) /\ I \in SUBSET (1..Len(u))
  BY <1>3 DEF Distinct
<1> HIDE DEF u
<1>5. 1..Len(s) \subseteq I
  <2> SUFFICES ASSUME NEW i \in 1..Len(s)
               PROVE  i \in DOMAIN u /\ \A j \in 1..(i - 1) : u[j] # u[i]
    OBVIOUS
  <2>1. i \in DOMAIN u
    BY <1>1, <1>2, <1>3
  <2>2. ASSUME NEW j \in 1..(i - 1)
        PROVE  u[j] # u[i]
    <3>1. j \in 1..Len(s) /\ j # i
      BY <1>1
    <3> QED
      BY <3>1, <1>1, <1>2 DEF IsInjective
  <2> QED
    BY <2>1, <2>2
<1> HIDE DEF I
<1>6. /\ IsFiniteSet(I) /\ Len(At(u, I)) = Cardinality(I)
      /\ \A k \in 1..Cardinality(I) : At(u, I)[k] = u[InOrder(I)[k]]
      /\ Cardinality(I) \in Nat
  BY <1>2, <1>4, Selecting
<1>7. Len(s) <= Cardinality(I) /\ \A k \in 1..Len(s) : InOrder(I)[k] = k
  <2>1. I \in SUBSET (Nat \ {0})
    BY <1>3, <1>4
  <2> QED
    BY <2>1, <1>1, <1>5, <1>6, FirstOnes
<1>8. ASSUME NEW k \in 1..Len(s)
      PROVE  At(u, I)[k] = s[k]
  <2>1. k \in 1..Cardinality(I)
    BY <1>1, <1>6, <1>7
  <2> QED
    BY <2>1, <1>2, <1>6, <1>7
<1> QED
  BY <1>4, <1>6, <1>7, <1>8 DEF u

(* The least and the greatest of two numbers.                              *)
LEMMA Smaller ==
  ASSUME NEW a \in Nat, NEW b \in Nat
  PROVE  Min({a, b}) = (IF a <= b THEN a ELSE b) /\ Max({a, b}) = (IF a >= b THEN a ELSE b)
<1>1. \E x \in {a, b} : \A y \in {a, b} : x <= y
  OBVIOUS
<1>2. \E x \in {a, b} : \A y \in {a, b} : x >= y
  OBVIOUS
<1>3. Min({a, b}) \in {a, b} /\ \A y \in {a, b} : Min({a, b}) <= y
  BY <1>1 DEF Min
<1>4. Max({a, b}) \in {a, b} /\ \A y \in {a, b} : Max({a, b}) >= y
  BY <1>2 DEF Max
<1> QED
  BY <1>3, <1>4

(* The first elements of a list.                                           *)
LEMMA Taking ==
  ASSUME NEW T, NEW s \in Seq(T), NEW n \in Nat
  PROVE  /\ Take(s, n) \in Seq(T)
         /\ Len(Take(s, n)) = IF n <= Len(s) THEN n ELSE Len(s)
         /\ \A i \in 1..Len(Take(s, n)) : i \in 1..Len(s) /\ Take(s, n)[i] = s[i]
         /\ Range(Take(s, n)) \subseteq Range(s)
         /\ IsInjective(s) => IsInjective(Take(s, n))
<1> DEFINE m == IF n <= Len(s) THEN n ELSE Len(s)
           t == Take(s, n)
<1>1. Len(s) \in Nat /\ DOMAIN s = 1..Len(s) /\ s \in [1..Len(s) -> T]
  BY LenProperties
<1>2. t = SubSeq(s, 1, m) /\ m \in Nat /\ m <= Len(s)
  BY <1>1, Smaller DEF Take
<1> HIDE DEF t, m
<1>3. \A i \in 1..m : s[i] \in T
  BY <1>1, <1>2
<1>4. m \in Int /\ 1 \in Int /\ m - 1 + 1 = m
  BY <1>2
<1>5. t \in Seq(T) /\ Len(t) = m /\ \A i \in 1..m : t[i] = s[i]
  BY <1>2, <1>3, <1>4, SubSeqProperties
<1>6. DOMAIN t = 1..m
  BY <1>5, LenProperties
<1>7. \A i \in 1..m : i \in 1..Len(s)
  BY <1>1, <1>2
<1>8. Range(t) \subseteq Range(s)
  BY <1>1, <1>5, <1>6, <1>7 DEF Range
<1>9. IsInjective(s) => IsInjective(t)
  BY <1>1, <1>5, <1>6, <1>7 DEF IsInjective
<1> QED
  BY <1>5, <1>7, <1>8, <1>9 DEF m, t

(* Pairs of numbers in their order.                                        *)
LEMMA PairOrder ==
  ASSUME NEW S \in SUBSET (Nat \X Nat)
  PROVE  StrictOrder(S, Lexicographic(S))
<1>1. \A x \in S : x[1] \in Nat /\ x[2] \in Nat /\ x = <<x[1], x[2]>>
  OBVIOUS
<1>2. \A x, y \in S :
        <<x, y>> \in Lexicographic(S) <=> x[1] < y[1] \/ (x[1] = y[1] /\ x[2] < y[2])
  BY DEF Lexicographic
<1>3. \A x \in S : <<x, x>> \notin Lexicographic(S)
  BY <1>1, <1>2
<1>4. \A x, y \in S : x # y => <<x, y>> \in Lexicographic(S) \/ <<y, x>> \in Lexicographic(S)
  BY <1>1, <1>2
<1>5. \A x, y, z \in S :
        <<x, y>> \in Lexicographic(S) /\ <<y, z>> \in Lexicographic(S) => <<x, z>> \in Lexicographic(S)
  BY <1>1, <1>2
<1> QED
  BY <1>3, <1>4, <1>5 DEF StrictOrder

(* The lists of parts, joined: their elements, each once if the lists have *)
(* nothing in common, and not more than the parts may have.                *)
LEMMA Joining ==
  ASSUME NEW T, NEW n \in Nat, NEW parts \in [1..n -> Seq(T)]
  PROVE  /\ Joined(parts) \in Seq(T)
         /\ \A x : x \in Range(Joined(parts)) <=> \E d \in 1..n : x \in Range(parts[d])
         /\ (\A d \in 1..n : IsInjective(parts[d]))
              /\ (\A d, e \in 1..n : d # e => Range(parts[d]) \cap Range(parts[e]) = {})
              => IsInjective(Joined(parts))
         /\ \A q \in Nat : (\A d \in 1..n : Len(parts[d]) <= q) => Len(Joined(parts)) <= n * q
<1> DEFINE P == UNION {{<<d, i>> : i \in DOMAIN parts[d]} : d \in DOMAIN parts}
           o == SortedBy(P, Lexicographic(P))
           m == Cardinality(P)
           j == Joined(parts)
<1>1. \A d \in 1..n : parts[d] \in Seq(T) /\ Len(parts[d]) \in Nat
                        /\ DOMAIN parts[d] = 1..Len(parts[d]) /\ parts[d] \in [1..Len(parts[d]) -> T]
  BY LenProperties
<1>2. \A p : p \in P <=> \E d \in 1..n : \E i \in 1..Len(parts[d]) : p = <<d, i>>
  BY <1>1
<1>3. j = [k \in DOMAIN o |-> parts[o[k][1]][o[k][2]]]
  BY DEF Joined
<1> HIDE DEF P, o, m, j
<1>4. P \in SUBSET (Nat \X Nat)
  BY <1>1, <1>2
<1>5. IsFiniteSet(P)
  <2> DEFINE Q == {{<<d, i>> : i \in 1..Len(parts[d])} : d \in 1..n}
             part == [d \in 1..n |-> {<<d, i>> : i \in 1..Len(parts[d])}]
  <2>1. ASSUME NEW d \in 1..n
        PROVE  IsFiniteSet(part[d])
    <3> DEFINE f == [i \in 1..Len(parts[d]) |-> <<d, i>>]
    <3>1. f \in Surjection(1..Len(parts[d]), part[d])
      BY DEF Surjection
    <3>2. IsFiniteSet(1..Len(parts[d]))
      BY <1>1, FS_Interval
    <3> HIDE DEF f, part
    <3> QED
      BY <3>1, <3>2, FS_Surjection
  <2>2. IsFiniteSet({part[d] : d \in 1..n})
    <3> DEFINE R == {part[d] : d \in 1..n}
    <3>1. part \in Surjection(1..n, R)
      BY DEF Surjection
    <3>2. IsFiniteSet(1..n)
      BY FS_Interval
    <3> HIDE DEF part, R
    <3>3. IsFiniteSet(R)
      BY <3>1, <3>2, FS_Surjection
    <3> QED
      BY <3>3 DEF R
  <2>3. P = UNION {part[d] : d \in 1..n}
    BY <1>2
  <2> HIDE DEF part
  <2>4. \A X \in {part[d] : d \in 1..n} : IsFiniteSet(X)
    BY <2>1
  <2> QED
    BY <2>2, <2>3, <2>4, FS_UNION
<1>6. Lists(o, P) /\ m \in Nat
  <2>1. StrictOrder(P, Lexicographic(P))
    BY <1>4, PairOrder
  <2>2. Lists(SortedBy(P, Lexicographic(P)), P)
    BY <2>1, <1>5, Sorting
  <2> QED
    BY <2>2, <1>5, FS_CardinalityType DEF o, m
<1>7. o \in [1..m -> P] /\ Range(o) = P /\ \A k, l \in 1..m : o[k] = o[l] => k = l
  <2>1. o \in Seq(P) /\ Len(o) = m /\ IsInjective(o) /\ Range(o) = P
    BY <1>6 DEF Lists, m
  <2>2. o \in [1..m -> P]
    BY <2>1, LenProperties
  <2> QED
    BY <2>1, <2>2 DEF IsInjective
<1>8. \A k \in 1..m : /\ o[k][1] \in 1..n /\ o[k][2] \in 1..Len(parts[o[k][1]])
                      /\ o[k] = <<o[k][1], o[k][2]>> /\ j[k] = parts[o[k][1]][o[k][2]]
  <2> SUFFICES ASSUME NEW k \in 1..m
               PROVE  /\ o[k][1] \in 1..n /\ o[k][2] \in 1..Len(parts[o[k][1]])
                      /\ o[k] = <<o[k][1], o[k][2]>> /\ j[k] = parts[o[k][1]][o[k][2]]
    OBVIOUS
  <2>1. o[k] \in P
    BY <1>7
  <2>2. PICK d \in 1..n : \E i \in 1..Len(parts[d]) : o[k] = <<d, i>>
    BY <2>1, <1>2
  <2>3. j[k] = parts[o[k][1]][o[k][2]]
    BY <1>3, <1>7
  <2> QED
    BY <2>2, <2>3
<1>9. j \in [1..m -> T] /\ DOMAIN j = 1..m
  <2>1. DOMAIN o = 1..m
    BY <1>7
  <2>2. \A k \in 1..m : j[k] \in T
    BY <1>1, <1>8
  <2> QED
    BY <2>1, <2>2, <1>3
<1>10. j \in Seq(T) /\ Len(j) = m
  BY <1>6, <1>9, SeqDef, LenProperties
<1>11. ASSUME NEW x
       PROVE  x \in Range(j) <=> \E d \in 1..n : x \in Range(parts[d])
  <2>1. ASSUME x \in Range(j)
        PROVE  \E d \in 1..n : x \in Range(parts[d])
    <3>1. PICK k \in 1..m : x = j[k]
      BY <2>1, <1>9 DEF Range
    <3>2. x = parts[o[k][1]][o[k][2]] /\ o[k][1] \in 1..n /\ o[k][2] \in DOMAIN parts[o[k][1]]
      BY <3>1, <1>8, <1>1
    <3>3. x \in Range(parts[o[k][1]])
      BY <3>2 DEF Range
    <3> QED
      BY <3>2, <3>3
  <2>2. ASSUME NEW d \in 1..n, x \in Range(parts[d])
        PROVE  x \in Range(j)
    <3>1. PICK i \in 1..Len(parts[d]) : x = parts[d][i]
      BY <2>2, <1>1 DEF Range
    <3>2. <<d, i>> \in P
      BY <1>2
    <3>3. PICK k \in 1..m : o[k] = <<d, i>>
      BY <3>2, <1>7 DEF Range
    <3>4. j[k] = x
      BY <3>1, <3>3, <1>8
    <3> QED
      BY <3>4, <1>9 DEF Range
  <2> QED
    BY <2>1, <2>2
<1>12. ASSUME \A d \in 1..n : IsInjective(parts[d]),
              \A d, e \in 1..n : d # e => Range(parts[d]) \cap Range(parts[e]) = {}
       PROVE  IsInjective(j)
  <2> SUFFICES ASSUME NEW k \in 1..m, NEW l \in 1..m, j[k] = j[l]
               PROVE  k = l
    BY <1>9 DEF IsInjective
  <2> DEFINE d == o[k][1]
             e == o[l][1]
             a == o[k][2]
             b == o[l][2]
  <2>1. /\ d \in 1..n /\ a \in DOMAIN parts[d] /\ o[k] = <<d, a>> /\ j[k] = parts[d][a]
        /\ e \in 1..n /\ b \in DOMAIN parts[e] /\ o[l] = <<e, b>> /\ j[l] = parts[e][b]
    BY <1>1, <1>8
  <2> HIDE DEF d, e, a, b
  <2>2. j[k] \in Range(parts[d]) /\ j[k] \in Range(parts[e])
    BY <2>1 DEF Range
  <2>3. d = e
    BY <2>1, <2>2, <1>12
  <2>4. a = b
    BY <2>1, <2>3, <1>12 DEF IsInjective
  <2> QED
    BY <2>1, <2>3, <2>4, <1>7
<1>13. ASSUME NEW q \in Nat, \A d \in 1..n : Len(parts[d]) <= q
       PROVE  Len(j) <= n * q
  <2>1. P \in SUBSET ((1..n) \X (1..q))
    <3> SUFFICES ASSUME NEW p \in P
                 PROVE  p \in (1..n) \X (1..q)
      OBVIOUS
    <3>1. PICK d \in 1..n : \E i \in 1..Len(parts[d]) : p = <<d, i>>
      BY <1>2
    <3>2. PICK i \in 1..Len(parts[d]) : p = <<d, i>>
      BY <3>1
    <3>3. i \in 1..q
      BY <1>1, <1>13
    <3> QED
      BY <3>2, <3>3
  <2>2. IsFiniteSet(1..n) /\ Cardinality(1..n) = n /\ IsFiniteSet(1..q) /\ Cardinality(1..q) = q
    BY FS_Interval
  <2> DEFINE X == 1..n
             Y == 1..q
  <2> HIDE DEF X, Y
  <2>3. IsFiniteSet(X \X Y) /\ Cardinality(X \X Y) = n * q
    <3>1. IsFiniteSet(X) /\ Cardinality(X) = n /\ IsFiniteSet(Y) /\ Cardinality(Y) = q
      BY <2>2 DEF X, Y
    <3>2. IsFiniteSet(X \X Y) /\ Cardinality(X \X Y) = Cardinality(X) * Cardinality(Y)
      BY <3>1, FS_Product, Zenon
    <3> QED
      BY <3>1, <3>2
  <2>4. Cardinality(P) <= n * q
    <3>1. P \in SUBSET (X \X Y)
      BY <2>1 DEF X, Y
    <3>2. Cardinality(P) <= Cardinality(X \X Y)
      BY <3>1, <2>3, FS_Subset
    <3> QED
      BY <3>2, <2>3
  <2> QED
    BY <2>4, <1>10 DEF m
<1> QED
  BY <1>10, <1>11, <1>12, <1>13 DEF j

(* Two lists without a repetition, and with nothing in common.             *)
LEMMA Concatenating ==
  ASSUME NEW T, NEW s \in Seq(T), NEW t \in Seq(T)
  PROVE  /\ s \o t \in Seq(T) /\ Len(s \o t) = Len(s) + Len(t)
         /\ \A x : x \in Range(s \o t) <=> x \in Range(s) \/ x \in Range(t)
         /\ IsInjective(s) /\ IsInjective(t) /\ Range(s) \cap Range(t) = {} => IsInjective(s \o t)
<1> DEFINE u == s \o t
           m == Len(s)
           n == Len(t)
<1>1. m \in Nat /\ n \in Nat /\ DOMAIN s = 1..m /\ DOMAIN t = 1..n
  BY LenProperties
<1>2. u \in Seq(T) /\ Len(u) = m + n
      /\ \A i \in 1..(m + n) : u[i] = IF i <= m THEN s[i] ELSE t[i - m]
  BY <1>1, ConcatProperties
<1>3. DOMAIN u = 1..(m + n)
  BY <1>2, LenProperties
<1> HIDE DEF u, m, n
<1>4. \A i \in 1..m : i \in 1..(m + n) /\ u[i] = s[i]
  BY <1>1, <1>2
<1>5. \A i \in 1..n : (i + m) \in 1..(m + n) /\ u[i + m] = t[i]
  BY <1>1, <1>2
<1>6. \A i \in 1..(m + n) : i \in 1..m \/ (i - m) \in 1..n
  BY <1>1
<1>7. ASSUME NEW x
      PROVE  x \in Range(u) <=> x \in Range(s) \/ x \in Range(t)
  <2>1. ASSUME x \in Range(u)
        PROVE  x \in Range(s) \/ x \in Range(t)
    <3>1. PICK i \in 1..(m + n) : x = u[i]
      BY <2>1, <1>3 DEF Range
    <3>2. CASE i \in 1..m
      BY <3>1, <3>2, <1>1, <1>4 DEF Range
    <3>3. CASE (i - m) \in 1..n
      <4>1. (i - m) + m = i
        BY <1>1
      <4>2. x = t[i - m]
        BY <3>1, <3>3, <4>1, <1>5
      <4> QED
        BY <4>2, <3>3, <1>1 DEF Range
    <3> QED
      BY <3>2, <3>3, <1>6
  <2>2. ASSUME x \in Range(s)
        PROVE  x \in Range(u)
    BY <2>2, <1>1, <1>3, <1>4 DEF Range
  <2>3. ASSUME x \in Range(t)
        PROVE  x \in Range(u)
    <3>1. PICK i \in 1..n : x = t[i]
      BY <2>3, <1>1 DEF Range
    <3>2. (i + m) \in DOMAIN u /\ u[i + m] = x
      BY <3>1, <1>3, <1>5
    <3> QED
      BY <3>2 DEF Range
  <2> QED
    BY <2>1, <2>2, <2>3
<1>8. ASSUME IsInjective(s), IsInjective(t), Range(s) \cap Range(t) = {}
      PROVE  IsInjective(u)
  <2> SUFFICES ASSUME NEW i \in 1..(m + n), NEW j \in 1..(m + n), u[i] = u[j]
               PROVE  i = j
    BY <1>3 DEF IsInjective
  <2>1. \A k \in 1..(m + n) : (k \in 1..m /\ u[k] = s[k] /\ u[k] \in Range(s))
                                \/ ((k - m) \in 1..n /\ u[k] = t[k - m] /\ u[k] \in Range(t))
    <3> SUFFICES ASSUME NEW k \in 1..(m + n)
                 PROVE  \/ k \in 1..m /\ u[k] = s[k] /\ u[k] \in Range(s)
                        \/ (k - m) \in 1..n /\ u[k] = t[k - m] /\ u[k] \in Range(t)
      OBVIOUS
    <3>1. ASSUME k \in 1..m
          PROVE  u[k] = s[k] /\ u[k] \in Range(s)
      BY <3>1, <1>1, <1>4 DEF Range
    <3>2. ASSUME (k - m) \in 1..n
          PROVE  u[k] = t[k - m] /\ u[k] \in Range(t)
      <4>1. (k - m) + m = k
        BY <1>1
      <4>2. u[k] = t[k - m]
        BY <3>2, <4>1, <1>5
      <4> QED
        BY <4>2, <3>2, <1>1 DEF Range
    <3> QED
      BY <3>1, <3>2, <1>6
  <2>2. CASE i \in 1..m /\ u[i] = s[i] /\ u[i] \in Range(s)
    <3>1. j \in 1..m /\ u[j] = s[j]
      BY <2>1, <2>2, <1>8
    <3> QED
      BY <3>1, <2>2, <1>1, <1>8 DEF IsInjective
  <2>3. CASE (i - m) \in 1..n /\ u[i] = t[i - m] /\ u[i] \in Range(t)
    <3>1. (j - m) \in 1..n /\ u[j] = t[j - m]
      BY <2>1, <2>3, <1>8
    <3>2. i - m = j - m
      BY <3>1, <2>3, <1>1, <1>8 DEF IsInjective
    <3> QED
      BY <3>2, <1>1
  <2> QED
    BY <2>1, <2>2, <2>3
<1> QED
  BY <1>2, <1>7, <1>8 DEF u, m, n

-----------------------------------------------------------------------------
(* Pages of documents                                                       *)

(* The documents that have a page in a list.                               *)
Documents(s) == {FileOf(x) : x \in Range(s)}

(* The places of the pages of a file.                                      *)
LEMMA Placing ==
  ASSUME NEW T, NEW s \in Seq(T), NEW f
  PROVE  /\ PlacesOf(s, f) \in SUBSET (1..Len(s))
         /\ \A i \in 1..Len(s) : i \in PlacesOf(s, f) <=> FileOf(s[i]) = f
         /\ IsFiniteSet(PlacesOf(s, f)) /\ Cardinality(PlacesOf(s, f)) \in Nat
         /\ PlacesOf(s, f) = {} <=> ~\E x \in Range(s) : FileOf(x) = f
<1>1. Len(s) \in Nat /\ DOMAIN s = 1..Len(s)
  BY LenProperties
<1>2. PlacesOf(s, f) \in SUBSET (1..Len(s))
  BY <1>1 DEF PlacesOf
<1>3. IsFiniteSet(PlacesOf(s, f)) /\ Cardinality(PlacesOf(s, f)) \in Nat
  BY <1>2, Selecting
<1>4. \A i \in 1..Len(s) : i \in PlacesOf(s, f) <=> FileOf(s[i]) = f
  BY <1>1 DEF PlacesOf
<1>5. PlacesOf(s, f) = {} <=> ~\E x \in Range(s) : FileOf(x) = f
  BY <1>1 DEF PlacesOf, Range
<1> QED
  BY <1>2, <1>3, <1>4, <1>5

(* The pages of a document that a list does not have.                      *)
LEMMA MissingPages ==
  ASSUME NEW T, NEW s, NEW from \in Seq(T), NEW f
  PROVE  /\ Missing(s, from, f) \in Seq(T) /\ IsInjective(Missing(s, from, f))
         /\ \A x : x \in Range(Missing(s, from, f))
                     <=> x \in Range(from) /\ FileOf(x) = f /\ x \notin Range(s)
<1> DEFINE I == {i \in PlacesOf(from, f) : from[i] \notin Range(s)}
           a == At(from, I)
<1>1. /\ Len(from) \in Nat /\ DOMAIN from = 1..Len(from)
      /\ PlacesOf(from, f) \in SUBSET (1..Len(from))
      /\ \A i \in 1..Len(from) : i \in PlacesOf(from, f) <=> FileOf(from[i]) = f
  BY LenProperties, Placing
<1>2. I \in SUBSET (1..Len(from))
      /\ \A i \in 1..Len(from) : i \in I <=> FileOf(from[i]) = f /\ from[i] \notin Range(s)
  BY <1>1
<1>3. Missing(s, from, f) = Distinct(a)
  BY DEF Missing
<1> HIDE DEF I
<1>4. a \in Seq(T) /\ \A x : x \in Range(a) <=> \E i \in I : from[i] = x
  BY <1>2, Selecting
<1>5. \A x : x \in Range(a) <=> x \in Range(from) /\ FileOf(x) = f /\ x \notin Range(s)
  BY <1>1, <1>2, <1>4 DEF Range
<1> HIDE DEF a
<1>6. Distinct(a) \in Seq(T) /\ Range(Distinct(a)) = Range(a) /\ IsInjective(Distinct(a))
  BY <1>4, Distinguishing
<1> QED
  BY <1>3, <1>5, <1>6

(* Documents are given pages: what was there stays, what is new are pages  *)
(* of documents, none comes twice, and every document that can have a page *)
(* has one.                                                                *)
THEOREM Filling ==
  ASSUME NEW T, NEW D, NEW s \in Seq(T), NEW docs \in Seq(D), NEW from \in Seq(T), NEW quota \in Nat
  PROVE  LET filled == Filled(s, docs, from, quota)
         IN  /\ filled \in Seq(T)
             /\ Range(s) \subseteq Range(filled)
             /\ \A x \in Range(filled) \ Range(s) : x \in Range(from) /\ FileOf(x) \in Range(docs)
             /\ IsInjective(s) /\ IsInjective(docs) => IsInjective(filled)
             /\ quota > 0 => Documents(from) \cap Range(docs) \subseteq Documents(filled)
<1> DEFINE n == Len(docs)
           due(d) == Max({0, quota - Cardinality(PlacesOf(s, docs[d]))})
           parts == [d \in 1..n |-> Take(Missing(s, from, docs[d]), due(d))]
           new == Joined(parts)
           filled == s \o new
<1>1. n \in Nat /\ DOMAIN docs = 1..n
  BY LenProperties
<1>2. Filled(s, docs, from, quota) = filled
  BY <1>1 DEF Filled
<1>3. ASSUME NEW d \in 1..n
      PROVE  due(d) \in Nat /\ (due(d) = 0 => Cardinality(PlacesOf(s, docs[d])) >= quota)
  <2> DEFINE c == Cardinality(PlacesOf(s, docs[d]))
             x == quota - c
  <2>1. c \in Nat
    BY Placing
  <2>2. \E y \in {0, x} : \A z \in {0, x} : y >= z
    BY <2>1
  <2>3. Max({0, x}) \in {0, x} /\ \A z \in {0, x} : Max({0, x}) >= z
    BY <2>2 DEF Max
  <2> HIDE DEF c
  <2>4. x \in Int
    BY <2>1
  <2>5. due(d) = Max({0, x})
    BY DEF c
  <2> HIDE DEF due
  <2>6. due(d) \in Nat /\ (due(d) = 0 => c >= quota)
    BY <2>1, <2>3, <2>4, <2>5
  <2> QED
    BY <2>6 DEF c
<1> HIDE DEF due
<1>4. ASSUME NEW d \in 1..n
      PROVE  /\ parts[d] \in Seq(T) /\ IsInjective(parts[d])
             /\ \A x \in Range(parts[d]) : x \in Range(from) /\ FileOf(x) = docs[d] /\ x \notin Range(s)
             /\ due(d) > 0 => \A x \in Range(from) :
                  FileOf(x) = docs[d] /\ x \notin Range(s) => Range(parts[d]) # {}
  <2> DEFINE m == Missing(s, from, docs[d])
             p == Take(m, due(d))
  <2>1. /\ m \in Seq(T) /\ IsInjective(m)
        /\ \A x : x \in Range(m) <=> x \in Range(from) /\ FileOf(x) = docs[d] /\ x \notin Range(s)
    BY MissingPages
  <2>2. parts[d] = p
    OBVIOUS
  <2> HIDE DEF m, parts
  <2>3. /\ p \in Seq(T) /\ IsInjective(p) /\ Range(p) \subseteq Range(m)
        /\ Len(p) = IF due(d) <= Len(m) THEN due(d) ELSE Len(m)
    BY <1>3, <2>1, Taking
  <2>4. ASSUME due(d) > 0, NEW x \in Range(m)
        PROVE  Range(p) # {}
    <3>1. Len(m) \in Nat /\ Len(p) \in Nat /\ DOMAIN p = 1..Len(p) /\ DOMAIN m = 1..Len(m)
      BY <2>1, <2>3, LenProperties
    <3>2. Len(m) > 0
      BY <3>1, <2>4 DEF Range
    <3>3. 1 \in 1..Len(p)
      BY <1>3, <2>3, <2>4, <3>1, <3>2
    <3> QED
      BY <3>1, <3>3 DEF Range
  <2> QED
    BY <2>1, <2>2, <2>3, <2>4
<1>5. parts \in [1..n -> Seq(T)]
  BY <1>4
<1> HIDE DEF parts, n
<1>6. /\ new \in Seq(T)
      /\ \A x : x \in Range(new) <=> \E d \in 1..n : x \in Range(parts[d])
  BY <1>1, <1>5, Joining
<1>7. ASSUME IsInjective(docs)
      PROVE  IsInjective(new)
  <2>1. \A d, e \in 1..n : d # e => Range(parts[d]) \cap Range(parts[e]) = {}
    BY <1>1, <1>4, <1>7 DEF IsInjective
  <2>2. \A d \in 1..n : IsInjective(parts[d])
    BY <1>4
  <2> QED
    BY <1>1, <1>5, <2>1, <2>2, Joining
<1> HIDE DEF new
<1>8. /\ filled \in Seq(T)
      /\ \A x : x \in Range(filled) <=> x \in Range(s) \/ x \in Range(new)
      /\ IsInjective(s) /\ IsInjective(new) /\ Range(s) \cap Range(new) = {} => IsInjective(filled)
  BY <1>6, Concatenating
<1>9. Range(s) \cap Range(new) = {}
  BY <1>4, <1>6
<1> HIDE DEF filled
<1>10. ASSUME NEW x \in Range(filled) \ Range(s)
       PROVE  x \in Range(from) /\ FileOf(x) \in Range(docs)
  <2>1. PICK d \in 1..n : x \in Range(parts[d])
    BY <1>6, <1>8, <1>10
  <2>2. x \in Range(from) /\ FileOf(x) = docs[d]
    BY <1>4, <2>1
  <2> QED
    BY <1>1, <2>2 DEF Range
<1>11. ASSUME quota > 0, NEW x \in Range(from), FileOf(x) \in Range(docs)
       PROVE  \E y \in Range(filled) : FileOf(y) = FileOf(x)
  <2>1. PICK d \in 1..n : docs[d] = FileOf(x)
    BY <1>1, <1>11 DEF Range
  <2>2. CASE \E y \in Range(s) : FileOf(y) = FileOf(x)
    BY <2>2, <1>8
  <2>3. CASE ~\E y \in Range(s) : FileOf(y) = FileOf(x)
    <3>1. PlacesOf(s, docs[d]) = {}
      BY <2>1, <2>3, Placing
    <3>2. Cardinality(PlacesOf(s, docs[d])) = 0
      BY <3>1, FS_EmptySet
    <3>3. due(d) > 0
      BY <1>3, <1>11, <3>2
    <3>4. x \notin Range(s)
      BY <2>3
    <3>5. Range(parts[d]) # {}
      BY <1>4, <2>1, <3>3, <3>4
    <3>6. PICK y \in Range(parts[d]) : TRUE
      BY <3>5
    <3>7. FileOf(y) = FileOf(x) /\ y \in Range(filled)
      BY <1>4, <1>6, <1>8, <2>1, <3>6
    <3> QED
      BY <3>7
  <2> QED
    BY <2>2, <2>3
<1>12. quota > 0 => Documents(from) \cap Range(docs) \subseteq Documents(filled)
  BY <1>11 DEF Documents
<1> QED
  BY <1>2, <1>7, <1>8, <1>9, <1>10, <1>12

(* Adjacent pages take places of their documents: what comes is among them,*)
(* none comes twice, and no document loses all of its pages.               *)
LEMMA Replacing ==
  ASSUME NEW T, NEW D, NEW s \in Seq(T), NEW docs \in Seq(D), NEW near \in Seq(T), NEW quota \in Nat
  PROVE  LET placed == WithAdjacent(s, docs, near, quota)
         IN  /\ placed \in Seq(T)
             /\ Range(placed) \subseteq Range(s) \cup Range(near)
             /\ IsInjective(s) /\ IsInjective(docs) => IsInjective(placed)
             /\ Documents(s) \subseteq Documents(placed)
<1> DEFINE filled == Filled(s, docs, near, quota)
           n == Len(filled)
           given(f) == {i \in PlacesOf(filled, f) : i # Min(PlacesOf(filled, f)) /\ filled[i] \notin Range(near)}
           mine(i) == given(FileOf(filled[i]))
           turn(i) == Cardinality({j \in mine(i) : j >= i})
           missing(i) == Missing(filled, near, FileOf(filled[i]))
           taken(i) == i \in mine(i) /\ turn(i) <= Len(missing(i))
           placed == WithAdjacent(s, docs, near, quota)
<1>1. /\ filled \in Seq(T) /\ Range(s) \subseteq Range(filled)
      /\ \A x \in Range(filled) \ Range(s) : x \in Range(near)
      /\ IsInjective(s) /\ IsInjective(docs) => IsInjective(filled)
  BY Filling
<1>2. placed = [i \in DOMAIN filled |-> IF taken(i) THEN missing(i)[turn(i)] ELSE filled[i]]
  BY DEF WithAdjacent
<1> HIDE DEF filled, placed
<1>3. n \in Nat /\ DOMAIN filled = 1..n /\ filled \in [1..n -> T]
  BY <1>1, LenProperties
<1> HIDE DEF n
<1>4. ASSUME NEW f
      PROVE  /\ PlacesOf(filled, f) \in SUBSET (1..n) /\ IsFiniteSet(PlacesOf(filled, f))
             /\ \A i \in 1..n : i \in PlacesOf(filled, f) <=> FileOf(filled[i]) = f
  BY <1>1, Placing DEF n
<1>5. ASSUME NEW i \in 1..n
      PROVE  /\ missing(i) \in Seq(T) /\ IsInjective(missing(i))
             /\ \A x \in Range(missing(i)) :
                  x \in Range(near) /\ FileOf(x) = FileOf(filled[i]) /\ x \notin Range(filled)
  BY <1>1, MissingPages
<1>6. ASSUME NEW i \in 1..n, NEW k \in 1..n, i < k, FileOf(filled[i]) = FileOf(filled[k]),
             i \in mine(i), k \in mine(k)
      PROVE  turn(k) < turn(i)
  <2> DEFINE A == {j \in mine(i) : j >= i}
             B == {j \in mine(k) : j >= k}
  <2>1. IsFiniteSet(A) /\ IsFiniteSet(B)
    BY <1>4, FS_Subset
  <2>2. B \in SUBSET A /\ i \in A /\ i \notin B
    BY <1>3, <1>4, <1>6
  <2>3. turn(i) = Cardinality(A) /\ turn(k) = Cardinality(B)
    OBVIOUS
  <2> HIDE DEF A, B, turn
  <2>4. Cardinality(A) \in Nat /\ Cardinality(B) \in Nat
    BY <2>1, FS_CardinalityType
  <2>5. Cardinality(B) <= Cardinality(A) /\ Cardinality(A) # Cardinality(B)
    BY <2>1, <2>2, FS_Subset
  <2> QED
    BY <2>3, <2>4, <2>5
<1>7. ASSUME NEW i \in 1..n, i \in mine(i)
      PROVE  turn(i) \in Nat /\ turn(i) >= 1
  <2> DEFINE A == {j \in mine(i) : j >= i}
  <2>1. IsFiniteSet(A) /\ i \in A
    BY <1>4, <1>7, FS_Subset
  <2>2. turn(i) = Cardinality(A)
    OBVIOUS
  <2> HIDE DEF A, turn
  <2>3. Cardinality(A) \in Nat /\ Cardinality(A) # 0
    BY <2>1, FS_CardinalityType, FS_EmptySet
  <2> QED
    BY <2>2, <2>3
<1> HIDE DEF turn, missing
<1>8. ASSUME NEW i \in 1..n, taken(i)
      PROVE  /\ turn(i) \in 1..Len(missing(i)) /\ placed[i] = missing(i)[turn(i)]
             /\ placed[i] \in Range(missing(i)) /\ placed[i] \in T
  <2>1. Len(missing(i)) \in Nat /\ DOMAIN missing(i) = 1..Len(missing(i))
        /\ missing(i) \in [1..Len(missing(i)) -> T]
    BY <1>5, LenProperties
  <2>2. turn(i) \in 1..Len(missing(i))
    BY <2>1, <1>7, <1>8
  <2>3. placed[i] = missing(i)[turn(i)]
    BY <1>2, <1>3, <1>8
  <2> QED
    BY <2>1, <2>2, <2>3 DEF Range
<1>9. ASSUME NEW i \in 1..n, ~taken(i)
      PROVE  placed[i] = filled[i] /\ placed[i] \in Range(filled) /\ placed[i] \in T
  BY <1>2, <1>3, <1>9 DEF Range
<1>10. DOMAIN placed = 1..n /\ placed \in [1..n -> T]
  <2>1. \A i \in 1..n : placed[i] \in T
    BY <1>8, <1>9
  <2> HIDE DEF taken
  <2> QED
    BY <2>1, <1>2, <1>3
<1>11. placed \in Seq(T)
  BY <1>3, <1>10, SeqDef
<1>12. ASSUME NEW i \in 1..n
       PROVE  /\ FileOf(placed[i]) = FileOf(filled[i])
              /\ placed[i] \in Range(s) \cup Range(near)
  <2>1. CASE taken(i)
    BY <2>1, <1>5, <1>8
  <2>2. CASE ~taken(i)
    BY <2>2, <1>1, <1>9
  <2> QED
    BY <2>1, <2>2
<1>13. Range(placed) \subseteq Range(s) \cup Range(near)
  BY <1>10, <1>12 DEF Range
<1>14. ASSUME NEW x \in Range(s)
       PROVE  \E y \in Range(placed) : FileOf(y) = FileOf(x)
  <2>1. PICK i \in 1..n : filled[i] = x
    BY <1>1, <1>3 DEF Range
  <2>2. FileOf(placed[i]) = FileOf(x) /\ placed[i] \in Range(placed)
    BY <2>1, <1>10, <1>12 DEF Range
  <2> QED
    BY <2>2
<1>15. ASSUME IsInjective(s), IsInjective(docs)
       PROVE  IsInjective(placed)
  <2> SUFFICES ASSUME NEW i \in 1..n, NEW k \in 1..n, i < k, placed[i] = placed[k]
               PROVE  FALSE
    BY <1>3, <1>10 DEF IsInjective
  <2>1. \A a, b \in 1..n : filled[a] = filled[b] => a = b
    BY <1>1, <1>3, <1>15 DEF IsInjective
  <2>2. FileOf(filled[i]) = FileOf(filled[k])
    BY <1>12
  <2>3. missing(i) = missing(k)
    BY <2>2 DEF missing
  <2>4. CASE taken(i) /\ taken(k)
    <3>1. turn(i) = turn(k)
      <4>1. turn(i) \in DOMAIN missing(i) /\ turn(k) \in DOMAIN missing(i)
            /\ missing(i)[turn(i)] = missing(i)[turn(k)]
        BY <2>3, <2>4, <1>5, <1>8, LenProperties
      <4> QED
        BY <4>1, <1>5 DEF IsInjective
    <3>2. turn(k) < turn(i) /\ turn(i) \in Nat
      BY <2>2, <2>4, <1>6, <1>7
    <3> QED
      BY <3>1, <3>2
  <2>5. CASE taken(i) /\ ~taken(k)
    BY <2>5, <1>5, <1>8, <1>9
  <2>6. CASE ~taken(i) /\ taken(k)
    BY <2>6, <1>5, <1>8, <1>9
  <2>7. CASE ~taken(i) /\ ~taken(k)
    <3>1. filled[i] = filled[k]
      BY <2>7, <1>9
    <3> QED
      BY <3>1, <2>1
  <2> QED
    BY <2>4, <2>5, <2>6, <2>7
<1>16. Documents(s) \subseteq Documents(placed)
  BY <1>14 DEF Documents
<1> QED
  BY <1>11, <1>13, <1>15, <1>16 DEF placed

(* What a document keeps: pages of its own, none twice, no more than its   *)
(* quota, and at least one.                                                *)
LEMMA Keeping ==
  ASSUME NEW T \in SUBSET (Nat \X Nat), NEW s \in Seq(T), NEW f, NEW adjacent, NEW quota \in Nat
  PROVE  LET kept == Kept(s, f, adjacent, quota)
         IN  /\ kept \in Seq(T) /\ Len(kept) <= quota
             /\ \A x \in Range(kept) : x \in Range(s) /\ FileOf(x) = f
             /\ IsInjective(s) => IsInjective(kept)
             /\ quota > 0 /\ f \in Documents(s) => Range(kept) # {}
<1> DEFINE places == PlacesOf(s, f)
           class == [i \in places |-> IF i = Min(places) THEN 0 ELSE IF s[i] \in adjacent THEN 1 ELSE 2]
           distance == [i \in places |-> LET n == NumberOf(s[i])
                                             m == NumberOf(s[Min(places)])
                                         IN  IF n < m THEN m - n ELSE n - m]
           before(i, j) ==
             \/ class[i] < class[j]
             \/ class[i] = class[j]
                  /\ (distance[i] < distance[j] \/ (distance[i] = distance[j] /\ i < j))
           R == {p \in places \X places : before(p[1], p[2])}
           o == SortedBy(places, R)
           t == Take(o, quota)
           kept == Kept(s, f, adjacent, quota)
<1>1. kept = [i \in DOMAIN t |-> s[t[i]]]
  <2> DEFINE Q == {p \in places \X places :
                     LET c(i) == IF i = Min(places) THEN 0 ELSE IF s[i] \in adjacent THEN 1 ELSE 2
                         d(i) == LET n == NumberOf(s[i])
                                     m == NumberOf(s[Min(places)])
                                 IN  IF n < m THEN m - n ELSE n - m
                     IN  \/ c(p[1]) < c(p[2])
                         \/ c(p[1]) = c(p[2]) /\ (d(p[1]) < d(p[2]) \/ (d(p[1]) = d(p[2]) /\ p[1] < p[2]))}
  <2>1. Q = R
    OBVIOUS
  <2>2. kept = [i \in DOMAIN Take(SortedBy(places, Q), quota) |-> s[Take(SortedBy(places, Q), quota)[i]]]
    BY DEF Kept
  <2> HIDE DEF Q, R
  <2> QED
    BY <2>1, <2>2
<1>2. /\ places \in SUBSET (1..Len(s)) /\ IsFiniteSet(places)
      /\ \A i \in 1..Len(s) : i \in places <=> FileOf(s[i]) = f
      /\ places = {} <=> ~\E x \in Range(s) : FileOf(x) = f
  BY Placing
<1>3. Len(s) \in Nat /\ DOMAIN s = 1..Len(s) /\ s \in [1..Len(s) -> T]
  BY LenProperties
<1>4. \A i \in places : class[i] \in Nat
  OBVIOUS
<1>5. \A i \in places : distance[i] \in Nat
  <2> SUFFICES ASSUME NEW i \in places
               PROVE  distance[i] \in Nat
    OBVIOUS
  <2>1. Min(places) \in places
    <3>1. places \in SUBSET Nat /\ places # {}
      BY <1>2, <1>3
    <3> QED
      BY <3>1, Least
  <2>2. s[i] \in Nat \X Nat /\ s[Min(places)] \in Nat \X Nat
    BY <2>1, <1>2, <1>3
  <2>3. NumberOf(s[i]) \in Nat /\ NumberOf(s[Min(places)]) \in Nat
    BY <2>2 DEF NumberOf
  <2> QED
    BY <2>3
<1>6. \A i, j \in places : <<i, j>> \in R <=> before(i, j)
  OBVIOUS
<1> HIDE DEF places, class, distance, R
<1>7. StrictOrder(places, R)
  <2>1. \A i \in places : i \in Nat
    BY <1>2, <1>3
  <2>2. ASSUME NEW i \in places
        PROVE  <<i, i>> \notin R
    <3>1. i \in Nat /\ class[i] \in Nat /\ distance[i] \in Nat
      BY <2>1, <1>4, <1>5
    <3>2. ~before(i, i)
      BY <3>1
    <3> QED
      BY <3>2, <1>6
  <2>3. ASSUME NEW i \in places, NEW j \in places, i # j
        PROVE  <<i, j>> \in R \/ <<j, i>> \in R
    <3>1. /\ i \in Nat /\ class[i] \in Nat /\ distance[i] \in Nat
          /\ j \in Nat /\ class[j] \in Nat /\ distance[j] \in Nat
      BY <2>1, <1>4, <1>5
    <3>2. before(i, j) \/ before(j, i)
      BY <2>3, <3>1
    <3> QED
      BY <3>2, <1>6
  <2>4. ASSUME NEW i \in places, NEW j \in places, NEW k \in places, <<i, j>> \in R, <<j, k>> \in R
        PROVE  <<i, k>> \in R
    <3>1. before(i, j) /\ before(j, k)
      BY <2>4, <1>6
    <3>2. /\ i \in Nat /\ j \in Nat /\ k \in Nat
          /\ class[i] \in Nat /\ class[j] \in Nat /\ class[k] \in Nat
          /\ distance[i] \in Nat /\ distance[j] \in Nat /\ distance[k] \in Nat
      BY <2>1, <1>4, <1>5
    <3>3. before(i, k)
      BY <3>1, <3>2
    <3> QED
      BY <3>3, <1>6
  <2> QED
    BY <2>2, <2>3, <2>4 DEF StrictOrder
<1>8. o \in Seq(places) /\ IsInjective(o) /\ Range(o) = places
  BY <1>2, <1>7, Sorting DEF Lists
<1> HIDE DEF o
<1>9. /\ t \in Seq(places) /\ IsInjective(t)
      /\ Len(t) = IF quota <= Len(o) THEN quota ELSE Len(o)
  BY <1>8, Taking
<1>10. Len(o) \in Nat /\ DOMAIN o = 1..Len(o)
  BY <1>8, LenProperties
<1> HIDE DEF t, kept
<1>11. Len(t) \in Nat /\ DOMAIN t = 1..Len(t) /\ t \in [1..Len(t) -> places] /\ Len(t) <= quota
  BY <1>9, <1>10, LenProperties
<1>12. \A i \in 1..Len(t) : kept[i] = s[t[i]] /\ t[i] \in 1..Len(s) /\ FileOf(s[t[i]]) = f
  BY <1>1, <1>2, <1>11
<1>13. kept \in [1..Len(t) -> T] /\ DOMAIN kept = 1..Len(t)
  BY <1>1, <1>3, <1>11, <1>12
<1>14. kept \in Seq(T) /\ Len(kept) = Len(t)
  BY <1>11, <1>13, SeqDef, LenProperties
<1>15. \A x \in Range(kept) : x \in Range(s) /\ FileOf(x) = f
  BY <1>3, <1>12, <1>13 DEF Range
<1>16. ASSUME IsInjective(s)
       PROVE  IsInjective(kept)
  <2> SUFFICES ASSUME NEW i \in 1..Len(t), NEW j \in 1..Len(t), kept[i] = kept[j]
               PROVE  i = j
    BY <1>13 DEF IsInjective
  <2>1. t[i] = t[j]
    BY <1>3, <1>12, <1>16 DEF IsInjective
  <2> QED
    BY <2>1, <1>9, <1>11 DEF IsInjective
<1>17. ASSUME quota > 0, \E x \in Range(s) : FileOf(x) = f
       PROVE  Range(kept) # {}
  <2>1. places # {}
    BY <1>2, <1>17
  <2>2. Len(o) > 0
    BY <2>1, <1>8, <1>10 DEF Range
  <2>3. 1 \in 1..Len(t)
    BY <2>2, <1>9, <1>10, <1>11, <1>17
  <2> QED
    BY <2>3, <1>13 DEF Range
<1>18. quota > 0 /\ f \in Documents(s) => Range(kept) # {}
  BY <1>17 DEF Documents
<1> QED
  BY <1>11, <1>14, <1>15, <1>16, <1>18 DEF kept

(* A list that starts with what is kept, when there is room for it.        *)
LEMMA Preferring ==
  ASSUME NEW T, NEW s \in Seq(T), NEW t \in Seq(T), NEW n \in Nat
  PROVE  /\ Take(Distinct(s \o t), n) \in Seq(T) /\ IsInjective(Take(Distinct(s \o t), n))
         /\ Range(Take(Distinct(s \o t), n)) \subseteq Range(s) \cup Range(t)
         /\ IsInjective(s) /\ Len(s) <= n => Range(s) \subseteq Range(Take(Distinct(s \o t), n))
<1> DEFINE u == s \o t
           d == Distinct(u)
           k == Take(d, n)
<1>1. u \in Seq(T) /\ \A x : x \in Range(u) <=> x \in Range(s) \/ x \in Range(t)
  BY Concatenating
<1>2. d \in Seq(T) /\ Range(d) = Range(u) /\ IsInjective(d)
  <2> HIDE DEF u
  <2> QED
    BY <1>1, Distinguishing
<1>3. IsInjective(s) => Len(s) <= Len(d) /\ \A i \in 1..Len(s) : d[i] = s[i]
  BY DistinctBegins
<1> HIDE DEF u, d
<1>4. /\ k \in Seq(T) /\ IsInjective(k) /\ Range(k) \subseteq Range(d)
      /\ Len(k) = IF n <= Len(d) THEN n ELSE Len(d)
      /\ \A i \in 1..Len(k) : k[i] = d[i]
  BY <1>2, Taking
<1> HIDE DEF k
<1>5. ASSUME IsInjective(s), Len(s) <= n
      PROVE  Range(s) \subseteq Range(k)
  <2>1. Len(s) \in Nat /\ DOMAIN s = 1..Len(s) /\ Len(k) \in Nat /\ DOMAIN k = 1..Len(k) /\ Len(d) \in Nat
    BY <1>2, <1>4, LenProperties
  <2>2. Len(s) <= Len(k)
    BY <1>3, <1>4, <1>5, <2>1
  <2>3. \A i \in 1..Len(s) : i \in 1..Len(k) /\ k[i] = s[i]
    BY <1>3, <1>4, <1>5, <2>1, <2>2
  <2> QED
    BY <2>1, <2>3 DEF Range
<1> QED
  BY <1>1, <1>2, <1>4, <1>5 DEF k, d, u

(* The evidence of documents: pages of the ranking and of the pool, none   *)
(* twice; with room for the quotas every document that has a page in the   *)
(* pool has one in the evidence.                                           *)
THEOREM QuotaKeeping ==
  ASSUME NEW T \in SUBSET (Nat \X Nat), NEW D, NEW ranked \in Seq(T), NEW pool \in Seq(T),
         NEW docs \in Seq(D), NEW adjacent, NEW quota \in Nat, NEW desired \in Nat,
         IsInjective(ranked), IsInjective(docs)
  PROVE  LET result == QuotaKept(ranked, pool, docs, adjacent, quota, desired)
         IN  /\ result \in Seq(T) /\ IsInjective(result)
             /\ Range(result) \subseteq Range(ranked) \cup Range(pool)
             /\ quota > 0 /\ Len(docs) * quota <= desired
                  => Documents(pool) \cap Range(docs) \subseteq Documents(result)
<1> DEFINE filled == Filled(ranked, docs, pool, quota)
           places == {i \in DOMAIN pool : pool[i] \in adjacent /\ FileOf(pool[i]) \in Range(docs)}
           near == At(pool, places)
           placed == IF quota = 1 THEN filled ELSE WithAdjacent(filled, docs, near, quota)
           n == Len(docs)
           parts == [d \in 1..n |-> Kept(placed, docs[d], adjacent, quota)]
           kept == Joined(parts)
           last == Take(Distinct(kept \o placed), desired)
           result == QuotaKept(ranked, pool, docs, adjacent, quota, desired)
<1>1. n \in Nat /\ DOMAIN docs = 1..n /\ Len(pool) \in Nat /\ DOMAIN pool = 1..Len(pool)
  BY LenProperties
<1>2. result = IF Len(placed) <= desired THEN placed ELSE last
  BY <1>1 DEF QuotaKept
<1> HIDE DEF result
<1>3. /\ filled \in Seq(T) /\ IsInjective(filled)
      /\ Range(filled) \subseteq Range(ranked) \cup Range(pool)
      /\ quota > 0 => Documents(pool) \cap Range(docs) \subseteq Documents(filled)
  BY Filling
<1> HIDE DEF filled
<1>4. near \in Seq(T) /\ Range(near) \subseteq Range(pool)
  <2>1. places \in SUBSET (1..Len(pool))
    BY <1>1
  <2> HIDE DEF places
  <2>2. near \in Seq(T) /\ \A x : x \in Range(near) <=> \E i \in places : pool[i] = x
    BY <2>1, Selecting
  <2>3. \A i \in places : pool[i] \in Range(pool)
    BY <1>1, <2>1 DEF Range
  <2> QED
    BY <2>2, <2>3
<1> HIDE DEF near
<1>5. /\ placed \in Seq(T) /\ IsInjective(placed)
      /\ Range(placed) \subseteq Range(ranked) \cup Range(pool)
      /\ Documents(filled) \subseteq Documents(placed)
  <2>1. CASE quota = 1
    BY <2>1, <1>3
  <2>2. CASE quota # 1
    <3> DEFINE w == WithAdjacent(filled, docs, near, quota)
    <3>1. /\ w \in Seq(T) /\ Range(w) \subseteq Range(filled) \cup Range(near)
          /\ IsInjective(filled) /\ IsInjective(docs) => IsInjective(w)
          /\ Documents(filled) \subseteq Documents(w)
      BY <1>3, <1>4, Replacing
    <3>2. placed = w
      BY <2>2
    <3> HIDE DEF w, placed
    <3> QED
      BY <3>1, <3>2, <1>3, <1>4
  <2> QED
    BY <2>1, <2>2
<1> HIDE DEF placed
<1>6. ASSUME NEW d \in 1..n
      PROVE  /\ parts[d] \in Seq(T) /\ Len(parts[d]) <= quota /\ IsInjective(parts[d])
             /\ \A x \in Range(parts[d]) : x \in Range(placed) /\ FileOf(x) = docs[d]
             /\ quota > 0 /\ docs[d] \in Documents(placed) => Range(parts[d]) # {}
  <2> DEFINE p == Kept(placed, docs[d], adjacent, quota)
  <2>1. /\ p \in Seq(T) /\ Len(p) <= quota
        /\ \A x \in Range(p) : x \in Range(placed) /\ FileOf(x) = docs[d]
        /\ IsInjective(placed) => IsInjective(p)
        /\ quota > 0 /\ docs[d] \in Documents(placed) => Range(p) # {}
    BY <1>5, Keeping
  <2>2. parts[d] = p
    OBVIOUS
  <2> HIDE DEF p, parts
  <2> QED
    BY <2>1, <2>2, <1>5
<1>7. parts \in [1..n -> Seq(T)]
  BY <1>6
<1> HIDE DEF parts, n
<1>8. /\ kept \in Seq(T)
      /\ \A x : x \in Range(kept) <=> \E d \in 1..n : x \in Range(parts[d])
      /\ Len(kept) <= n * quota
      /\ IsInjective(kept)
  <2>1. \A d, e \in 1..n : d # e => Range(parts[d]) \cap Range(parts[e]) = {}
    <3> SUFFICES ASSUME NEW d \in 1..n, NEW e \in 1..n, NEW x \in Range(parts[d]) \cap Range(parts[e])
                 PROVE  d = e
      OBVIOUS
    <3>1. docs[d] = docs[e]
      BY <1>6
    <3> QED
      BY <3>1, <1>1 DEF IsInjective
  <2>2. \A d \in 1..n : IsInjective(parts[d]) /\ Len(parts[d]) <= quota
    BY <1>6
  <2> QED
    BY <1>1, <1>7, <2>1, <2>2, Joining
<1> HIDE DEF kept
<1>9. /\ last \in Seq(T) /\ IsInjective(last)
      /\ Range(last) \subseteq Range(kept) \cup Range(placed)
      /\ Len(kept) <= desired => Range(kept) \subseteq Range(last)
  BY <1>5, <1>8, Preferring
<1> HIDE DEF last
<1>10. Range(kept) \subseteq Range(placed)
  BY <1>6, <1>8
<1>11. result \in Seq(T) /\ IsInjective(result) /\ Range(result) \subseteq Range(ranked) \cup Range(pool)
  BY <1>2, <1>5, <1>9, <1>10
<1>12. ASSUME quota > 0, n * quota <= desired, NEW f \in Documents(pool) \cap Range(docs)
       PROVE  f \in Documents(result)
  <2>1. f \in Documents(placed)
    BY <1>3, <1>5, <1>12
  <2>2. CASE Len(placed) <= desired
    BY <2>1, <2>2, <1>2
  <2>3. CASE ~(Len(placed) <= desired)
    <3>1. PICK d \in 1..n : docs[d] = f
      BY <1>1, <1>12 DEF Range
    <3>2. PICK y \in Range(parts[d]) : TRUE
      BY <2>1, <3>1, <1>6, <1>12
    <3>3. y \in Range(kept) /\ FileOf(y) = f
      BY <3>1, <3>2, <1>6, <1>8
    <3>4. Len(kept) <= desired
      <4>1. Len(kept) \in Nat /\ n * quota \in Nat
        BY <1>1, <1>8, LenProperties
      <4> QED
        BY <4>1, <1>8, <1>12
    <3> QED
      BY <2>3, <3>3, <3>4, <1>2, <1>9 DEF Documents
  <2> QED
    BY <2>2, <2>3
<1> QED
  BY <1>11, <1>12 DEF result, n

(* Pages in the order of their files and numbers.                          *)
LEMMA PageOrdering ==
  ASSUME NEW S \in SUBSET (Nat \X Nat), IsFiniteSet(S)
  PROVE  Lists(InPageOrder(S), S)
<1>1. StrictOrder(S, Lexicographic(S))
  BY PairOrder
<1> QED
  BY <1>1, Sorting DEF InPageOrder

(* A permutation of a finite set is a list without a repetition.           *)
LEMMA Permuting ==
  ASSUME NEW S, IsFiniteSet(S), NEW l \in SetToSeqs(S)
  PROVE  l \in Seq(S) /\ IsInjective(l) /\ Len(l) = Cardinality(S)
<1>1. Cardinality(S) \in Nat
  BY FS_CardinalityType
<1>2. l \in [1..Cardinality(S) -> S]
      /\ \A i, j \in 1..Cardinality(S) : i # j => l[i] # l[j]
  BY DEF SetToSeqs
<1>3. l \in Seq(S) /\ Len(l) = Cardinality(S)
  BY <1>1, <1>2, SeqDef, LenProperties
<1>4. IsInjective(l)
  BY <1>2 DEF IsInjective
<1> QED
  BY <1>3, <1>4

(* A ranking has each of its elements once.                                *)
LEMMA Ranking ==
  ASSUME NEW S, IsFiniteSet(S), NEW n, NEW l \in Rankings(S, n)
  PROVE  l \in Seq(S) /\ IsInjective(l)
<1>1. PICK R \in SUBSET S : l \in SetToSeqs(R)
  BY DEF Rankings, kSubset
<1>2. IsFiniteSet(R)
  BY FS_Subset
<1>3. l \in Seq(R) /\ IsInjective(l)
  BY <1>1, <1>2, Permuting
<1> QED
  BY <1>3, SeqMonotonic

(* The archives that are heard, in their order.                            *)
LEMMA Hearing ==
  ASSUME NEW A, NEW s, NEW order \in Seq(A), IsInjective(order), NEW mapped
  PROVE  /\ Heard(s, order, mapped) \in Seq(A) /\ IsInjective(Heard(s, order, mapped))
         /\ Len(Heard(s, order, mapped)) <= Len(order)
         /\ \A a : a \in Range(Heard(s, order, mapped)) <=>
                     a \in Range(order) /\ \E page \in Range(s) : FileOf(page) \in mapped /\ ArchiveOfPage(page) = a
<1> DEFINE I == {i \in DOMAIN order :
                   \E page \in Range(s) : FileOf(page) \in mapped /\ ArchiveOfPage(page) = order[i]}
           h == Heard(s, order, mapped)
<1>1. Len(order) \in Nat /\ DOMAIN order = 1..Len(order)
  BY LenProperties
<1>2. h = At(order, I) /\ I \in SUBSET (1..Len(order))
  BY <1>1 DEF Heard
<1>3. \A i \in 1..Len(order) : i \in I <=>
        \E page \in Range(s) : FileOf(page) \in mapped /\ ArchiveOfPage(page) = order[i]
  BY <1>1
<1> HIDE DEF I, h
<1>4. \A i, j \in I : order[i] = order[j] => i = j
  BY <1>1, <1>2 DEF IsInjective
<1>5. /\ h \in Seq(A) /\ Len(h) = Cardinality(I) /\ IsInjective(h)
      /\ \A a : a \in Range(h) <=> \E i \in I : order[i] = a
  BY <1>2, <1>4, Selecting
<1>6. Cardinality(I) <= Len(order)
  <2>1. IsFiniteSet(1..Len(order)) /\ Cardinality(1..Len(order)) = Len(order)
    BY <1>1, FS_Interval
  <2> QED
    BY <1>2, <2>1, FS_Subset
<1>7. ASSUME NEW a
      PROVE  a \in Range(h) <=>
               a \in Range(order) /\ \E page \in Range(s) : FileOf(page) \in mapped /\ ArchiveOfPage(page) = a
  BY <1>1, <1>2, <1>3, <1>5 DEF Range
<1> QED
  BY <1>5, <1>6, <1>7 DEF h

(* The best pages of archives: one of each archive that is heard.  Where   *)
(* they are, every archive is heard.                                       *)
THEOREM Leading ==
  ASSUME NEW A, NEW T, NEW s \in Seq(T), NEW order \in Seq(A), IsInjective(order), NEW mapped,
         NEW best \in Leaders(s, order, mapped)
  PROVE  /\ best \in Seq(T) /\ IsInjective(best) /\ Len(best) <= Len(order)
         /\ Range(best) \subseteq Range(s)
         /\ \A e : Range(best) \subseteq Range(e) =>
              Range(Heard(s, order, mapped)) \subseteq Range(Heard(e, order, mapped))
<1> DEFINE h == Heard(s, order, mapped)
           n == Len(h)
<1>1. /\ h \in Seq(A) /\ IsInjective(h) /\ n <= Len(order)
      /\ \A a \in Range(h) : a \in Range(order)
  BY Hearing
<1>2. n \in Nat /\ DOMAIN h = 1..n
  BY <1>1, LenProperties
<1>3. /\ best \in [DOMAIN h -> {page \in Range(s) : FileOf(page) \in mapped}]
      /\ \A i \in DOMAIN h : ArchiveOfPage(best[i]) = h[i]
  BY DEF Leaders
<1> HIDE DEF h, n
<1>4. \A i \in 1..n : best[i] \in Range(s) /\ FileOf(best[i]) \in mapped /\ ArchiveOfPage(best[i]) = h[i]
  BY <1>2, <1>3
<1>5. Range(s) \subseteq T
  BY RangeOfSeq
<1>6. best \in [1..n -> T] /\ DOMAIN best = 1..n
  BY <1>2, <1>3, <1>4, <1>5
<1>7. best \in Seq(T) /\ Len(best) = n
  BY <1>2, <1>6, SeqDef, LenProperties
<1>8. IsInjective(best)
  BY <1>1, <1>2, <1>4, <1>6 DEF IsInjective
<1>9. Range(best) \subseteq Range(s)
  BY <1>4, <1>6 DEF Range
<1>10. ASSUME NEW e, Range(best) \subseteq Range(e), NEW a \in Range(h)
       PROVE  a \in Range(Heard(e, order, mapped))
  <2>1. PICK i \in 1..n : h[i] = a
    BY <1>2 DEF Range
  <2>2. best[i] \in Range(e) /\ FileOf(best[i]) \in mapped /\ ArchiveOfPage(best[i]) = a
    BY <2>1, <1>4, <1>6, <1>10 DEF Range
  <2>3. a \in Range(order)
    BY <1>1
  <2> QED
    BY <2>2, <2>3, Hearing
<1> QED
  BY <1>1, <1>7, <1>8, <1>9, <1>10 DEF h, n

(* The leaders come first, when there is room for them.                    *)
LEMMA Prioritising ==
  ASSUME NEW T, NEW leaders \in Seq(T), NEW ranked \in Seq(T), NEW pool \in Seq(T), NEW desired \in Nat
  PROVE  LET result == Prioritised(leaders, ranked, pool, desired)
         IN  /\ result \in Seq(T) /\ IsInjective(result)
             /\ Range(result) \subseteq Range(leaders) \cup Range(ranked) \cup Range(pool)
             /\ IsInjective(leaders) /\ Len(leaders) <= desired => Range(leaders) \subseteq Range(result)
<1> DEFINE rest == ranked \o pool
<1>1. rest \in Seq(T) /\ \A x : x \in Range(rest) <=> x \in Range(ranked) \/ x \in Range(pool)
  BY Concatenating
<1>2. (leaders \o ranked) \o pool = leaders \o rest
  BY ConcatAssociative
<1>3. Prioritised(leaders, ranked, pool, desired) = Take(Distinct(leaders \o rest), desired)
  BY <1>2 DEF Prioritised
<1> HIDE DEF rest
<1>4. /\ Take(Distinct(leaders \o rest), desired) \in Seq(T)
      /\ IsInjective(Take(Distinct(leaders \o rest), desired))
      /\ Range(Take(Distinct(leaders \o rest), desired)) \subseteq Range(leaders) \cup Range(rest)
      /\ IsInjective(leaders) /\ Len(leaders) <= desired
           => Range(leaders) \subseteq Range(Take(Distinct(leaders \o rest), desired))
  BY <1>1, Preferring
<1> QED
  BY <1>1, <1>3, <1>4

-----------------------------------------------------------------------------
(* Files of archives                                                        *)

(* Files of archives in turns: the files that were ranked, none twice, and *)
(* at least one of them.                                                   *)
THEOREM Rebalancing ==
  ASSUME NEW D, NEW A, NEW ranked \in Seq(D), IsInjective(ranked), NEW order \in Seq(A), IsInjective(order),
         NEW mapped, NEW limit \in Nat
  PROVE  LET result == Rebalanced(ranked, order, mapped, limit)
         IN  /\ result \in Seq(D) /\ IsInjective(result)
             /\ Range(result) \subseteq Range(ranked)
             /\ ranked # <<>> => result # <<>>
<1> DEFINE n == Len(ranked)
           known(f) == f \in mapped /\ ArchiveOf[f] \in Range(order)
           before1(i) == {j \in 1..i : known(ranked[j]) /\ ArchiveOf[ranked[j]] = ArchiveOf[ranked[i]]}
           round == [i \in 1..n |-> Cardinality(before1(i))]
           place == [i \in 1..n |-> CHOOSE k \in DOMAIN order : order[k] = ArchiveOf[ranked[i]]]
           before(i, j) == round[i] < round[j] \/ (round[i] = round[j] /\ place[i] < place[j])
           mine == {i \in DOMAIN ranked : known(ranked[i])}
           r(i) == Cardinality(before1(i))
           q(i) == CHOOSE k \in DOMAIN order : order[k] = ArchiveOf[ranked[i]]
           R == {p \in mine \X mine : r(p[1]) < r(p[2]) \/ (r(p[1]) = r(p[2]) /\ q(p[1]) < q(p[2]))}
           turns == SortedBy(mine, R)
           first == [i \in DOMAIN turns |-> ranked[turns[i]]]
           rest == At(ranked, DOMAIN ranked \ mine)
           all == first \o rest
           result == Rebalanced(ranked, order, mapped, limit)
<1>1. n \in Nat /\ DOMAIN ranked = 1..n /\ ranked \in [1..n -> D]
      /\ Len(order) \in Nat /\ DOMAIN order = 1..Len(order)
  BY LenProperties
<1>2. result = Take(all, Max({1, limit}))
  BY DEF Rebalanced
<1> HIDE DEF result
<1>3. \A i \in 1..n : IsFiniteSet(before1(i)) /\ round[i] \in Nat
  <2> SUFFICES ASSUME NEW i \in 1..n
               PROVE  IsFiniteSet(before1(i)) /\ round[i] \in Nat
    OBVIOUS
  <2>1. IsFiniteSet(1..i) /\ before1(i) \in SUBSET (1..i)
    BY FS_Interval
  <2>2. round[i] = Cardinality(before1(i))
    OBVIOUS
  <2> HIDE DEF before1, round
  <2>3. IsFiniteSet(before1(i))
    BY <2>1, FS_Subset
  <2> QED
    BY <2>2, <2>3, FS_CardinalityType
<1>4. \A i \in mine : place[i] \in 1..Len(order) /\ order[place[i]] = ArchiveOf[ranked[i]]
  <2> SUFFICES ASSUME NEW i \in mine
               PROVE  place[i] \in 1..Len(order) /\ order[place[i]] = ArchiveOf[ranked[i]]
    OBVIOUS
  <2>1. \E k \in DOMAIN order : order[k] = ArchiveOf[ranked[i]]
    BY DEF Range
  <2>2. place[i] = CHOOSE k \in DOMAIN order : order[k] = ArchiveOf[ranked[i]]
    OBVIOUS
  <2> HIDE DEF place
  <2> QED
    BY <2>1, <2>2, <1>1
<1>5. ASSUME NEW i \in mine, NEW j \in mine, i < j, place[i] = place[j]
      PROVE  round[i] < round[j]
  <2>1. ArchiveOf[ranked[i]] = ArchiveOf[ranked[j]]
    BY <1>4, <1>5
  <2>2. before1(i) \in SUBSET before1(j) /\ j \in before1(j) /\ j \notin before1(i)
    BY <1>1, <1>5, <2>1
  <2>3. round[i] = Cardinality(before1(i)) /\ round[j] = Cardinality(before1(j))
    OBVIOUS
  <2>a. i \in 1..n /\ j \in 1..n
    BY <1>1
  <2>4. IsFiniteSet(before1(j)) /\ round[i] \in Nat /\ round[j] \in Nat
    <3> HIDE DEF before1, round, mine, n
    <3> QED
      BY <1>3, <2>a
  <2> HIDE DEF before1, round
  <2>5. Cardinality(before1(i)) <= Cardinality(before1(j)) /\ Cardinality(before1(j)) # Cardinality(before1(i))
    BY <2>2, <2>4, FS_Subset
  <2> QED
    BY <2>3, <2>4, <2>5
<1>6. \A i, j \in mine : <<i, j>> \in R <=> before(i, j)
  <2>1. \A i \in mine : round[i] = r(i) /\ place[i] = q(i)
    BY <1>1
  <2>2. R = {p \in mine \X mine : r(p[1]) < r(p[2]) \/ (r(p[1]) = r(p[2]) /\ q(p[1]) < q(p[2]))}
    OBVIOUS
  <2> HIDE DEF mine, r, q, R, round, place
  <2> SUFFICES ASSUME NEW i \in mine, NEW j \in mine
               PROVE  <<i, j>> \in R <=> before(i, j)
    OBVIOUS
  <2>3. <<i, j>> \in R <=> (r(i) < r(j) \/ (r(i) = r(j) /\ q(i) < q(j)))
    BY <2>2
  <2>4. round[i] = r(i) /\ place[i] = q(i) /\ round[j] = r(j) /\ place[j] = q(j)
    BY <2>1
  <2>5. before(i, j) <=> (r(i) < r(j) \/ (r(i) = r(j) /\ q(i) < q(j)))
    BY <2>4
  <2> QED
    BY <2>3, <2>5
<1>7. mine \in SUBSET (1..n)
  BY <1>1
<1> HIDE DEF mine, R, round, place
<1>8. \A i \in mine : i \in Nat /\ round[i] \in Nat /\ place[i] \in Nat
  <2>a. \A i \in 1..n : round[i] \in Nat
    <3> HIDE DEF before1, n
    <3> QED
      BY <1>3
  <2>1. \A i \in 1..n : i \in Nat /\ round[i] \in Nat
    BY <1>1, <2>a
  <2>2. \A i \in mine : place[i] \in Nat
    BY <1>1, <1>4
  <2> QED
    BY <2>1, <2>2, <1>7
<1>9. StrictOrder(mine, R)
  <2>1. \A i \in mine : <<i, i>> \notin R
    BY <1>6, <1>8
  <2>2. \A i, j \in mine : i # j => <<i, j>> \in R \/ <<j, i>> \in R
    <3> SUFFICES ASSUME NEW i \in mine, NEW j \in mine, i # j
                 PROVE  before(i, j) \/ before(j, i)
      BY <1>6
    <3>1. i < j \/ j < i
      BY <1>8
    <3> QED
      BY <3>1, <1>5, <1>8
  <2>3. ASSUME NEW i \in mine, NEW j \in mine, NEW k \in mine, <<i, j>> \in R, <<j, k>> \in R
        PROVE  <<i, k>> \in R
    <3>1. before(i, j) /\ before(j, k)
      BY <2>3, <1>6
    <3>2. before(i, k)
      BY <3>1, <1>8
    <3> QED
      BY <3>2, <1>6
  <2> QED
    BY <2>1, <2>2, <2>3 DEF StrictOrder
<1>10. IsFiniteSet(mine)
  <2>1. IsFiniteSet(1..n)
    BY <1>1, FS_Interval
  <2> QED
    BY <2>1, <1>7, FS_Subset
<1>11. turns \in Seq(mine) /\ IsInjective(turns) /\ Range(turns) = mine
  BY <1>9, <1>10, Sorting DEF Lists
<1> HIDE DEF turns
<1>12. Len(turns) \in Nat /\ DOMAIN turns = 1..Len(turns) /\ turns \in [1..Len(turns) -> mine]
  BY <1>11, LenProperties
<1>13. \A i \in 1..Len(turns) : first[i] = ranked[turns[i]] /\ turns[i] \in mine /\ turns[i] \in 1..n
  BY <1>7, <1>12
<1>14. DOMAIN first = 1..Len(turns) /\ first \in [1..Len(turns) -> D]
  BY <1>1, <1>12, <1>13
<1>15. first \in Seq(D) /\ Len(first) = Len(turns)
  BY <1>12, <1>14, SeqDef, LenProperties
<1> HIDE DEF first
<1>16. IsInjective(first)
  <2> SUFFICES ASSUME NEW i \in 1..Len(turns), NEW j \in 1..Len(turns), first[i] = first[j]
               PROVE  i = j
    BY <1>14 DEF IsInjective
  <2>1. turns[i] = turns[j]
    BY <1>1, <1>13 DEF IsInjective
  <2> QED
    BY <2>1, <1>11, <1>12 DEF IsInjective
<1>17. \A x : x \in Range(first) <=> \E i \in mine : ranked[i] = x
  <2>1. \A x : x \in Range(first) <=> \E k \in 1..Len(turns) : ranked[turns[k]] = x
    BY <1>13, <1>14 DEF Range
  <2>2. \A i \in mine : \E k \in 1..Len(turns) : turns[k] = i
    BY <1>11, <1>12 DEF Range
  <2> QED
    BY <2>1, <2>2, <1>13
<1>r. rest = At(ranked, (1..n) \ mine)
  BY <1>1
<1>18. /\ rest \in Seq(D) /\ IsInjective(rest)
       /\ \A x : x \in Range(rest) <=> \E i \in (1..n) \ mine : ranked[i] = x
  <2> DEFINE I == (1..n) \ mine
  <2>1. I \in SUBSET (1..n) /\ \A i, j \in I : ranked[i] = ranked[j] => i = j
    BY <1>1 DEF IsInjective
  <2>2. rest = At(ranked, I)
    BY <1>r
  <2> HIDE DEF I
  <2>3. /\ At(ranked, I) \in Seq(D) /\ IsInjective(At(ranked, I))
        /\ \A x : x \in Range(At(ranked, I)) <=> \E i \in I : ranked[i] = x
    BY <2>1, Selecting
  <2> QED
    BY <2>2, <2>3 DEF I
<1> HIDE DEF rest
<1>19. Range(first) \cap Range(rest) = {}
  <2> SUFFICES ASSUME NEW x \in Range(first), x \in Range(rest)
               PROVE  FALSE
    OBVIOUS
  <2>1. PICK i \in mine : ranked[i] = x
    BY <1>17
  <2>2. PICK j \in (1..n) \ mine : ranked[j] = x
    BY <1>18
  <2> QED
    BY <2>1, <2>2, <1>1, <1>7 DEF IsInjective
<1>20. /\ all \in Seq(D) /\ IsInjective(all)
       /\ \A x : x \in Range(all) <=> x \in Range(first) \/ x \in Range(rest)
  BY <1>15, <1>16, <1>18, <1>19, Concatenating
<1> HIDE DEF all
<1>21. \A x : x \in Range(all) <=> x \in Range(ranked)
  <2>1. \A x : x \in Range(ranked) <=> \E i \in 1..n : ranked[i] = x
    BY <1>1 DEF Range
  <2> QED
    BY <2>1, <1>7, <1>17, <1>18, <1>20
<1>22. Max({1, limit}) \in Nat /\ Max({1, limit}) >= 1
  <2>1. 1 \in Nat /\ limit \in Nat
    OBVIOUS
  <2>2. Max({1, limit}) = IF 1 >= limit THEN 1 ELSE limit
    BY <2>1, Smaller
  <2> QED
    BY <2>2
<1>23. /\ result \in Seq(D) /\ IsInjective(result) /\ Range(result) \subseteq Range(all)
       /\ Len(result) = IF Max({1, limit}) <= Len(all) THEN Max({1, limit}) ELSE Len(all)
  BY <1>2, <1>20, <1>22, Taking
<1>24. ASSUME ranked # <<>>
       PROVE  result # <<>>
  <2>1. n # 0
    BY <1>24, EmptySeq DEF n
  <2>a. ranked[1] \in Range(ranked)
    BY <2>1, <1>1 DEF Range
  <2>2. ranked[1] \in Range(all)
    BY <2>a, <1>21
  <2>3. Len(all) \in Nat /\ DOMAIN all = 1..Len(all)
    BY <1>20, LenProperties
  <2>4. Len(all) >= 1
    BY <2>2, <2>3 DEF Range
  <2>5. Len(result) >= 1
    BY <1>22, <1>23, <2>3, <2>4
  <2> QED
    BY <2>5, EmptySeq
<1> QED
  BY <1>21, <1>23, <1>24 DEF result

-----------------------------------------------------------------------------
(* Listings of the library                                                  *)

(* A listing has files that exist, and stays within its list of ids.        *)
LEMMA Listing ==
  ASSUME present \in SUBSET Files, NEW ids
  PROVE  /\ Within(ids) \subseteq Visible /\ Accessible(ids) \subseteq Visible /\ Visible \subseteq Files
         /\ Accessible(ids) \subseteq ids
         /\ ids # {} => Within(ids) \subseteq ids
         /\ IsFiniteSet(Within(ids)) /\ IsFiniteSet(Accessible(ids)) /\ IsFiniteSet(Visible)
         /\ Within(ids) \subseteq Nat \ {0}
<1>1. Within(ids) \in SUBSET Files /\ Accessible(ids) \in SUBSET Files /\ Visible \in SUBSET Files
  BY DEF Within, Accessible, Visible
<1>2. IsFiniteSet(Within(ids)) /\ IsFiniteSet(Accessible(ids)) /\ IsFiniteSet(Visible)
  BY <1>1, LibraryAssumption, FS_Subset
<1>3. Within(ids) \subseteq Visible /\ Accessible(ids) \subseteq Visible /\ Accessible(ids) \subseteq ids
      /\ (ids # {} => Within(ids) \subseteq ids)
  BY DEF Within, Accessible
<1> QED
  BY <1>1, <1>2, <1>3, LibraryAssumption

(* Metadata is listed of files that are listed.                             *)
LEMMA Describing ==
  ASSUME present \in SUBSET Files, NEW ids
  PROVE  /\ DescribedFiles(ids) \subseteq Within(ids)
         /\ \A rows \in MetadataEntries(ids) : rows \subseteq Within(ids)
  BY DEF DescribedFiles, MetadataEntries

(* The pages that are searched are those of the files listed.               *)
LEMMA Paging ==
  ASSUME present \in SUBSET Files, NEW ids
  PROVE  /\ PagesIn(ids) \in SUBSET (Nat \X Nat) /\ IsFiniteSet(PagesIn(ids))
         /\ \A p \in PagesIn(ids) : FileOf(p) \in Within(ids)
         /\ PagesIn(ids) \subseteq UNION {{<<f, n>> : n \in 1..PagesOf[f]} : f \in Files}
<1> DEFINE W == Within(ids)
           part(f) == {<<f, n>> : n \in 1..PagesOf[f]}
           parts == {part(f) : f \in W}
<1>1. W \in SUBSET Files /\ IsFiniteSet(W)
  BY Listing
<1>2. PagesIn(ids) = UNION parts
  BY DEF PagesIn
<1>3. \A f \in W : PagesOf[f] \in Nat /\ f \in Nat
  BY <1>1, LibraryAssumption
<1>4. ASSUME NEW f \in W
      PROVE  IsFiniteSet(part(f))
  <2>1. IsFiniteSet(1..PagesOf[f])
    BY <1>3, FS_Interval
  <2> DEFINE I == 1..PagesOf[f]
             g == [n \in I |-> <<f, n>>]
             P == part(f)
  <2>2. g \in Surjection(I, P)
    BY DEF Surjection
  <2>3. IsFiniteSet(I)
    BY <2>1
  <2> HIDE DEF I, g, P
  <2>4. IsFiniteSet(P)
    BY <2>2, <2>3, FS_Surjection
  <2> QED
    BY <2>4 DEF P
<1>5. IsFiniteSet(parts)
  <2> DEFINE g == [f \in W |-> part(f)]
             P == parts
  <2>1. g \in Surjection(W, P)
    BY DEF Surjection
  <2> HIDE DEF W, g, P
  <2>2. IsFiniteSet(P)
    BY <1>1, <2>1, FS_Surjection
  <2> QED
    BY <2>2 DEF P
<1>6. IsFiniteSet(UNION parts)
  <2>1. \A P \in parts : IsFiniteSet(P)
    BY <1>4
  <2> HIDE DEF parts
  <2> QED
    BY <1>5, <2>1, FS_UNION
<1>7. ASSUME NEW p \in UNION parts
      PROVE  /\ p \in Nat \X Nat /\ FileOf(p) \in W
             /\ p \in UNION {{<<f, n>> : n \in 1..PagesOf[f]} : f \in Files}
  <2>1. PICK f \in W : \E n \in 1..PagesOf[f] : p = <<f, n>>
    OBVIOUS
  <2>2. PICK n \in 1..PagesOf[f] : p = <<f, n>>
    BY <2>1
  <2>3. p \in Nat \X Nat /\ FileOf(p) = f
    BY <1>3, <2>2 DEF FileOf
  <2>4. f \in Files
    BY <1>1
  <2> QED
    BY <2>2, <2>3, <2>4
<1> HIDE DEF parts, W
<1> QED
  BY <1>2, <1>6, <1>7 DEF W

(* Adjacent pages are pages of the files listed.                            *)
LEMMA Adjoining ==
  ASSUME present \in SUBSET Files, NEW s, NEW ids
  PROVE  Neighbours(s, ids) \subseteq PagesIn(ids)
  BY DEF Neighbours

-----------------------------------------------------------------------------
(* Shortlists                                                               *)

(* The files a search is restricted to: only some of the base where there  *)
(* is one, and then never none, and nothing that does not exist.           *)
THEOREM Shortlisting ==
  ASSUME present \in SUBSET Files, NEW base \in SUBSET Files, NEW priority \in SUBSET Files,
         NEW limit \in Nat, NEW l \in Shortlists(base, priority, limit)
  PROVE  /\ l \in Seq(Files) /\ IsInjective(l)
         /\ base # {} => Range(l) \subseteq base /\ l # <<>>
<1> DEFINE P == IF base = {} THEN priority ELSE priority \cap base
           preferred == InOrder(P)
           whole == InOrder(base)
           all == Distinct(preferred \o whole)
           F == {f \in Within(base) : PagesOf[f] > 0}
           cut(ranking) == Take(Distinct(preferred \o ranking), limit)
<1>1. Files \subseteq Nat /\ IsFiniteSet(Files)
  BY LibraryAssumption
<1>2. /\ preferred \in Seq(Files) /\ Range(preferred) = P
      /\ whole \in Seq(Files) /\ IsInjective(whole) /\ Range(whole) = base /\ Len(whole) = Cardinality(base)
  <2>1. P \in SUBSET Nat /\ base \in SUBSET Nat /\ IsFiniteSet(P) /\ IsFiniteSet(base)
    <3>1. P \in SUBSET Files
      OBVIOUS
    <3> HIDE DEF P
    <3> QED
      BY <3>1, <1>1, FS_Subset
  <2>2. P \subseteq Files
    OBVIOUS
  <2> HIDE DEF P
  <2>3. Lists(InOrder(P), P) /\ Lists(InOrder(base), base)
    BY <2>1, Ordering
  <2> QED
    BY <2>2, <2>3, LenProperties, SeqDef DEF Lists
<1> HIDE DEF preferred, whole
<1>3. preferred \o whole \in Seq(Files) /\ \A x : x \in Range(preferred \o whole) <=> x \in P \/ x \in base
  <2> HIDE DEF P
  <2> QED
    BY <1>2, Concatenating
<1>4. all \in Seq(Files) /\ IsInjective(all) /\ Range(all) = Range(preferred \o whole)
  <2> DEFINE u == preferred \o whole
  <2>1. u \in Seq(Files)
    BY <1>3
  <2> HIDE DEF u
  <2>2. Distinct(u) \in Seq(Files) /\ Range(Distinct(u)) = Range(u) /\ IsInjective(Distinct(u))
    BY <2>1, Distinguishing
  <2> QED
    BY <2>2 DEF u
<1> HIDE DEF all
<1>5. base # {} => Range(all) \subseteq base
  BY <1>3, <1>4
<1>6. base # {} => all # <<>>
  <2> SUFFICES ASSUME base # {}, all = <<>>
               PROVE  FALSE
    OBVIOUS
  <2>1. Range(all) = {}
    BY DEF Range
  <2> QED
    BY <2>1, <1>3, <1>4
<1>7. base # {} => whole # <<>> /\ Cardinality(base) # 0
  <2>1. IsFiniteSet(base)
    BY <1>1, FS_Subset
  <2>2. base # {} => Cardinality(base) # 0
    BY <2>1, FS_EmptySet
  <2> QED
    BY <2>2, <1>2, EmptySeq
<1>8. ASSUME NEW ranking \in Rankings(F, limit)
      PROVE  /\ cut(ranking) \in Seq(Files) /\ IsInjective(cut(ranking))
             /\ base # {} => Range(cut(ranking)) \subseteq base
  <2>1. F \in SUBSET Files /\ (base # {} => F \subseteq base)
    BY Listing
  <2>2. IsFiniteSet(F)
    BY <2>1, <1>1, FS_Subset
  <2> HIDE DEF F
  <2>3. ranking \in Seq(F)
    BY <2>2, Ranking
  <2>4. ranking \in Seq(Files) /\ Range(ranking) \subseteq F
    BY <2>1, <2>3, LenProperties, SeqDef DEF Range
  <2>5. /\ Take(Distinct(preferred \o ranking), limit) \in Seq(Files)
        /\ IsInjective(Take(Distinct(preferred \o ranking), limit))
        /\ Range(Take(Distinct(preferred \o ranking), limit)) \subseteq Range(preferred) \cup Range(ranking)
    BY <1>2, <2>4, Preferring
  <2> QED
    BY <1>2, <2>1, <2>4, <2>5
<1>9. CASE limit = 0
  BY <1>4, <1>5, <1>6, <1>9 DEF Shortlists, all, preferred, whole
<1>10. CASE limit # 0 /\ base # {} /\ Cardinality(base) <= limit
  <2>1. l = Take(all, limit)
    BY <1>10 DEF Shortlists, all, preferred, whole
  <2>2. /\ Take(all, limit) \in Seq(Files) /\ Len(Take(all, limit)) = (IF limit <= Len(all) THEN limit ELSE Len(all))
        /\ Range(Take(all, limit)) \subseteq Range(all) /\ (IsInjective(all) => IsInjective(Take(all, limit)))
    BY <1>4, Taking
  <2>3. Len(all) \in Nat /\ Len(all) # 0
    BY <1>4, <1>6, <1>10, EmptySeq, LenProperties
  <2>4. l # <<>>
    BY <2>1, <2>2, <2>3, <1>10, EmptySeq
  <2> QED
    BY <1>4, <1>5, <2>1, <2>2, <2>4
<1>11. CASE limit # 0 /\ ~(base # {} /\ Cardinality(base) <= limit)
  <2>1. l \in {IF cut(ranking) = <<>> THEN whole ELSE cut(ranking) : ranking \in Rankings(F, limit)}
    BY <1>11 DEF Shortlists, preferred, whole
  <2> HIDE DEF cut, F
  <2>2. PICK ranking \in Rankings(F, limit) : l = IF cut(ranking) = <<>> THEN whole ELSE cut(ranking)
    BY <2>1
  <2>3. CASE cut(ranking) = <<>>
    BY <1>2, <1>7, <2>2, <2>3
  <2>4. CASE cut(ranking) # <<>>
    BY <1>8, <2>2, <2>4
  <2> QED
    BY <2>3, <2>4
<1> QED
  BY <1>9, <1>10, <1>11
===============================================================================
