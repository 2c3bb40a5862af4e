--------------------------- MODULE RepositoryProofs ---------------------------
(* Theorems about the repository (module Repository), for any blocks, paths,   *)
(* messages of peers, threads, clock and radix of the varints.                 *)
EXTENDS Repository, FiniteSetTheorems, SequenceTheorems, TLAPS

(***************************************************************************)
(* The order of the duplicates                                             *)
(***************************************************************************)

\* A set of numbers that is not empty has a least element.
LEMMA LeastNumber ==
    ASSUME NEW T, T \subseteq Nat, T # {}
    PROVE  \E x \in T : \A y \in T : x <= y
<1>1. IsWellFoundedOn(OpToRel(<, Nat), Nat)
  BY NatLessThanWellFounded, Zenon
<1>2. PICK R : R = OpToRel(<, Nat)
  BY Zenon
<1>3. IsWellFoundedOn(R, Nat)
  BY <1>1, <1>2, Zenon
<1>4. \A y, x \in Nat : y < x => <<y, x>> \in R
  BY <1>2, Zenon DEF OpToRel
<1>5. \E x \in T : \A y \in T : ~(<<y, x>> \in R)
  BY <1>3, WFMin, Zenon
<1>6. PICK x \in T : \A y \in T : ~(<<y, x>> \in R)
  BY <1>5, Zenon
<1>7. \A y \in T : x \in Nat /\ y \in Nat /\ ~(y < x)
  BY <1>4, <1>6, Zenon
<1>8. \A y \in T : x <= y
  BY <1>7
<1>9. QED
  BY <1>8

\* A set that has a number whenever it has the smaller ones has all up to n.
LEMMA UpTo ==
    ASSUME NEW n \in Nat, NEW Good, \A m \in 0..n : (\A k \in 0..(m - 1) : k \in Good) => m \in Good
    PROVE  \A m \in 0..n : m \in Good
<1>1. SUFFICES ASSUME NEW x \in 0..n, x \notin Good PROVE FALSE
  BY Zenon
<1> DEFINE Bad == {m \in 0..n : m \notin Good}
<1>2. Bad \subseteq Nat /\ Bad # {}
  BY <1>1
<1>3. PICK m \in Bad : \A k \in Bad : m <= k
  BY <1>2, LeastNumber
<1>4. \A k \in 0..(m - 1) : k \in Good
  BY <1>3
<1>5. QED
  BY <1>3, <1>4

\* The low group of a number, and the groups above it.
Low(n) == n % Radix

High(n) == n \div Radix

LEMMA Division ==
    ASSUME NEW n \in Nat
    PROVE  /\ Radix \in Nat \ {0, 1}
           /\ High(n) \in Nat /\ Low(n) \in Nat /\ Low(n) < Radix
           /\ n >= Radix => High(n) \in 0..(n - 1)
           /\ \A m \in Nat : High(m) = High(n) /\ Low(m) = Low(n) => m = n
<1>1. Radix \in Nat \ {0, 1}
  BY RepositoryAssumption
<1>2. High(n) \in Nat
  BY <1>1 DEF High
<1>3. Low(n) \in Nat /\ Low(n) < Radix
  <2>1. n % Radix \in 0..(Radix - 1)
    BY <1>1
  <2>2. QED
    BY <1>1, <2>1 DEF Low
<1>4. n >= Radix => High(n) <= n - 1
  BY <1>1 DEF High
<1>5. ASSUME NEW m \in Nat, High(m) = High(n), Low(m) = Low(n) PROVE m = n
  BY <1>1, <1>5 DEF High, Low
<1>6. QED
  BY <1>1, <1>2, <1>3, <1>4, <1>5

\* One step of varint_encode, with the function that encodes smaller numbers.
Groups(f, n) == IF n < Radix THEN <<n>> ELSE <<Radix + Low(n)>> \o f[High(n)]

LEMMA GroupsType ==
    ASSUME NEW n \in Nat, NEW f, n >= Radix => f[High(n)] \in Seq(Nat)
    PROVE  Groups(f, n) \in Seq(Nat) /\ Len(Groups(f, n)) >= 1
<1>1. Radix \in Nat \ {0, 1} /\ Low(n) \in Nat /\ Low(n) < Radix
  BY Division
<1>2. CASE n < Radix
  BY <1>2 DEF Groups
<1>3. CASE n >= Radix
  <2>1. PICK d \in Nat : d = Radix + Low(n)
    BY <1>1
  <2>2. PICK g \in Seq(Nat) : g = f[High(n)]
    BY <1>3
  <2>3. <<d>> \in Seq(Nat) /\ Len(<<d>>) = 1
    OBVIOUS
  <2>4. <<d>> \o g \in Seq(Nat) /\ Len(<<d>> \o g) = 1 + Len(g)
    BY <2>3, ConcatProperties
  <2>5. Groups(f, n) = <<d>> \o g
    BY <1>1, <1>3, <2>1, <2>2 DEF Groups
  <2>6. Len(g) \in Nat
    OBVIOUS
  <2>7. QED
    BY <2>4, <2>5, <2>6
<1>4. QED
  BY <1>1, <1>2, <1>3

\* Every time has an encoding ...
LEMMA VarintExists ==
    \E f \in [0..MaxTime -> Seq(Nat)] : \A n \in 0..MaxTime : f[n] = Groups(f, n)
<1>1. MaxTime \in Nat /\ Radix \in Nat \ {0, 1}
  BY RepositoryAssumption
<1> DEFINE Done(m) == \E f \in [0..m -> Seq(Nat)] : \A n \in 0..m : f[n] = Groups(f, n)
           Good == {m \in 0..MaxTime : Done(m)}
<1>2. ASSUME NEW m \in 0..MaxTime, \A k \in 0..(m - 1) : k \in Good PROVE m \in Good
  <2>1. PICK f \in [0..(m - 1) -> Seq(Nat)] : \A n \in 0..(m - 1) : f[n] = Groups(f, n)
    <3>1. CASE m = 0
      <4>1. PICK f : f = [i \in 0..(m - 1) |-> <<>>]
        OBVIOUS
      <4>2. f \in [0..(m - 1) -> Seq(Nat)] /\ 0..(m - 1) = {}
        BY <3>1, <4>1
      <4>3. QED
        BY <4>2
    <3>2. CASE m # 0
      <4>1. m - 1 \in 0..(m - 1)
        BY <3>2
      <4>2. Done(m - 1)
        BY <1>2, <4>1
      <4>3. QED
        BY <4>2
    <3>3. QED
      BY <3>1, <3>2
  <2> DEFINE g == [i \in 0..m |-> IF i < m THEN f[i] ELSE Groups(f, m)]
  <2>2. m \in Nat /\ (m >= Radix => High(m) \in 0..(m - 1))
    <3>1. m \in Nat
      BY <1>1
    <3>2. QED
      BY <3>1, Division, Zenon
  <2>3. Groups(f, m) \in Seq(Nat)
    BY <2>2, GroupsType
  <2>4. g \in [0..m -> Seq(Nat)]
    BY <2>3
  <2>5. ASSUME NEW n \in 0..m PROVE g[n] = Groups(g, n)
    <3>1. n \in Nat /\ (n >= Radix => High(n) \in 0..(n - 1))
      <4>1. n \in Nat
        BY <2>2
      <4>2. QED
        BY <4>1, Division, Zenon
    <3>2. ASSUME n >= Radix PROVE g[High(n)] = f[High(n)]
      <4>1. High(n) \in 0..m /\ High(n) < m
        BY <2>2, <3>1, <3>2
      <4>2. QED
        BY <4>1
    <3>3. Groups(g, n) = Groups(f, n)
      <4>1. CASE n < Radix
        BY <4>1 DEF Groups
      <4>2. CASE n >= Radix
        <5> HIDE DEF g
        <5>1. QED
          BY <1>1, <3>1, <3>2, <4>2 DEF Groups
      <4>3. QED
        BY <1>1, <3>1, <4>1, <4>2
    <3>4. g[n] = Groups(f, n)
      <4>1. CASE n = m
        BY <4>1
      <4>2. CASE n # m
        BY <2>1, <4>2
      <4>3. QED
        BY <4>1, <4>2
    <3>5. QED
      BY <3>3, <3>4
  <2>6. Done(m)
    BY <2>4, <2>5
  <2>7. QED
    BY <2>6
<1> HIDE DEF Good
<1>3. \A m \in 0..MaxTime : m \in Good
  BY <1>1, <1>2, UpTo
<1>4. MaxTime \in Good
  BY <1>1, <1>3
<1>5. QED
  BY <1>4 DEF Good

\* ... which is what Varint names.
LEMMA VarintGroups ==
    \A n \in 0..MaxTime : Varint[n] = Groups(Varint, n)
<1> DEFINE All(f) == [n \in 0..MaxTime |-> Groups(f, n)]
<1>1. PICK f \in [0..MaxTime -> Seq(Nat)] : \A n \in 0..MaxTime : f[n] = Groups(f, n)
  BY VarintExists
<1>2. f = All(f)
  BY <1>1
<1>3. Varint = CHOOSE g : g = All(g)
  BY DEF Varint, Groups, Low, High
<1> HIDE DEF All
<1>4. Varint = All(Varint)
  BY <1>2, <1>3, Zenon
<1>5. QED
  BY <1>4 DEF All

LEMMA VarintType ==
    \A n \in 0..MaxTime : Varint[n] \in Seq(Nat) /\ Len(Varint[n]) >= 1
<1>1. MaxTime \in Nat /\ Radix \in Nat \ {0, 1}
  BY RepositoryAssumption
<1> DEFINE Good == {n \in 0..MaxTime : Varint[n] \in Seq(Nat) /\ Len(Varint[n]) >= 1}
<1>2. ASSUME NEW m \in 0..MaxTime, \A k \in 0..(m - 1) : k \in Good PROVE m \in Good
  <2>1. m >= Radix => High(m) \in 0..(m - 1)
    BY <1>1, Division
  <2>2. m >= Radix => Varint[High(m)] \in Seq(Nat)
    BY <1>2, <2>1
  <2>3. Groups(Varint, m) \in Seq(Nat) /\ Len(Groups(Varint, m)) >= 1
    BY <2>2, GroupsType
  <2>4. QED
    BY <2>3, VarintGroups
<1> HIDE DEF Good
<1>3. \A m \in 0..MaxTime : m \in Good
  BY <1>1, <1>2, UpTo
<1>4. QED
  BY <1>3 DEF Good

\* The head of an encoding, and what follows it.
LEMMA VarintHead ==
    ASSUME NEW n \in 0..MaxTime
    PROVE  IF n < Radix THEN Varint[n] = <<n>>
           ELSE /\ Varint[n][1] = Radix + Low(n) /\ High(n) \in 0..(n - 1)
                /\ Len(Varint[n]) = 1 + Len(Varint[High(n)])
                /\ \A i \in 1..Len(Varint[High(n)]) : Varint[n][i + 1] = Varint[High(n)][i]
                /\ Varint[High(n)] \in Seq(Nat)
<1>1. MaxTime \in Nat /\ Radix \in Nat \ {0, 1} /\ Low(n) \in Nat /\ Low(n) < Radix
  BY RepositoryAssumption, Division
<1>2. CASE n < Radix
  BY <1>2, VarintGroups DEF Groups
<1>3. CASE n >= Radix
  <2>1. High(n) \in 0..(n - 1) /\ High(n) \in 0..MaxTime
    BY <1>1, <1>3, Division
  <2>2. PICK g \in Seq(Nat) : g = Varint[High(n)]
    BY <2>1, VarintType
  <2>3. PICK d \in Nat : d = Radix + Low(n)
    BY <1>1
  <2>4. Varint[n] = <<d>> \o g
    <3>1. Varint[n] = Groups(Varint, n) /\ ~(n < Radix)
      BY <1>1, <1>3, VarintGroups
    <3>2. QED
      BY <2>2, <2>3, <3>1, Zenon DEF Groups
  <2>5. <<d>> \in Seq(Nat) /\ Len(<<d>>) = 1 /\ <<d>>[1] = d
    OBVIOUS
  <2>6. /\ Len(<<d>> \o g) = 1 + Len(g)
        /\ \A i \in 1..(1 + Len(g)) : (<<d>> \o g)[i] = IF i <= 1 THEN <<d>>[i] ELSE g[i - 1]
    BY <2>5, ConcatProperties
  <2>7. Len(g) \in Nat
    OBVIOUS
  <2>8. (<<d>> \o g)[1] = d
    BY <2>5, <2>6, <2>7
  <2>9. \A i \in 1..Len(g) : (<<d>> \o g)[i + 1] = g[i]
    BY <2>6, <2>7
  <2>10. QED
    BY <1>1, <1>3, <2>1, <2>2, <2>3, <2>4, <2>6, <2>8, <2>9
<1>4. QED
  BY <1>1, <1>2, <1>3

\* No two times have the same encoding.
LEMMA VarintInjective ==
    \A m, n \in 0..MaxTime : Varint[m] = Varint[n] => m = n
<1>1. MaxTime \in Nat /\ Radix \in Nat \ {0, 1}
  BY RepositoryAssumption
<1> DEFINE Good == {m \in 0..MaxTime : \A n \in 0..MaxTime : Varint[m] = Varint[n] => m = n}
<1>2. ASSUME NEW m \in 0..MaxTime, \A k \in 0..(m - 1) : k \in Good PROVE m \in Good
  <2>1. SUFFICES ASSUME NEW n \in 0..MaxTime, Varint[m] = Varint[n] PROVE m = n
    OBVIOUS
  <2>2. Low(m) \in Nat /\ Low(m) < Radix /\ Low(n) \in Nat /\ Low(n) < Radix
    BY <1>1, Division
  <2>3. CASE m < Radix
    <3>1. Varint[m][1] = m
      BY <2>3, VarintHead
    <3>2. IF n < Radix THEN Varint[n][1] = n ELSE Varint[n][1] = Radix + Low(n)
      BY VarintHead
    <3>3. QED
      BY <1>1, <2>1, <2>2, <2>3, <3>1, <3>2
  <2>4. CASE m >= Radix
    <3>1. /\ Varint[m][1] = Radix + Low(m) /\ High(m) \in 0..(m - 1)
          /\ Len(Varint[m]) = 1 + Len(Varint[High(m)])
          /\ \A i \in 1..Len(Varint[High(m)]) : Varint[m][i + 1] = Varint[High(m)][i]
          /\ Varint[High(m)] \in Seq(Nat)
      <4>1. ~(m < Radix)
        BY <1>1, <2>4
      <4>2. QED
        BY <4>1, VarintHead, Zenon
    <3>2. n >= Radix
      <4>1. n < Radix => Varint[n][1] = n
        BY VarintHead
      <4>2. QED
        BY <1>1, <2>1, <2>2, <3>1, <4>1
    <3>3. /\ Varint[n][1] = Radix + Low(n) /\ High(n) \in 0..(n - 1)
          /\ Len(Varint[n]) = 1 + Len(Varint[High(n)])
          /\ \A i \in 1..Len(Varint[High(n)]) : Varint[n][i + 1] = Varint[High(n)][i]
          /\ Varint[High(n)] \in Seq(Nat)
      <4>1. ~(n < Radix)
        BY <1>1, <3>2
      <4>2. QED
        BY <4>1, VarintHead, Zenon
    <3>4. Low(m) = Low(n)
      BY <1>1, <2>1, <2>2, <3>1, <3>3
    <3>5. PICK a \in Seq(Nat), b \in Seq(Nat) : a = Varint[High(m)] /\ b = Varint[High(n)]
      BY <3>1, <3>3
    <3>6. Len(a) = Len(b) /\ Len(a) \in Nat
      BY <2>1, <3>1, <3>3, <3>5
    <3>7. \A i \in 1..Len(a) : a[i] = b[i]
      BY <2>1, <3>1, <3>3, <3>5, <3>6
    <3>8. a = b
      BY <3>6, <3>7, SeqEqual, Zenon
    <3>9. High(m) \in Good /\ High(n) \in 0..MaxTime
      <4>1. High(n) \in 0..MaxTime
        BY <1>1, <3>3
      <4>2. QED
        BY <1>2, <3>1, <4>1, Zenon
    <3>10. High(m) = High(n)
      BY <3>5, <3>8, <3>9
    <3>11. QED
      BY <3>4, <3>10, Division
  <2>5. QED
    BY <1>1, <2>3, <2>4
<1> HIDE DEF Good
<1>3. \A m \in 0..MaxTime : m \in Good
  BY <1>1, <1>2, UpTo
<1>4. QED
  BY <1>3 DEF Good

-----------------------------------------------------------------------------
(* memcmp orders strings of bytes.                                          *)

\* Where two strings part: i is the first place at which they differ, or at which
\* the first one has ended.
PartAt(a, b, i) ==
    /\ i \in 1..Len(b)
    /\ \A j \in 1..(i - 1) : j <= Len(a) /\ a[j] = b[j]
    /\ i > Len(a) \/ a[i] < b[i]

LEMMA BeforeIsPartAt ==
    ASSUME NEW a, NEW b
    PROVE  Before(a, b) <=> \E i : PartAt(a, b, i)
BY Zenon DEF Before, PartAt

LEMMA BeforeAsymmetric ==
    ASSUME NEW a \in Seq(Nat), NEW b \in Seq(Nat), Before(a, b)
    PROVE  ~Before(b, a)
<1>1. SUFFICES ASSUME NEW i, NEW j, PartAt(a, b, i), PartAt(b, a, j) PROVE FALSE
  BY BeforeIsPartAt, Zenon
<1>2. Len(a) \in Nat /\ Len(b) \in Nat /\ i \in 1..Len(b) /\ j \in 1..Len(a)
  BY <1>1 DEF PartAt
<1>3. CASE i < j
  <2>1. i \in 1..(j - 1)
    BY <1>2, <1>3
  <2>2. b[i] = a[i] /\ i <= Len(a) /\ (i > Len(a) \/ a[i] < b[i])
    BY <1>1, <1>2, <1>3, <2>1 DEF PartAt
  <2>3. a[i] \in Nat
    BY <1>2, <2>2
  <2>4. QED
    BY <1>2, <2>2, <2>3
<1>4. CASE j < i
  <2>1. j \in 1..(i - 1)
    BY <1>2, <1>4
  <2>2. a[j] = b[j] /\ j <= Len(b) /\ (j > Len(b) \/ b[j] < a[j])
    BY <1>1, <1>2, <1>4, <2>1 DEF PartAt
  <2>3. a[j] \in Nat
    BY <1>2
  <2>4. QED
    BY <1>2, <2>2, <2>3
<1>5. CASE i = j
  <2>1. (i > Len(a) \/ a[i] < b[i]) /\ (i > Len(b) \/ b[i] < a[i])
    BY <1>1, <1>5 DEF PartAt
  <2>2. a[i] \in Nat /\ b[i] \in Nat
    BY <1>2, <1>5
  <2>3. QED
    BY <1>2, <1>5, <2>1, <2>2
<1>6. QED
  BY <1>2, <1>3, <1>4, <1>5

LEMMA BeforeTransitive ==
    ASSUME NEW a \in Seq(Nat), NEW b \in Seq(Nat), NEW c \in Seq(Nat), Before(a, b), Before(b, c)
    PROVE  Before(a, c)
<1>1. PICK i : PartAt(a, b, i)
  BY BeforeIsPartAt, Zenon
<1>2. PICK j : PartAt(b, c, j)
  BY BeforeIsPartAt, Zenon
<1>3. Len(a) \in Nat /\ Len(b) \in Nat /\ Len(c) \in Nat /\ i \in 1..Len(b) /\ j \in 1..Len(c)
  BY <1>1, <1>2 DEF PartAt
<1>4. /\ \A k \in 1..(i - 1) : k <= Len(a) /\ a[k] = b[k]
      /\ \A k \in 1..(j - 1) : k <= Len(b) /\ b[k] = c[k]
      /\ i > Len(a) \/ a[i] < b[i]
      /\ j > Len(b) \/ b[j] < c[j]
  BY <1>1, <1>2 DEF PartAt
<1>5. CASE i < j
  <2>1. i \in 1..(j - 1) /\ i \in 1..Len(c) /\ \A k \in 1..(i - 1) : k \in 1..(j - 1)
    BY <1>3, <1>5
  <2>2. \A k \in 1..(i - 1) : k <= Len(a) /\ a[k] = c[k]
    BY <1>4, <2>1
  <2>3. i > Len(a) \/ a[i] < c[i]
    BY <1>4, <2>1
  <2>4. PartAt(a, c, i)
    BY <2>1, <2>2, <2>3 DEF PartAt
  <2>5. QED
    BY <2>4, BeforeIsPartAt, Zenon
<1>6. CASE j < i
  <2>1. j \in 1..(i - 1) /\ \A k \in 1..(j - 1) : k \in 1..(i - 1)
    BY <1>3, <1>6
  <2>2. \A k \in 1..(j - 1) : k <= Len(a) /\ a[k] = c[k]
    BY <1>4, <2>1
  <2>3. j <= Len(a) /\ a[j] = b[j] /\ j <= Len(b)
    BY <1>3, <1>4, <1>6, <2>1
  <2>4. a[j] < c[j]
    BY <1>3, <1>4, <2>3
  <2>5. PartAt(a, c, j)
    BY <1>3, <2>2, <2>4 DEF PartAt
  <2>6. QED
    BY <2>5, BeforeIsPartAt, Zenon
<1>7. CASE i = j
  <2>1. \A k \in 1..(i - 1) : k <= Len(a) /\ a[k] = c[k]
    BY <1>4, <1>7
  <2>2. i > Len(a) \/ a[i] < c[i]
    <3>1. SUFFICES ASSUME ~(i > Len(a)) PROVE a[i] < c[i]
      OBVIOUS
    <3>2. a[i] < b[i] /\ b[i] < c[i]
      BY <1>3, <1>4, <1>7, <3>1
    <3>3. a[i] \in Nat /\ b[i] \in Nat /\ c[i] \in Nat
      <4>1. i \in 1..Len(a) /\ i \in 1..Len(b) /\ i \in 1..Len(c)
        BY <1>3, <1>7, <3>1
      <4>2. QED
        BY <4>1, ElementOfSeq, Zenon
    <3>4. QED
      BY <3>2, <3>3
  <2>3. PartAt(a, c, i)
    BY <1>3, <1>7, <2>1, <2>2 DEF PartAt
  <2>4. QED
    BY <2>3, BeforeIsPartAt, Zenon
<1>8. QED
  BY <1>3, <1>5, <1>6, <1>7

LEMMA BeforeTotal ==
    ASSUME NEW a \in Seq(Nat), NEW b \in Seq(Nat), a # b
    PROVE  Before(a, b) \/ Before(b, a)
<1>1. Len(a) \in Nat /\ Len(b) \in Nat
  OBVIOUS
<1> DEFINE Differ == {i \in Nat \ {0} : /\ i <= Len(a) \/ i <= Len(b)
                                        /\ i > Len(a) \/ i > Len(b) \/ a[i] # b[i]}
<1>2. Differ # {}
  <2>1. SUFFICES ASSUME Differ = {} PROVE FALSE
    OBVIOUS
  <2>2. \A i \in Nat \ {0} : i <= Len(a) \/ i <= Len(b) => i <= Len(a) /\ i <= Len(b) /\ a[i] = b[i]
    <3>1. TAKE i \in Nat \ {0}
    <3>2. i \notin Differ
      BY <2>1, Zenon
    <3>3. ~(i <= Len(a) \/ i <= Len(b)) \/ ~(i > Len(a) \/ i > Len(b) \/ a[i] # b[i])
      BY <3>2, Zenon
    <3> HIDE DEF Differ
    <3>4. QED
      BY <1>1, <3>3
  <2>3. Len(a) = Len(b)
    <3>1. Len(a) <= Len(b)
      BY <1>1, <2>2
    <3>2. Len(b) <= Len(a)
      BY <1>1, <2>2
    <3>3. QED
      BY <1>1, <3>1, <3>2
  <2>4. \A i \in 1..Len(a) : a[i] = b[i]
    BY <1>1, <2>2
  <2>5. QED
    BY <2>3, <2>4
<1>3. PICK i \in Differ : \A k \in Differ : i <= k
  <2>1. Differ \subseteq Nat
    OBVIOUS
  <2> HIDE DEF Differ
  <2>2. QED
    BY <1>2, <2>1, LeastNumber
<1>4. \A k \in 1..(i - 1) : k <= Len(a) /\ k <= Len(b) /\ a[k] = b[k]
  <2>1. TAKE k \in 1..(i - 1)
  <2>2. k \notin Differ /\ k \in Nat \ {0}
    <3>1. i \in Nat /\ k \in Nat \ {0} /\ ~(i <= k)
      BY <1>3
    <3> HIDE DEF Differ
    <3>2. QED
      BY <1>3, <3>1
  <2>3. i \in Nat \ {0} /\ (i <= Len(a) \/ i <= Len(b)) /\ k < i
    BY <1>3
  <2>4. k <= Len(a) \/ k <= Len(b)
    BY <1>1, <2>2, <2>3
  <2>5. ~(k > Len(a) \/ k > Len(b) \/ a[k] # b[k])
    BY <2>2, <2>4
  <2>6. QED
    BY <1>1, <2>2, <2>5
<1>5. i \in Nat \ {0} /\ (i <= Len(a) \/ i <= Len(b)) /\ (i > Len(a) \/ i > Len(b) \/ a[i] # b[i])
  BY <1>3
<1> HIDE DEF Differ
<1>6. CASE i > Len(a)
  <2>1. PartAt(a, b, i)
    BY <1>1, <1>4, <1>5, <1>6 DEF PartAt
  <2>2. QED
    BY <2>1, BeforeIsPartAt, Zenon
<1>7. CASE i > Len(b)
  <2>1. PartAt(b, a, i)
    BY <1>1, <1>4, <1>5, <1>7 DEF PartAt
  <2>2. QED
    BY <2>1, BeforeIsPartAt, Zenon
<1>8. CASE i <= Len(a) /\ i <= Len(b)
  <2>1. a[i] # b[i] /\ a[i] \in Nat /\ b[i] \in Nat
    BY <1>1, <1>5, <1>8
  <2>2. CASE a[i] < b[i]
    <3>1. PartAt(a, b, i)
      BY <1>1, <1>4, <1>5, <1>8, <2>2 DEF PartAt
    <3>2. QED
      BY <3>1, BeforeIsPartAt, Zenon
  <2>3. CASE b[i] < a[i]
    <3>1. PartAt(b, a, i)
      BY <1>1, <1>4, <1>5, <1>8, <2>3 DEF PartAt
    <3>2. QED
      BY <3>1, BeforeIsPartAt, Zenon
  <2>4. QED
    BY <2>1, <2>2, <2>3
<1>9. QED
  BY <1>1, <1>5, <1>6, <1>7, <1>8


-----------------------------------------------------------------------------
(* The duplicates of a key, in the order of LMDB.                           *)

LEMMA EncodeRecordParts ==
    ASSUME NEW r \in Dups
    PROVE  /\ r.ts \in 1..MaxTime /\ r.ts \in 0..MaxTime /\ r.val \in Nat
           /\ Varint[r.ts] \in Seq(Nat)
           /\ EncodeRecord(r) \in Seq(Nat)
           /\ Len(EncodeRecord(r)) = Len(Varint[r.ts]) + 1
           /\ \A i \in 1..Len(Varint[r.ts]) : EncodeRecord(r)[i] = Varint[r.ts][i]
           /\ EncodeRecord(r)[Len(Varint[r.ts]) + 1] = r.val
<1>1. MaxTime \in Nat /\ Paths \subseteq Nat
  BY RepositoryAssumption
<1>2. r.ts \in 1..MaxTime /\ r.ts \in 0..MaxTime /\ r.val \in Nat
  <2>1. r.ts \in 1..MaxTime /\ r.val \in {0} \cup Paths
    BY Zenon DEF Dups
  <2>2. PICK x, y : x = r.ts /\ y = r.val
    OBVIOUS
  <2>3. x \in 1..MaxTime /\ (y = 0 \/ y \in Paths)
    BY <2>1, <2>2
  <2>4. x \in 0..MaxTime /\ y \in Nat
    <3>1. x \in 0..MaxTime
      BY <1>1, <2>3
    <3>2. y = 0 => y \in Nat
      OBVIOUS
    <3>3. y \in Paths => y \in Nat
      BY <1>1
    <3>4. QED
      BY <2>3, <3>1, <3>2, <3>3
  <2>5. QED
    BY <2>2, <2>3, <2>4
<1>3. PICK a \in Seq(Nat) : a = Varint[r.ts]
  BY <1>2, VarintType
<1>4. PICK v \in Nat : v = r.val
  BY <1>2
<1>5. <<v>> \in Seq(Nat) /\ Len(<<v>>) = 1 /\ <<v>>[1] = v
  OBVIOUS
<1>6. PICK c : c = a \o <<v>>
  OBVIOUS
<1>7. /\ c \in Seq(Nat)
      /\ Len(c) = Len(a) + 1
      /\ \A i \in 1..(Len(a) + 1) : c[i] = IF i <= Len(a) THEN a[i] ELSE <<v>>[i - Len(a)]
  BY <1>5, <1>6, ConcatProperties
<1>8. Len(a) \in Nat
  OBVIOUS
<1>9. \A i \in 1..Len(a) : c[i] = a[i]
  BY <1>7, <1>8
<1>10. c[Len(a) + 1] = v
  BY <1>5, <1>7, <1>8
<1>11. EncodeRecord(r) = c
  BY <1>3, <1>4, <1>6 DEF EncodeRecord
<1>12. QED
  BY <1>2, <1>3, <1>4, <1>7, <1>9, <1>10, <1>11

\* Two records have different bytes.
LEMMA EncodeRecordInjective ==
    ASSUME NEW r \in Dups, NEW q \in Dups, EncodeRecord(r) = EncodeRecord(q)
    PROVE  r = q
<1>1. PICK a \in Seq(Nat), b \in Seq(Nat), c \in Seq(Nat) : a = Varint[r.ts] /\ b = Varint[q.ts] /\ c = EncodeRecord(r)
  BY EncodeRecordParts
<1>2. /\ Len(c) = Len(a) + 1 /\ Len(c) = Len(b) + 1
      /\ \A i \in 1..Len(a) : c[i] = a[i]
      /\ \A i \in 1..Len(b) : c[i] = b[i]
      /\ c[Len(a) + 1] = r.val /\ c[Len(b) + 1] = q.val
  BY <1>1, EncodeRecordParts
<1>3. Len(a) \in Nat /\ Len(b) \in Nat /\ Len(a) = Len(b)
  BY <1>2
<1>4. a = b
  <2>1. \A i \in 1..Len(a) : a[i] = b[i]
    BY <1>2, <1>3
  <2>2. QED
    BY <1>3, <2>1, SeqEqual, Zenon
<1>5. r.ts = q.ts
  <2>1. r.ts \in 0..MaxTime /\ q.ts \in 0..MaxTime
    BY EncodeRecordParts
  <2>2. QED
    BY <1>1, <1>4, <2>1, VarintInjective
<1>6. r.val = q.val
  BY <1>2, <1>3
<1>7. QED
  BY <1>5, <1>6 DEF Dups

\* The duplicate that mdb_get returns.
First(S, r) == r \in S /\ \A q \in S \ {r} : Before(EncodeRecord(r), EncodeRecord(q))

FirstOf(S) == CHOOSE r \in S : \A q \in S \ {r} : Before(EncodeRecord(r), EncodeRecord(q))

LEMMA FirstUnique ==
    ASSUME NEW S \in SUBSET Dups, NEW r, NEW q, First(S, r), First(S, q)
    PROVE  r = q
<1>1. SUFFICES ASSUME r # q PROVE FALSE
  OBVIOUS
<1>2. r \in Dups /\ q \in Dups
  BY DEF First
<1>3. Before(EncodeRecord(r), EncodeRecord(q)) /\ Before(EncodeRecord(q), EncodeRecord(r))
  BY <1>1, Zenon DEF First
<1>4. EncodeRecord(r) \in Seq(Nat) /\ EncodeRecord(q) \in Seq(Nat)
  BY <1>2, EncodeRecordParts
<1>5. QED
  BY <1>3, <1>4, BeforeAsymmetric, Zenon

LEMMA FirstExists ==
    ASSUME NEW S \in SUBSET Dups, IsFiniteSet(S), S # {}
    PROVE  \E r : First(S, r)
<1> DEFINE Lacks(T) == T # {} /\ ~\E r : First(T, r)
           Bad == {n \in Nat : \E T \in SUBSET S : Lacks(T) /\ Cardinality(T) = n}
<1>1. SUFFICES ASSUME Lacks(S) PROVE FALSE
  BY Zenon
<1>2. \A T \in SUBSET S : IsFiniteSet(T) /\ Cardinality(T) \in Nat
  BY FS_Subset, FS_CardinalityType
<1>3. Bad \subseteq Nat /\ Bad # {}
  <2>1. Cardinality(S) \in Bad
    BY <1>1, <1>2
  <2>2. QED
    BY <2>1
<1>4. PICK n \in Bad : \A m \in Bad : n <= m
  <2> HIDE DEF Bad
  <2>1. QED
    BY <1>3, LeastNumber
<1>5. PICK T \in SUBSET S : Lacks(T) /\ Cardinality(T) = n
  BY <1>4, Zenon
<1>6. PICK x : x \in T
  BY <1>5
<1>7. PICK U : U = T \ {x}
  OBVIOUS
<1>8. U \in SUBSET S /\ IsFiniteSet(U) /\ Cardinality(U) = n - 1 /\ n \in Nat
  BY <1>2, <1>5, <1>6, <1>7, FS_RemoveElement
<1>9. ~Lacks(U)
  <2>1. SUFFICES ASSUME Lacks(U) PROVE FALSE
    OBVIOUS
  <2>2. Cardinality(U) \in Bad
    BY <1>2, <1>8, <2>1
  <2>3. n <= Cardinality(U)
    BY <1>4, <2>2, Zenon
  <2>4. QED
    BY <1>8, <2>3
<1>10. CASE U = {}
  <2>1. First(T, x)
    BY <1>6, <1>7, <1>10 DEF First
  <2>2. QED
    BY <1>5, <2>1, Zenon
<1>11. CASE U # {}
  <2>1. PICK r : First(U, r)
    BY <1>9, <1>11, Zenon
  <2>2. r \in U /\ r \in Dups /\ x \in Dups /\ r # x
    BY <1>6, <1>7, <1>8, <2>1 DEF First
  <2>3. PICK er \in Seq(Nat), ex \in Seq(Nat) : er = EncodeRecord(r) /\ ex = EncodeRecord(x)
    BY <2>2, EncodeRecordParts
  <2>4. er # ex
    BY <2>2, <2>3, EncodeRecordInjective
  <2>5. CASE Before(er, ex)
    <3>1. First(T, r)
      BY <1>6, <1>7, <2>1, <2>3, <2>5, Zenon DEF First
    <3>2. QED
      BY <1>5, <3>1, Zenon
  <2>6. CASE Before(ex, er)
    <3>1. ASSUME NEW q \in T \ {x} PROVE Before(ex, EncodeRecord(q))
      <4>1. CASE q = r
        BY <2>3, <2>6, <4>1, Zenon
      <4>2. CASE q # r
        <5>1. q \in U \ {r} /\ q \in Dups
          BY <1>7, <1>8, <3>1, <4>2
        <5>2. Before(er, EncodeRecord(q)) /\ EncodeRecord(q) \in Seq(Nat)
          BY <2>1, <2>3, <5>1, EncodeRecordParts DEF First
        <5>3. QED
          BY <2>6, <5>2, BeforeTransitive, Zenon
      <4>3. QED
        BY <4>1, <4>2, Zenon
    <3>2. First(T, x)
      BY <1>6, <2>3, <3>1, Zenon DEF First
    <3>3. QED
      BY <1>5, <3>2, Zenon
  <2>7. QED
    BY <2>4, <2>5, <2>6, BeforeTotal, Zenon
<1>12. QED
  BY <1>10, <1>11, Zenon

LEMMA FirstOfIsFirst ==
    ASSUME NEW S \in SUBSET Dups, IsFiniteSet(S), S # {}
    PROVE  First(S, FirstOf(S)) /\ FirstOf(S) \in S
<1>1. PICK r : First(S, r)
  BY FirstExists
<1>2. QED
  BY <1>1, Zenon DEF First, FirstOf

\* A new duplicate is returned from now on, or changes nothing.
LEMMA FirstOfMore ==
    ASSUME NEW S \in SUBSET Dups, IsFiniteSet(S), S # {}, NEW x \in Dups
    PROVE  FirstOf(S \cup {x}) = FirstOf(S) \/ FirstOf(S \cup {x}) = x
<1>1. PICK T : T = S \cup {x}
  OBVIOUS
<1>2. T \in SUBSET Dups /\ IsFiniteSet(T) /\ T # {}
  BY <1>1, FS_AddElement
<1>3. PICK q : q = FirstOf(T)
  OBVIOUS
<1>4. First(T, q) /\ q \in T
  BY <1>2, <1>3, FirstOfIsFirst, Zenon
<1>5. ASSUME q # x PROVE q = FirstOf(S)
  <2>1. First(S, q)
    BY <1>1, <1>4, <1>5, Zenon DEF First
  <2>2. First(S, FirstOf(S))
    BY FirstOfIsFirst, Zenon
  <2>3. QED
    BY <2>1, <2>2, FirstUnique, Zenon
<1>6. QED
  BY <1>1, <1>3, <1>5, Zenon


-----------------------------------------------------------------------------
(* The inductive invariant.                                                 *)

Marks == [hash : Keys, ts : Nat]

Tasks == [entry : Marks, needed : BOOLEAN]

\* What a thread may be doing.
Calls == [pc : {"idle", "opened", "flushed", "closed", "found", "build", "adjust", "stuck"},
          op : {"none", "add", "has", "get", "sync"}, key : Keys, ts : Nat, val : {0} \cup Paths,
          rest : Seq(Marks), todo : Seq(Tasks),
          got : {"none", "published", "fault", "failed", "garbage", "node"}]

\* The tables and the clock have their types, the tables are finite, and no file
\* was opened more often than calls were made.
Types ==
    /\ files \in [Blocks -> {"none", "empty", "part", "whole"}]
    /\ store \in [Keys -> SUBSET Dups] /\ \A k \in Keys : IsFiniteSet(store[k])
    /\ journal \subseteq Entries
    /\ th \in [Threads -> Calls]
    /\ now \in Times /\ ops \in 0 .. MaxOps /\ crashes \in 0 .. MaxCrashes
    /\ opens \in [Blocks -> Nat] /\ \A b \in Blocks : opens[b] <= ops
    /\ spoiled \subseteq Blocks

\* No record is from the future.
Pasts == \A k \in Keys : \A r \in store[k] : r.ts <= now

\* Journal and datastore agree.
Journalled ==
    /\ \A e \in journal : e.hash # Garbled => \E r \in store[e.hash] : r.ts = e.ts
    /\ \A k \in Keys : store[k] # {} => \E e \in journal : e.hash = Garbled \/ e.hash = k
    /\ \A t \in Threads : th[t].pc = "stuck" => \E e \in journal : e.hash = Garbled

\* What a thread relies on between two steps: writers have a block, and a record
\* that was read is still there.
Sure(r) ==
    /\ r.pc \in {"opened", "flushed", "closed"} => r.key \in Blocks
    /\ r.pc \in {"found", "adjust"} => store[r.key] # {}
    /\ r.pc = "adjust" => r.ts # 0
    /\ r.pc \in {"opened", "flushed", "build", "adjust"} => r.got = "none"
    /\ \A i \in 1..Len(r.todo) :
           ~r.todo[i].needed => store[r.todo[i].entry.hash] # {} /\ r.todo[i].entry.ts # 0

Writes(r, b) == r.pc \in {"opened", "flushed"} /\ r.key = b

Closed(r, b) == r.pc = "closed" /\ r.key = b

\* There is a file of b, and somebody opened it.
Made(b) == files[b] # "none" /\ opens[b] >= 1

\* b is recorded, or about to be, and its file is as it should be.
Intact(b) == files[b] = "whole" \/ opens[b] > 1 \/ b \in spoiled

\* Only writers of blocks recorded b.
Filed(b) == store[b] # {} /\ ~Bare(b)

\* A key that is no block is recorded by names and PUT_VALUEs.
NamesBare == \A k \in Keys \ Blocks : ~Filed(k)

FileMade ==
    \A b \in Blocks :
        /\ Filed(b) \/ b \in spoiled => Made(b)
        /\ \A t \in Threads : Writes(th[t], b) \/ Closed(th[t], b) => Made(b)

FileIntact ==
    \A b \in Blocks :
        /\ Filed(b) => Intact(b)
        /\ \A t \in Threads : Closed(th[t], b) => Intact(b)

\* A file that is being written although it was written before was opened twice.
OpenedAgain ==
    \A b \in Blocks : \A t \in Threads :
        Writes(th[t], b) =>
            /\ Filed(b) \/ b \in spoiled => opens[b] > 1
            /\ \A u \in Threads \ {t} : Writes(th[u], b) \/ Closed(th[u], b) => opens[b] > 1

\* What a reader got.
Fair(r) ==
    /\ r.got = "fault" => Bare(r.key)
    /\ r.got \in {"failed", "garbage"} =>
           r.key \in Blocks /\ (opens[r.key] > 1 \/ r.key \in spoiled \/ Bare(r.key))

IInv == /\ Types /\ Pasts /\ Journalled
        /\ \A t \in Threads : Sure(th[t]) /\ Fair(th[t])
        /\ NamesBare /\ FileMade /\ FileIntact /\ OpenedAgain


-----------------------------------------------------------------------------
(* What the operators give, in a state of the invariant.                    *)

LEMMA GetIs ==
    ASSUME Types, NEW k \in Keys, store[k] # {}
    PROVE  /\ Get(k) = FirstOf(store[k]) /\ Get(k) \in store[k]
           /\ Get(k) \in Dups /\ Get(k).ts \in 1..MaxTime /\ Get(k).val \in {0} \cup Paths
<1>1. store[k] \in SUBSET Dups /\ IsFiniteSet(store[k])
  BY Zenon DEF Types
<1>2. Get(k) = FirstOf(store[k])
  BY Zenon DEF Get, FirstOf
<1>3. FirstOf(store[k]) \in store[k]
  BY <1>1, FirstOfIsFirst, Zenon
<1>4. Get(k) \in Dups
  BY <1>1, <1>2, <1>3
<1>5. Get(k).ts \in 1..MaxTime /\ Get(k).val \in {0} \cup Paths
  BY <1>4, Zenon DEF Dups
<1>6. QED
  BY <1>2, <1>3, <1>4, <1>5, Zenon

LEMMA IdleIs ==
    /\ Idle \in Calls
    /\ Idle.pc = "idle" /\ Idle.op = "none" /\ Idle.key = Name /\ Idle.ts = 0 /\ Idle.val = 0
    /\ Idle.rest = <<>> /\ Idle.todo = <<>> /\ Idle.got = "none"
<1>1. /\ Idle.pc = "idle" /\ Idle.op = "none" /\ Idle.key = Name /\ Idle.ts = 0 /\ Idle.val = 0
      /\ Idle.rest = <<>> /\ Idle.todo = <<>> /\ Idle.got = "none"
  BY DEF Idle
<1>2. <<>> \in Seq(Marks) /\ <<>> \in Seq(Tasks) /\ Name \in Keys
  BY DEF Keys
<1>3. Idle \in Calls
  BY <1>2 DEF Idle, Calls
<1>4. QED
  BY <1>1, <1>3

\* The search of cursor_get walks off the table only when an entry was garbled.
LEMMA LoopsWhenGarbled ==
    ASSUME journal \subseteq Entries, Journalled, NEW k \in Keys, NEW x, store[k] # {}, CursorGet(k, x) = "loops"
    PROVE  \E e \in journal : e.hash = Garbled
<1>1. [ts |-> x, hash |-> k] \notin journal /\ \A e \in journal : e.ts = x
  BY DEF CursorGet
<1>2. PICK e \in journal : e.hash = Garbled \/ e.hash = k
  BY Zenon DEF Journalled
<1>3. SUFFICES ASSUME e.hash = k PROVE FALSE
  BY <1>2, Zenon
<1>4. e = [ts |-> x, hash |-> k]
  BY <1>1, <1>3 DEF Entries
<1>5. QED
  BY <1>1, <1>4, <1>2, Zenon

\* The whole effect of repo_fsrepo_lmdb_put: it is caught in the journal, or it
\* adds one duplicate that is not from the future, and at most one journal entry.
Added(k, new) ==
    /\ store' = [store EXCEPT ![k] = @ \cup {new}]
    /\ \/ store[k] # {} /\ journal' = journal
       \/ \E e \in Entries : /\ journal' = journal \cup {e}
                             /\ e.hash = Garbled \/ (e.hash = k /\ e.ts = new.ts)

PutGives(t, k, v, x, next) ==
    \/ /\ th' = [th EXCEPT ![t].pc = "stuck"] /\ UNCHANGED <<store, journal>>
       /\ \E e \in journal : e.hash = Garbled
    \/ /\ th' = [th EXCEPT ![t] = next]
       /\ \E new \in Dups : /\ Added(k, new) /\ new.ts <= now /\ new.val = v
                            /\ store[k] # {} /\ x # 0 => new.ts <= Get(k).ts

LEMMA PutEffect ==
    ASSUME Types, Pasts, Journalled,
           NEW t \in Threads, NEW k \in Keys, NEW v \in {0} \cup Paths, NEW x \in Nat, NEW next,
           Put(t, k, v, x, next)
    PROVE  PutGives(t, k, v, x, next)
<1> USE DEF PutGives
<1>1. PICK asked, stamped : asked = Earlier(k, x) /\ stamped = Stamp(asked)
  BY Zenon
<1>2. PICK new : new = [ts |-> stamped, val |-> v]
  BY Zenon
<1>3. \/ /\ store[k] # {} /\ CursorGet(k, asked) = "loops"
         /\ th' = [th EXCEPT ![t].pc = "stuck"] /\ UNCHANGED <<store, journal>>
      \/ /\ th' = [th EXCEPT ![t] = next]
         /\ store' = [store EXCEPT ![k] = @ \cup {new}]
         /\ journal' \in IF new \in store[k] THEN {journal} ELSE JournalAfter(k, asked, stamped)
  BY <1>1, <1>2, Zenon DEF Put
<1>4. now \in Nat \ {0} /\ now <= MaxTime /\ MaxTime \in Nat
  BY RepositoryAssumption DEF Types, Times
<1>5. store[k] # {} => /\ Get(k).ts \in 1..MaxTime /\ Get(k).ts <= now
  BY GetIs DEF Pasts
<1>6. asked \in Nat /\ (store[k] # {} /\ x # 0 => asked # 0 /\ asked <= Get(k).ts)
  BY <1>1, <1>4, <1>5 DEF Earlier
<1>7. stamped \in 1..MaxTime /\ stamped <= now /\ (store[k] # {} /\ x # 0 => stamped <= Get(k).ts)
  BY <1>1, <1>4, <1>5, <1>6 DEF Stamp
<1>8. new \in Dups /\ new.ts = stamped /\ new.val = v
  BY <1>2, <1>7 DEF Dups
<1>9. CASE /\ store[k] # {} /\ CursorGet(k, asked) = "loops"
           /\ th' = [th EXCEPT ![t].pc = "stuck"] /\ UNCHANGED <<store, journal>>
  <2>1. journal \subseteq Entries
    BY Zenon DEF Types
  <2>2. QED
    BY <1>9, <2>1, LoopsWhenGarbled, Zenon
<1>10. CASE /\ th' = [th EXCEPT ![t] = next]
            /\ store' = [store EXCEPT ![k] = @ \cup {new}]
            /\ journal' \in IF new \in store[k] THEN {journal} ELSE JournalAfter(k, asked, stamped)
  <2>1. \/ store[k] # {} /\ journal' = journal
        \/ \E e : e \in Written([ts |-> stamped, hash |-> k]) /\ journal' = journal \cup {e}
    <3>1. CASE new \in store[k]
      BY <1>10, <3>1
    <3>2. CASE new \notin store[k]
      <4>1. journal' \in JournalAfter(k, asked, stamped)
        BY <1>10, <3>2
      <4>2. QED
        BY <4>1 DEF JournalAfter
    <3>3. QED
      BY <3>1, <3>2
  <2>2. \A e \in Written([ts |-> stamped, hash |-> k]) :
            e \in Entries /\ (e.hash = Garbled \/ (e.hash = k /\ e.ts = new.ts))
    <3>1. TAKE e \in Written([ts |-> stamped, hash |-> k])
    <3>2. CASE e = [ts |-> stamped, hash |-> k]
      BY <1>7, <1>8, <3>2 DEF Entries
    <3>3. CASE \E y \in Times : e = [ts |-> y, hash |-> Garbled]
      <4>1. PICK y \in Times : e = [ts |-> y, hash |-> Garbled]
        BY <3>3
      <4>2. y \in 1..MaxTime
        BY RepositoryAssumption DEF Times
      <4>3. QED
        BY <4>1, <4>2 DEF Entries
    <3>4. QED
      BY <3>1, <3>2, <3>3 DEF Written
  <2>3. Added(k, new)
    BY <1>10, <2>1, <2>2, Zenon DEF Added
  <2>4. QED
    BY <1>7, <1>8, <1>10, <2>3
<1>11. QED
  BY <1>3, <1>9, <1>10, Zenon


-----------------------------------------------------------------------------
(* Steps that change the thread only.                                       *)

LEMMA ThreadStep ==
    ASSUME IInv, NEW t \in Threads, NEW r \in Calls,
           th' = [th EXCEPT ![t] = r],
           UNCHANGED <<files, store, journal, now, crashes, opens, spoiled>>,
           ops' = ops \/ (ops < MaxOps /\ ops' = ops + 1),
           r.pc \notin {"opened", "flushed", "closed"}, Sure(r), Fair(r),
           r.pc = "stuck" => \E e \in journal : e.hash = Garbled
    PROVE  IInv'
<1>1. /\ Types /\ Pasts /\ Journalled /\ NamesBare /\ FileMade /\ FileIntact /\ OpenedAgain
      /\ \A u \in Threads : Sure(th[u]) /\ Fair(th[u])
  BY Zenon DEF IInv
<1>2. th \in [Threads -> Calls]
  BY <1>1, Zenon DEF Types
<1>3. /\ th' \in [Threads -> Calls] /\ th'[t] = r
      /\ \A u \in Threads : u # t => th'[u] = th[u]
  BY <1>2
<1>4. Types'
  <2>1. MaxOps \in Nat /\ ops \in 0..MaxOps /\ (\A b \in Blocks : opens[b] <= ops) /\ opens \in [Blocks -> Nat]
    BY <1>1, RepositoryAssumption DEF Types
  <2>2. ops' \in 0..MaxOps /\ \A b \in Blocks : opens[b] <= ops'
    BY <2>1
  <2>3. QED
    BY <1>1, <1>3, <2>1, <2>2 DEF Types
<1>5. Pasts'
  BY <1>1, Zenon DEF Pasts
<1>6. Journalled'
  BY <1>1, <1>3 DEF Journalled
<1>7. ASSUME NEW u \in Threads PROVE (Sure(th[u]) /\ Fair(th[u]))'
  <2>1. PICK q : q = th'[u]
    OBVIOUS
  <2>2. Sure(q) /\ Fair(q)
    BY <1>1, <1>3, <2>1, Zenon
  <2>3. Sure(q)' /\ Fair(q)'
    BY <2>2 DEF Sure, Fair, Bare
  <2>4. QED
    BY <2>1, <2>3 DEF Sure, Fair, Bare
<1>8. \A u \in Threads : \A b : /\ Writes(th'[u], b) => u # t /\ Writes(th[u], b)
                                /\ Closed(th'[u], b) => u # t /\ Closed(th[u], b)
  BY <1>3 DEF Writes, Closed
<1>9. FileMade'
  BY <1>1, <1>8 DEF FileMade, Made, Filed, Bare
<1>10. FileIntact'
  BY <1>1, <1>8 DEF FileIntact, Intact, Filed, Bare
<1>11. OpenedAgain'
  BY <1>1, <1>8 DEF OpenedAgain, Filed, Bare
<1>12. NamesBare'
  BY <1>1 DEF NamesBare, Filed, Bare
<1>13. QED
  BY <1>4, <1>5, <1>6, <1>7, <1>9, <1>10, <1>11, <1>12, Zenon DEF IInv

(***************************************************************************)
(* A put                                                                   *)
(***************************************************************************)

\* The tables agree after a put, and no thread loses what it relies on.
LEMMA AddedTables ==
    ASSUME IInv, NEW k \in Keys, NEW new \in Dups, Added(k, new), new.ts <= now, now' = now
    PROVE  /\ store' \in [Keys -> SUBSET Dups] /\ \A j \in Keys : IsFiniteSet(store'[j])
           /\ journal' \subseteq Entries
           /\ Pasts'
           /\ \A e \in journal' : e.hash # Garbled => \E r \in store'[e.hash] : r.ts = e.ts
           /\ \A j \in Keys : store'[j] # {} => \E e \in journal' : e.hash = Garbled \/ e.hash = j
           /\ \A j \in Keys : store'[j] # {} <=> store[j] # {} \/ j = k
           /\ \A r \in Calls : Sure(r) => Sure(r)'
           /\ \A j \in Keys : /\ Bare(j) => Bare(j)'
                              /\ Filed(j)' => Filed(j) \/ (j = k /\ store[k] = {} /\ new.val = 0)
<1>1. Types /\ Pasts /\ Journalled
  BY Zenon DEF IInv
<1>2. store \in [Keys -> SUBSET Dups] /\ (\A j \in Keys : IsFiniteSet(store[j])) /\ journal \subseteq Entries
  BY <1>1, Zenon DEF Types
<1>3. store' = [store EXCEPT ![k] = store[k] \cup {new}]
  BY DEF Added
<1>4. /\ store' \in [Keys -> SUBSET Dups] /\ store'[k] = store[k] \cup {new}
      /\ \A j \in Keys : j # k => store'[j] = store[j]
  BY <1>2, <1>3
<1>5. ASSUME NEW j \in Keys PROVE IsFiniteSet(store'[j])
  <2>1. CASE j = k
    BY <1>2, <1>4, <2>1, FS_AddElement
  <2>2. CASE j # k
    BY <1>2, <1>4, <2>2, Zenon
  <2>3. QED
    BY <2>1, <2>2, Zenon
<1>6. \A j \in Keys : store[j] \subseteq store'[j] /\ (store'[j] # {} <=> store[j] # {} \/ j = k)
  BY <1>4
<1>7. Pasts'
  BY <1>1, <1>4 DEF Pasts
<1>8. /\ journal \subseteq journal' /\ journal' \subseteq Entries
      /\ \A e \in journal' : e \in journal \/ e.hash = Garbled \/ (e.hash = k /\ e.ts = new.ts)
      /\ store[k] # {} \/ \E e \in journal' : e.hash = Garbled \/ e.hash = k
  BY <1>2 DEF Added
<1>9. ASSUME NEW e \in journal', e.hash # Garbled PROVE \E r \in store'[e.hash] : r.ts = e.ts
  <2>1. CASE e \in journal
    <3>1. e.hash \in Keys
      BY <1>2, <1>9, <2>1 DEF Entries
    <3>2. PICK r \in store[e.hash] : r.ts = e.ts
      BY <1>1, <1>9, <2>1, Zenon DEF Journalled
    <3>3. r \in store'[e.hash]
      BY <1>6, <3>1
    <3>4. QED
      BY <3>2, <3>3, Zenon
  <2>2. CASE e.hash = k /\ e.ts = new.ts
    BY <1>4, <2>2
  <2>3. QED
    BY <1>8, <1>9, <2>1, <2>2, Zenon
<1>10. ASSUME NEW j \in Keys, store'[j] # {} PROVE \E e \in journal' : e.hash = Garbled \/ e.hash = j
  <2>1. CASE store[j] # {}
    BY <1>1, <1>8, <2>1 DEF Journalled
  <2>2. CASE store[j] = {}
    <3>1. j = k
      BY <1>6, <1>10, <2>2
    <3>2. QED
      BY <1>8, <2>2, <3>1, Zenon
  <2>3. QED
    BY <2>1, <2>2, Zenon
<1>11. ASSUME NEW r \in Calls, Sure(r) PROVE Sure(r)'
  <2>1. r.key \in Keys /\ r.todo \in Seq(Tasks)
    BY Zenon DEF Calls
  <2>2. ASSUME NEW i \in 1..Len(r.todo) PROVE r.todo[i].entry.hash \in Keys
    <3>1. r.todo[i] \in Tasks
      BY <2>1, ElementOfSeq, Zenon
    <3>2. QED
      BY <3>1, Zenon DEF Tasks, Marks
  <2>3. QED
    BY <1>6, <1>11, <2>1, <2>2 DEF Sure
<1>12. ASSUME NEW j \in Keys
       PROVE  /\ Bare(j) => Bare(j)'
              /\ Filed(j)' => Filed(j) \/ (j = k /\ store[k] = {} /\ new.val = 0)
  BY <1>4, <1>6 DEF Filed, Bare
<1>13. QED
  BY <1>4, <1>5, <1>6, <1>7, <1>8, <1>9, <1>10, <1>11, <1>12, Zenon


\* The thread takes the state that follows a put that ended.
LEMMA PutDone ==
    ASSUME IInv, NEW t \in Threads, NEW k \in Keys, NEW new \in Dups, NEW r \in Calls,
           th' = [th EXCEPT ![t] = r], Added(k, new), new.ts <= now,
           UNCHANGED <<files, now, crashes, opens, spoiled>>,
           ops' = ops \/ (ops < MaxOps /\ ops' = ops + 1),
           r.pc \notin {"opened", "flushed", "closed", "stuck"}, Sure(r), Fair(r),
           store[k] # {} \/ (k \in Blocks /\ Closed(th[t], k)) \/ new.val # 0
    PROVE  IInv'
<1>1. /\ Types /\ Pasts /\ Journalled /\ NamesBare /\ FileMade /\ FileIntact /\ OpenedAgain
      /\ \A u \in Threads : Sure(th[u]) /\ Fair(th[u])
  BY Zenon DEF IInv
<1>2. th \in [Threads -> Calls]
  BY <1>1, Zenon DEF Types
<1>3. /\ th' \in [Threads -> Calls] /\ th'[t] = r
      /\ \A u \in Threads : u # t => th'[u] = th[u]
  BY <1>2
<1>4. /\ store' \in [Keys -> SUBSET Dups] /\ \A j \in Keys : IsFiniteSet(store'[j])
      /\ journal' \subseteq Entries
      /\ Pasts'
      /\ \A e \in journal' : e.hash # Garbled => \E q \in store'[e.hash] : q.ts = e.ts
      /\ \A j \in Keys : store'[j] # {} => \E e \in journal' : e.hash = Garbled \/ e.hash = j
      /\ \A j \in Keys : store'[j] # {} <=> store[j] # {} \/ j = k
      /\ \A q \in Calls : Sure(q) => Sure(q)'
      /\ \A j \in Keys : /\ Bare(j) => Bare(j)'
                         /\ Filed(j)' => Filed(j) \/ (j = k /\ store[k] = {} /\ new.val = 0)
  BY AddedTables, Zenon
<1>5. Types'
  <2>1. MaxOps \in Nat /\ ops \in 0..MaxOps /\ (\A b \in Blocks : opens[b] <= ops) /\ opens \in [Blocks -> Nat]
    BY <1>1, RepositoryAssumption DEF Types
  <2>2. ops' \in 0..MaxOps /\ \A b \in Blocks : opens[b] <= ops'
    BY <2>1
  <2>3. QED
    BY <1>1, <1>3, <1>4, <2>1, <2>2 DEF Types
<1>6. Journalled'
  <2>1. \A u \in Threads : th'[u].pc = "stuck" => \E e \in journal' : e.hash = Garbled
    <3>1. journal \subseteq journal'
      BY DEF Added
    <3>2. QED
      BY <1>1, <1>3, <3>1 DEF Journalled
  <2>2. QED
    BY <1>4, <2>1, Zenon DEF Journalled
<1>7. ASSUME NEW u \in Threads PROVE (Sure(th[u]) /\ Fair(th[u]))'
  <2>1. PICK q \in Calls : q = th'[u]
    BY <1>3
  <2>2. Sure(q) /\ Fair(q)
    BY <1>1, <1>3, <2>1, Zenon
  <2>3. Sure(q)'
    BY <1>4, <2>2, Zenon
  <2>4. q.key \in Keys
    BY Zenon DEF Calls
  <2>5. Fair(q)'
    BY <1>4, <2>2, <2>4 DEF Fair
  <2>6. QED
    BY <2>1, <2>3, <2>5 DEF Sure, Fair, Bare
<1>8. \A u \in Threads : \A b : /\ Writes(th'[u], b) => u # t /\ Writes(th[u], b)
                                /\ Closed(th'[u], b) => u # t /\ Closed(th[u], b)
  BY <1>3 DEF Writes, Closed
<1>9. \A b \in Blocks : Filed(b)' => Filed(b) \/ Closed(th[t], b)
  BY <1>4 DEF Keys
<1>10. FileMade'
  BY <1>1, <1>8, <1>9 DEF FileMade, Made
<1>11. FileIntact'
  BY <1>1, <1>8, <1>9 DEF FileIntact, Intact
<1>12. OpenedAgain'
  BY <1>1, <1>8, <1>9 DEF OpenedAgain
<1>13. NamesBare'
  BY <1>1, <1>4 DEF NamesBare
<1>14. QED
  BY <1>4, <1>5, <1>6, <1>7, <1>10, <1>11, <1>12, <1>13, Zenon DEF IInv

LEMMA PutStep ==
    ASSUME IInv, NEW t \in Threads, NEW k \in Keys, NEW v \in {0} \cup Paths, NEW x \in Nat,
           NEW next \in Calls, Put(t, k, v, x, next),
           UNCHANGED <<files, now, crashes, opens, spoiled>>,
           ops' = ops \/ (ops < MaxOps /\ ops' = ops + 1),
           next.pc \notin {"opened", "flushed", "closed", "stuck"}, Sure(next), Fair(next),
           store[k] # {} \/ (k \in Blocks /\ Closed(th[t], k)) \/ v # 0
    PROVE  IInv'
<1>1. Types /\ Pasts /\ Journalled /\ Sure(th[t]) /\ Fair(th[t])
  BY Zenon DEF IInv
<1>2. \/ /\ th' = [th EXCEPT ![t].pc = "stuck"] /\ UNCHANGED <<store, journal>>
         /\ \E e \in journal : e.hash = Garbled
      \/ /\ th' = [th EXCEPT ![t] = next]
         /\ \E new \in Dups : Added(k, new) /\ new.ts <= now /\ new.val = v
  <2>1. PutGives(t, k, v, x, next)
    BY <1>1, PutEffect, Zenon
  <2>2. QED
    BY <2>1, Zenon DEF PutGives
<1>3. CASE /\ th' = [th EXCEPT ![t].pc = "stuck"] /\ UNCHANGED <<store, journal>>
           /\ \E e \in journal : e.hash = Garbled
  <2>1. PICK q \in Calls : q = th[t]
    BY <1>1 DEF Types
  <2>2. PICK r : r = [q EXCEPT !.pc = "stuck"]
    OBVIOUS
  <2>3. /\ r \in Calls /\ r.pc = "stuck" /\ r.key = q.key /\ r.todo = q.todo /\ r.got = q.got
    BY <2>2 DEF Calls
  <2>4. th' = [th EXCEPT ![t] = r]
    BY <1>3, <2>1, <2>2
  <2>5. Sure(r) /\ Fair(r)
    BY <1>1, <2>1, <2>3 DEF Sure, Fair
  <2>6. QED
    BY <1>3, <2>3, <2>4, <2>5, ThreadStep
<1>4. CASE /\ th' = [th EXCEPT ![t] = next]
           /\ \E new \in Dups : Added(k, new) /\ new.ts <= now /\ new.val = v
  BY <1>4, PutDone, Zenon
<1>5. QED
  BY <1>2, <1>3, <1>4, Zenon


-----------------------------------------------------------------------------
(* The calls.                                                               *)

LEMMA WritePutStep ==
    ASSUME IInv, NEW t \in Threads, WritePut(t)
    PROVE  IInv'
<1>1. /\ th[t].pc = "closed" /\ Put(t, th[t].key, 0, 0, Idle)
      /\ UNCHANGED <<files, now, ops, crashes, opens, spoiled>>
  BY Zenon DEF WritePut
<1>2. Sure(th[t])
  BY Zenon DEF IInv
<1>3. PICK k \in Blocks : k = th[t].key
  BY <1>1, <1>2 DEF Sure
<1>4. k \in Keys /\ Closed(th[t], k)
  BY <1>1, <1>3 DEF Keys, Closed
<1>5. Sure(Idle) /\ Fair(Idle) /\ Idle.pc \notin {"opened", "flushed", "closed", "stuck"} /\ Idle \in Calls
  BY IdleIs DEF Sure, Fair
<1>6. PICK zero \in {0} \cup Paths : zero = 0 /\ zero \in Nat
  OBVIOUS
<1>7. Put(t, k, zero, zero, Idle)
  BY <1>1, <1>3, <1>6, Zenon
<1>8. QED
  BY <1>1, <1>4, <1>5, <1>6, <1>7, PutStep, Zenon

LEMMA PublishStep ==
    ASSUME IInv, NEW t \in Threads, NEW p \in Paths, Publish(t, p)
    PROVE  IInv'
<1>1. PICK r : r = [Idle EXCEPT !.got = "published", !.val = p]
  OBVIOUS
<1>2. /\ Put(t, Name, p, 0, r) /\ UNCHANGED <<files, now, crashes, opens, spoiled>>
      /\ ops < MaxOps /\ ops' = ops + 1
  BY <1>1, Zenon DEF Publish, Begin
<1>3. r \in Calls /\ r.pc = "idle" /\ r.got = "published" /\ r.todo = <<>>
  BY <1>1, IdleIs DEF Calls
<1>4. Sure(r) /\ Fair(r)
  BY <1>3 DEF Sure, Fair
<1>5. Name \in Keys /\ p # 0 /\ p \in {0} \cup Paths /\ 0 \in Nat
  BY RepositoryAssumption DEF Keys
<1>6. r.pc \notin {"opened", "flushed", "closed", "stuck"}
  BY <1>3
<1>7. QED
  BY <1>2, <1>3, <1>4, <1>5, <1>6, PutStep, Zenon

LEMMA PutValueStep ==
    ASSUME IInv, NEW t \in Threads, NEW k \in Keys, NEW p \in Paths, PutValue(t, k, p)
    PROVE  IInv'
<1>1. /\ Put(t, k, p, 0, Idle) /\ UNCHANGED <<files, now, crashes, opens, spoiled>>
      /\ ops < MaxOps /\ ops' = ops + 1
  BY Zenon DEF PutValue, Begin
<1>2. Sure(Idle) /\ Fair(Idle) /\ Idle.pc \notin {"opened", "flushed", "closed", "stuck"} /\ Idle \in Calls
  BY IdleIs DEF Sure, Fair
<1>3. p # 0 /\ p \in {0} \cup Paths /\ 0 \in Nat
  BY RepositoryAssumption
<1>4. QED
  BY <1>1, <1>2, <1>3, PutStep, Zenon

LEMMA AdjustPutStep ==
    ASSUME IInv, NEW t \in Threads, AdjustPut(t)
    PROVE  IInv'
<1>1. PICK q, r : q = th[t] /\ r = [q EXCEPT !.pc = "build"]
  OBVIOUS
<1>2. /\ q.pc = "adjust" /\ Put(t, q.key, q.val, q.ts, r)
      /\ UNCHANGED <<files, now, ops, crashes, opens, spoiled>>
  BY <1>1, Zenon DEF AdjustPut
<1>3. Sure(q) /\ Fair(q) /\ q \in Calls
  <2>1. Types
    BY Zenon DEF IInv
  <2>2. th[t] \in Calls
    BY <2>1 DEF Types
  <2>3. QED
    BY <1>1, <2>2, Zenon DEF IInv
<1>4. q.key \in Keys /\ q.val \in {0} \cup Paths /\ q.ts \in Nat
  BY <1>3, Zenon DEF Calls
<1>5. r \in Calls /\ r.pc = "build" /\ r.todo = q.todo /\ r.key = q.key /\ r.got = q.got
  BY <1>1, <1>3 DEF Calls
<1>6. Sure(r) /\ Fair(r) /\ store[q.key] # {}
  BY <1>2, <1>3, <1>5 DEF Sure, Fair
<1>7. r.pc \notin {"opened", "flushed", "closed", "stuck"}
  BY <1>5
<1>8. QED
  BY <1>2, <1>4, <1>5, <1>6, <1>7, PutStep, Zenon

LEMMA ReadCheckStep ==
    ASSUME IInv, NEW t \in Threads, NEW b \in Keys, ReadCheck(t, b)
    PROVE  IInv'
<1>1. PICK r : r = [Idle EXCEPT !.pc = "found", !.op = "get", !.key = b]
  OBVIOUS
<1>2. /\ th' = [th EXCEPT ![t] = r] /\ store[b] # {}
      /\ UNCHANGED <<files, store, journal, now, crashes, opens, spoiled>>
      /\ ops < MaxOps /\ ops' = ops + 1
  BY <1>1, Zenon DEF ReadCheck, Begin
<1>3. r \in Calls /\ r.pc = "found" /\ r.key = b /\ r.got = "none" /\ r.todo = <<>>
  BY <1>1, IdleIs DEF Calls
<1>4. Sure(r) /\ Fair(r)
  BY <1>2, <1>3 DEF Sure, Fair
<1>5. QED
  BY <1>2, <1>3, <1>4, ThreadStep

LEMMA ReadFileStep ==
    ASSUME IInv, NEW t \in Threads, ReadFile(t)
    PROVE  IInv'
<1>1. PICK q, file, what : /\ q = th[t] /\ file = FileOf(q.key)
                           /\ what = CASE file = "none"  -> "fault"
                                       [] file = "empty" -> "failed"
                                       [] file = "part"  -> "garbage"
                                       [] file = "whole" -> "node"
  OBVIOUS
<1>2. PICK r : r = [q EXCEPT !.pc = "idle", !.got = what]
  OBVIOUS
<1>3. /\ q.pc = "found" /\ th' = [th EXCEPT ![t] = r]
      /\ UNCHANGED <<files, store, journal, now, ops, crashes, opens, spoiled>>
  BY <1>1, <1>2, Zenon DEF ReadFile
<1>4. Types /\ Sure(q) /\ NamesBare /\ FileMade /\ FileIntact
  BY <1>1, Zenon DEF IInv
<1>5. q \in Calls /\ q.key \in Keys /\ store[q.key] # {}
  <2>1. q \in Calls
    BY <1>1, <1>4 DEF Types
  <2>2. q.key \in Keys
    BY <2>1, Zenon DEF Calls
  <2>3. QED
    BY <1>3, <1>4, <2>1, <2>2 DEF Sure
\* A key that is no block is recorded by a name or a PUT_VALUE only.
<1>6. q.key \in Blocks \/ Bare(q.key)
  BY <1>4, <1>5 DEF NamesBare, Filed
<1>7. /\ what \in {"fault", "failed", "garbage", "node"}
      /\ what = "fault" => Bare(q.key)
      /\ what \in {"failed", "garbage"} =>
             q.key \in Blocks /\ (opens[q.key] > 1 \/ q.key \in spoiled \/ Bare(q.key))
  <2>1. CASE q.key \notin Blocks
    BY <1>1, <1>6, <2>1 DEF FileOf
  <2>2. CASE q.key \in Blocks
    <3>1. file = files[q.key] /\ file \in {"none", "empty", "part", "whole"}
      BY <1>1, <1>4, <2>2 DEF FileOf, Types
    <3>2. Bare(q.key) \/ Filed(q.key)
      BY <1>5, Zenon DEF Filed
    <3>3. Filed(q.key) => file # "none" /\ (file = "whole" \/ opens[q.key] > 1 \/ q.key \in spoiled)
      BY <1>4, <2>2, <3>1, Zenon DEF FileMade, Made, FileIntact, Intact
    <3>4. QED
      BY <1>1, <2>2, <3>1, <3>2, <3>3
  <2>3. QED
    BY <2>1, <2>2, Zenon
<1>8. r \in Calls /\ r.pc = "idle" /\ r.key = q.key /\ r.todo = q.todo /\ r.got = what
  BY <1>2, <1>5, <1>7 DEF Calls
<1>9. Sure(r) /\ Fair(r)
  BY <1>4, <1>7, <1>8 DEF Sure, Fair
<1>10. QED
  BY <1>3, <1>8, <1>9, ThreadStep

LEMMA HandleMessageStep ==
    ASSUME IInv, NEW t \in Threads, NEW m \in Messages, HandleMessage(t, m)
    PROVE  IInv'
<1>1. PICK r : r = [Idle EXCEPT !.pc = "build", !.op = "sync", !.rest = m.entries]
  OBVIOUS
<1>2. /\ th' = [th EXCEPT ![t] = r]
      /\ UNCHANGED <<files, store, journal, now, crashes, opens, spoiled>>
      /\ ops < MaxOps /\ ops' = ops + 1
  BY <1>1, Zenon DEF HandleMessage, Begin
<1>3. m.entries \in Seq(Marks)
  BY RepositoryAssumption, Zenon DEF Marks, Keys
<1>4. r \in Calls /\ r.pc = "build" /\ r.got = "none" /\ r.todo = <<>>
  BY <1>1, <1>3, IdleIs DEF Calls
<1>5. Sure(r) /\ Fair(r)
  BY <1>4 DEF Sure, Fair
<1>6. QED
  BY <1>2, <1>4, <1>5, ThreadStep

LEMMA HandleDoneStep ==
    ASSUME IInv, NEW t \in Threads, HandleDone(t)
    PROVE  IInv'
<1>1. /\ th' = [th EXCEPT ![t] = Idle]
      /\ UNCHANGED <<files, store, journal, now, ops, crashes, opens, spoiled>>
  BY Zenon DEF HandleDone
<1>2. Sure(Idle) /\ Fair(Idle) /\ Idle.pc = "idle" /\ Idle \in Calls
  BY IdleIs DEF Sure, Fair
<1>3. QED
  BY <1>1, <1>2, ThreadStep


\* What is left of the list is as good as the list.
LEMMA TailSure ==
    ASSUME NEW q \in Calls, NEW r \in Calls, Sure(q), q.pc = "build", q.todo # <<>>,
           r.pc = "build" \/ (r.pc = "adjust" /\ store[r.key] # {} /\ r.ts # 0),
           r.got = q.got, r.todo = Tail(q.todo)
    PROVE  Sure(r) /\ Fair(r)
<1>1. PICK s \in Seq(Tasks) : s = q.todo
  BY Zenon DEF Calls
<1>2. Len(Tail(s)) = Len(s) - 1 /\ (\A i \in 1..Len(Tail(s)) : Tail(s)[i] = s[i + 1]) /\ Len(s) \in Nat
  BY <1>1, HeadTailProperties
<1>3. \A i \in 1..Len(s) : ~s[i].needed => store[s[i].entry.hash] # {} /\ s[i].entry.ts # 0
  BY <1>1, Zenon DEF Sure
<1>4. ASSUME NEW i \in 1..Len(r.todo), ~r.todo[i].needed
      PROVE  store[r.todo[i].entry.hash] # {} /\ r.todo[i].entry.ts # 0
  <2>1. i + 1 \in 1..Len(s) /\ r.todo[i] = s[i + 1]
    BY <1>1, <1>2, <1>4
  <2>2. QED
    BY <1>3, <1>4, <2>1
<1>5. r.got = "none"
  BY DEF Sure
<1>6. Sure(r)
  BY <1>4, <1>5 DEF Sure
<1>7. Fair(r)
  BY <1>5 DEF Fair
<1>8. QED
  BY <1>6, <1>7

LEMMA TodoNeededStep ==
    ASSUME IInv, NEW t \in Threads, TodoNeeded(t)
    PROVE  IInv'
<1>1. PICK q, r : q = th[t] /\ r = [q EXCEPT !.todo = Tail(q.todo)]
  OBVIOUS
<1>2. /\ q.pc = "build" /\ q.todo # <<>>
      /\ th' = [th EXCEPT ![t].todo = Tail(@)]
      /\ UNCHANGED <<files, store, journal, now, ops, crashes, opens, spoiled>>
  BY <1>1, Zenon DEF TodoNeeded
<1>3. Types /\ Sure(q)
  BY <1>1, Zenon DEF IInv
<1>4. q \in Calls /\ th \in [Threads -> Calls]
  BY <1>1, <1>3 DEF Types
<1>5. th' = [th EXCEPT ![t] = r]
  BY <1>1, <1>2
<1>6. q.todo \in Seq(Tasks)
  BY <1>4, Zenon DEF Calls
<1>7. Tail(q.todo) \in Seq(Tasks)
  BY <1>2, <1>6, HeadTailProperties
<1>8. r \in Calls /\ r.pc = "build" /\ r.got = q.got /\ r.todo = Tail(q.todo)
  BY <1>1, <1>2, <1>4, <1>7 DEF Calls
<1>9. Sure(r) /\ Fair(r)
  BY <1>2, <1>3, <1>4, <1>8, TailSure
<1>10. QED
  BY <1>2, <1>5, <1>8, <1>9, ThreadStep

LEMMA AdjustGetStep ==
    ASSUME IInv, NEW t \in Threads, AdjustGet(t)
    PROVE  IInv'
<1>1. PICK q, todo : q = th[t] /\ todo = Head(q.todo)
  OBVIOUS
<1>2. PICK r : r = IF Get(todo.entry.hash).ts > todo.entry.ts
                   THEN [q EXCEPT !.pc = "adjust", !.key = todo.entry.hash,
                                  !.ts = todo.entry.ts, !.val = Get(todo.entry.hash).val,
                                  !.todo = Tail(q.todo)]
                   ELSE [q EXCEPT !.todo = Tail(q.todo)]
  OBVIOUS
<1>3. /\ q.pc = "build" /\ q.todo # <<>> /\ ~todo.needed
      /\ th' = [th EXCEPT ![t] = IF Get(todo.entry.hash).ts > todo.entry.ts
                   THEN [@ EXCEPT !.pc = "adjust", !.key = todo.entry.hash,
                                  !.ts = todo.entry.ts, !.val = Get(todo.entry.hash).val,
                                  !.todo = Tail(q.todo)]
                   ELSE [@ EXCEPT !.todo = Tail(q.todo)]]
      /\ UNCHANGED <<files, store, journal, now, ops, crashes, opens, spoiled>>
  BY <1>1, Zenon DEF AdjustGet
<1>4. Types /\ Sure(q)
  BY <1>1, Zenon DEF IInv
<1>5. q \in Calls /\ th \in [Threads -> Calls]
  BY <1>1, <1>4 DEF Types
<1>6. th' = [th EXCEPT ![t] = r]
  BY <1>1, <1>2, <1>3, Zenon
<1>7. q.todo \in Seq(Tasks)
  BY <1>5, Zenon DEF Calls
<1>8. Tail(q.todo) \in Seq(Tasks) /\ todo \in Tasks /\ todo = q.todo[1] /\ 1 \in 1..Len(q.todo)
  <2>1. PICK s \in Seq(Tasks) : s = q.todo
    BY <1>7
  <2>2. s # <<>> /\ Len(s) \in Nat /\ Len(s) # 0
    BY <1>3, <2>1
  <2>3. Tail(s) \in Seq(Tasks) /\ Head(s) \in Tasks
    BY <2>2, HeadTailProperties
  <2>4. Head(s) = s[1]
    BY <2>2
  <2>5. QED
    BY <1>1, <2>1, <2>2, <2>3, <2>4
<1>9. todo.entry.hash \in Keys /\ todo.entry.ts \in Nat
  BY <1>8, Zenon DEF Tasks, Marks
<1>10. store[todo.entry.hash] # {} /\ todo.entry.ts # 0
  BY <1>3, <1>4, <1>8, Zenon DEF Sure
<1>11. Get(todo.entry.hash).val \in {0} \cup Paths
  BY <1>4, <1>9, <1>10, GetIs, Zenon
<1>12. /\ r \in Calls /\ r.got = q.got /\ r.todo = Tail(q.todo)
       /\ r.pc = "build" \/ (r.pc = "adjust" /\ store[r.key] # {} /\ r.ts # 0)
  <2>1. PICK v \in {0} \cup Paths : v = Get(todo.entry.hash).val
    BY <1>11, Zenon
  <2>2. CASE Get(todo.entry.hash).ts > todo.entry.ts
    <3>1. r = [q EXCEPT !.pc = "adjust", !.key = todo.entry.hash,
                        !.ts = todo.entry.ts, !.val = v, !.todo = Tail(q.todo)]
      BY <1>2, <2>1, <2>2
    <3>2. r \in Calls
      BY <1>5, <1>8, <1>9, <3>1 DEF Calls
    <3>3. r.got = q.got /\ r.todo = Tail(q.todo) /\ r.pc = "adjust" /\ r.key = todo.entry.hash /\ r.ts = todo.entry.ts
      BY <1>5, <3>1 DEF Calls
    <3>4. QED
      BY <1>10, <3>2, <3>3, Zenon
  <2>3. CASE ~(Get(todo.entry.hash).ts > todo.entry.ts)
    <3>1. r = [q EXCEPT !.todo = Tail(q.todo)]
      BY <1>2, <2>3
    <3>2. QED
      BY <1>3, <1>5, <1>8, <3>1 DEF Calls
  <2>4. QED
    BY <2>2, <2>3, Zenon
<1>13. Sure(r) /\ Fair(r)
  BY <1>3, <1>4, <1>5, <1>12, TailSure, Zenon
<1>14. r.pc \notin {"opened", "flushed", "closed", "stuck"}
  BY <1>12
<1>15. QED
  BY <1>3, <1>6, <1>12, <1>13, <1>14, ThreadStep

LEMMA BuildTodoStep ==
    ASSUME IInv, NEW t \in Threads, BuildTodo(t)
    PROVE  IInv'
<1>1. PICK q, e : q = th[t] /\ e = Head(q.rest)
  OBVIOUS
<1>2. PICK needed \in BOOLEAN, adjust \in BOOLEAN :
          /\ needed = (store[e.hash] = {})
          /\ adjust = (~needed /\ e.ts # 0 /\ (Get(e.hash).ts = 0 \/ e.ts < Get(e.hash).ts))
  BY Zenon
<1>3. PICK left : left = IF needed \/ adjust THEN Append(q.todo, [entry |-> e, needed |-> needed]) ELSE q.todo
  BY Zenon
<1>4. PICK r : r = [q EXCEPT !.rest = Tail(q.rest), !.todo = left]
  OBVIOUS
<1>5. /\ q.pc = "build" /\ q.rest # <<>>
      /\ th' = [th EXCEPT ![t].rest = Tail(@),
                          ![t].todo = IF needed \/ adjust
                                      THEN Append(@, [entry |-> e, needed |-> needed])
                                      ELSE @]
      /\ UNCHANGED <<files, store, journal, now, ops, crashes, opens, spoiled>>
  BY <1>1, <1>2, Zenon DEF BuildTodo
<1>6. Types /\ Sure(q)
  BY <1>1, Zenon DEF IInv
<1>7. q \in Calls /\ th \in [Threads -> Calls]
  BY <1>1, <1>6 DEF Types
<1>8. th' = [th EXCEPT ![t] = r]
  BY <1>1, <1>3, <1>4, <1>5, <1>7
<1>9. q.todo \in Seq(Tasks) /\ q.rest \in Seq(Marks)
  BY <1>7, Zenon DEF Calls
<1>10. Tail(q.rest) \in Seq(Marks) /\ e \in Marks
  BY <1>1, <1>5, <1>9, HeadTailProperties
<1>11. PICK x \in Tasks : x = [entry |-> e, needed |-> needed]
  BY <1>10 DEF Tasks
<1>12. x.entry = e /\ x.needed = needed
  BY <1>11
<1>13. /\ left \in Seq(Tasks)
       /\ \A i \in 1..Len(left) : \/ i \in 1..Len(q.todo) /\ left[i] = q.todo[i]
                                  \/ left[i] = x /\ (needed \/ adjust)
  <2>1. PICK s \in Seq(Tasks) : s = q.todo
    BY <1>9
  <2>2. /\ Append(s, x) \in Seq(Tasks) /\ Len(Append(s, x)) = Len(s) + 1 /\ Len(s) \in Nat
        /\ \A i \in 1..Len(s) : Append(s, x)[i] = s[i]
        /\ Append(s, x)[Len(s) + 1] = x
    BY AppendProperties
  <2>3. CASE needed \/ adjust
    <3>1. left = Append(s, x)
      BY <1>3, <1>11, <2>1, <2>3, Zenon
    <3>2. QED
      BY <2>1, <2>2, <2>3, <3>1
  <2>4. CASE ~(needed \/ adjust)
    <3>1. left = s
      BY <1>3, <2>1, <2>4, Zenon
    <3>2. QED
      BY <2>1, <2>4, <3>1
  <2>5. QED
    BY <2>3, <2>4, Zenon
<1>14. r \in Calls /\ r.pc = "build" /\ r.got = q.got /\ r.todo = left
  BY <1>4, <1>5, <1>7, <1>10, <1>13 DEF Calls
<1>15. adjust => store[e.hash] # {} /\ e.ts # 0
  BY <1>2, Zenon
<1>16. \A i \in 1..Len(left) : ~left[i].needed => store[left[i].entry.hash] # {} /\ left[i].entry.ts # 0
  <2>1. TAKE i \in 1..Len(left)
  <2>2. CASE i \in 1..Len(q.todo) /\ left[i] = q.todo[i]
    BY <1>6, <2>2, Zenon DEF Sure
  <2>3. CASE left[i] = x /\ (needed \/ adjust)
    BY <1>12, <1>15, <2>3, Zenon
  <2>4. QED
    BY <1>13, <2>2, <2>3, Zenon
<1>17. r.got = "none"
  BY <1>5, <1>6, <1>14 DEF Sure
<1>18. Sure(r) /\ Fair(r)
  BY <1>14, <1>16, <1>17 DEF Sure, Fair
<1>19. QED
  BY <1>5, <1>8, <1>14, <1>18, ThreadStep


-----------------------------------------------------------------------------
(* The file of a block.                                                     *)

\* A step on a file leaves the tables and what the threads rely on alone.
LEMMA FileStep ==
    ASSUME IInv, NEW t \in Threads, NEW r \in Calls,
           th' = [th EXCEPT ![t] = r], UNCHANGED <<store, journal, now, crashes>>,
           files' \in [Blocks -> {"none", "empty", "part", "whole"}],
           spoiled' \subseteq Blocks, ops' \in 0..MaxOps,
           opens' \in [Blocks -> Nat], \A b \in Blocks : opens'[b] <= ops',
           r.pc # "stuck", Sure(r)
    PROVE  /\ Types' /\ Pasts' /\ Journalled' /\ NamesBare' /\ \A u \in Threads : Sure(th[u])'
           /\ th'[t] = r /\ \A u \in Threads : u # t => th'[u] = th[u]
<1>1. Types /\ Pasts /\ Journalled /\ NamesBare /\ \A u \in Threads : Sure(th[u])
  BY Zenon DEF IInv
<1>2. th \in [Threads -> Calls]
  BY <1>1, Zenon DEF Types
<1>3. /\ th' \in [Threads -> Calls] /\ th'[t] = r
      /\ \A u \in Threads : u # t => th'[u] = th[u]
  BY <1>2
<1>4. Types'
  BY <1>1, <1>3 DEF Types
<1>5. Pasts'
  BY <1>1, Zenon DEF Pasts
<1>6. Journalled'
  BY <1>1, <1>3 DEF Journalled
<1>7. ASSUME NEW u \in Threads PROVE Sure(th[u])'
  <2>1. PICK q : q = th'[u]
    OBVIOUS
  <2>2. Sure(q)
    BY <1>1, <1>3, <2>1, Zenon
  <2>3. Sure(q)'
    BY <2>2 DEF Sure
  <2>4. QED
    BY <2>1, <2>3 DEF Sure
<1>8. NamesBare'
  BY <1>1 DEF NamesBare, Filed, Bare
<1>9. QED
  BY <1>3, <1>4, <1>5, <1>6, <1>7, <1>8, Zenon

LEMMA WriteOpenStep ==
    ASSUME IInv, NEW t \in Threads, NEW b \in Blocks, NEW op \in {"add", "has"}, WriteOpen(t, b, op)
    PROVE  IInv'
<1>1. PICK r : r = [Idle EXCEPT !.pc = "opened", !.op = op, !.key = b]
  OBVIOUS
<1>2. /\ th' = [th EXCEPT ![t] = r] /\ ops < MaxOps /\ ops' = ops + 1
      /\ files' = [files EXCEPT ![b] = "empty"]
      /\ opens' = [opens EXCEPT ![b] = @ + 1]
      /\ UNCHANGED <<store, journal, now, crashes, spoiled>>
  BY <1>1, Zenon DEF WriteOpen, Begin
<1>3. /\ Types /\ FileMade /\ FileIntact /\ OpenedAgain /\ \A u \in Threads : Fair(th[u])
  BY Zenon DEF IInv
<1>4. /\ files \in [Blocks -> {"none", "empty", "part", "whole"}] /\ spoiled \subseteq Blocks
      /\ opens \in [Blocks -> Nat] /\ (\A c \in Blocks : opens[c] <= ops) /\ ops \in 0..MaxOps /\ MaxOps \in Nat
  BY <1>3, RepositoryAssumption DEF Types
<1>5. /\ files' \in [Blocks -> {"none", "empty", "part", "whole"}] /\ files'[b] = "empty"
      /\ \A c \in Blocks : c # b => files'[c] = files[c]
  BY <1>2, <1>4
<1>6. /\ opens' \in [Blocks -> Nat] /\ opens'[b] = opens[b] + 1 /\ opens[b] \in Nat
      /\ \A c \in Blocks : c # b => opens'[c] = opens[c]
  BY <1>2, <1>4
<1>7. ops' \in 0..MaxOps /\ \A c \in Blocks : opens'[c] <= ops'
  BY <1>2, <1>4, <1>6
<1>8. \A c \in Blocks : (opens[c] >= 1 => opens'[c] >= 1) /\ (opens[c] > 1 => opens'[c] > 1)
  BY <1>4, <1>6
<1>9. (opens[b] >= 1 => opens'[b] > 1) /\ opens'[b] >= 1
  BY <1>6
<1>10. r \in Calls /\ r.pc = "opened" /\ r.key = b /\ r.got = "none" /\ r.todo = <<>>
  <2>1. b \in Keys
    BY DEF Keys
  <2>2. QED
    BY <1>1, <2>1, IdleIs DEF Calls
<1>11. Sure(r)
  BY <1>10 DEF Sure
<1>12. /\ Types' /\ Pasts' /\ Journalled' /\ NamesBare' /\ \A u \in Threads : Sure(th[u])'
       /\ th'[t] = r /\ \A u \in Threads : u # t => th'[u] = th[u]
  BY <1>2, <1>4, <1>5, <1>6, <1>7, <1>10, <1>11, FileStep
<1>13. \A c : (Filed(c)' <=> Filed(c)) /\ (Bare(c)' <=> Bare(c))
  BY <1>2 DEF Filed, Bare
<1>14. \A u \in Threads : \A c : /\ Writes(th'[u], c) => (u = t /\ c = b) \/ Writes(th[u], c)
                                 /\ Closed(th'[u], c) => u # t /\ Closed(th[u], c)
  BY <1>10, <1>12 DEF Writes, Closed
<1>15. FileMade'
  <2>1. ASSUME NEW c \in Blocks, Made(c) PROVE Made(c)'
    BY <1>5, <1>8, <1>9, <2>1 DEF Made
  <2>2. Made(b)'
    BY <1>5, <1>9 DEF Made
  <2>3. QED
    BY <1>2, <1>3, <1>14, <1>13, <2>1, <2>2 DEF FileMade
<1>16. \A c \in Blocks : Made(c) => opens[c] >= 1
  BY DEF Made
<1>17. FileIntact'
  <2>1. ASSUME NEW c \in Blocks, Made(c), Intact(c) PROVE Intact(c)'
    <3>1. CASE c = b
      BY <1>9, <1>16, <2>1, <3>1 DEF Intact
    <3>2. CASE c # b
      BY <1>2, <1>5, <1>8, <2>1, <3>2 DEF Intact
    <3>3. QED
      BY <3>1, <3>2
  <2>2. QED
    BY <1>2, <1>3, <1>14, <1>13, <2>1 DEF FileIntact, FileMade
<1>18. OpenedAgain'
  <2>1. SUFFICES ASSUME NEW c \in Blocks, NEW u \in Threads, Writes(th'[u], c)
                 PROVE  /\ Filed(c) \/ c \in spoiled => opens'[c] > 1
                        /\ \A w \in Threads \ {u} : Writes(th'[w], c) \/ Closed(th'[w], c) => opens'[c] > 1
    BY <1>2, <1>13 DEF OpenedAgain
  <2>2. CASE c = b
    <3>1. Filed(c) \/ c \in spoiled => opens'[c] > 1
      BY <1>3, <1>9, <1>16, <2>2 DEF FileMade
    <3>2. ASSUME NEW w \in Threads \ {u}, Writes(th'[w], c) \/ Closed(th'[w], c) PROVE opens'[c] > 1
      <4>1. \E z \in Threads : Writes(th[z], c) \/ Closed(th[z], c)
        BY <1>14, <2>1, <3>2
      <4>2. QED
        BY <1>3, <1>9, <1>16, <2>2, <4>1 DEF FileMade
    <3>3. QED
      BY <3>1, <3>2
  <2>3. CASE c # b
    BY <1>3, <1>8, <1>14, <2>1, <2>3 DEF OpenedAgain
  <2>4. QED
    BY <2>2, <2>3
<1>19. ASSUME NEW u \in Threads PROVE Fair(th[u])'
  <2>1. CASE u = t
    BY <1>10, <1>12, <2>1 DEF Fair
  <2>2. CASE u # t
    BY <1>2, <1>3, <1>8, <1>12, <1>13, <2>2 DEF Fair
  <2>3. QED
    BY <2>1, <2>2
<1>20. QED
  BY <1>12, <1>15, <1>17, <1>18, <1>19, Zenon DEF IInv


\* A step of a thread that has the file of b open for writing: the thread goes on
\* writing and spoils nothing, or it is done, with the file whole or spoiled.
WriterMoves(t, b, r) ==
    /\ Writes(th[t], b) /\ th' = [th EXCEPT ![t] = r]
    /\ UNCHANGED <<store, journal, now, ops, crashes, opens>>
    /\ files' \in [Blocks -> {"none", "empty", "part", "whole"}] /\ files'[b] # "none"
    /\ \A c \in Blocks : c # b => files'[c] = files[c]
    /\ spoiled' \subseteq Blocks /\ \A c : c # b => (c \in spoiled' <=> c \in spoiled)
    /\ r.pc # "stuck" /\ Sure(r) /\ r.got = "none"
    /\ \A c : Writes(r, c) => c = b /\ spoiled' = spoiled
    /\ \A c : Closed(r, c) => c = b /\ (files'[b] = "whole" \/ b \in spoiled')

LEMMA WriterStep ==
    ASSUME IInv, NEW t \in Threads, NEW b \in Blocks, NEW r \in Calls, WriterMoves(t, b, r)
    PROVE  IInv'
<1> USE DEF WriterMoves
<1>1. /\ Types /\ FileMade /\ FileIntact /\ OpenedAgain /\ \A u \in Threads : Fair(th[u])
  BY Zenon DEF IInv
<1>2. /\ opens \in [Blocks -> Nat] /\ (\A c \in Blocks : opens[c] <= ops) /\ ops \in 0..MaxOps
  BY <1>1, Zenon DEF Types
<1>3. /\ Types' /\ Pasts' /\ Journalled' /\ NamesBare' /\ \A u \in Threads : Sure(th[u])'
      /\ th'[t] = r /\ \A u \in Threads : u # t => th'[u] = th[u]
  BY <1>2, FileStep
<1>4. \A c : (Filed(c)' <=> Filed(c)) /\ (Bare(c)' <=> Bare(c))
  BY DEF Filed, Bare
<1>5. /\ Filed(b) \/ b \in spoiled => opens[b] > 1
      /\ \A u \in Threads \ {t} : Writes(th[u], b) \/ Closed(th[u], b) => opens[b] > 1
      /\ Made(b)
  BY <1>1, Zenon DEF OpenedAgain, FileMade
<1>6. FileMade'
  <2>1. ASSUME NEW c \in Blocks, Made(c) PROVE Made(c)'
    <3>1. CASE c = b
      BY <2>1, <3>1 DEF Made
    <3>2. CASE c # b
      BY <2>1, <3>2 DEF Made
    <3>3. QED
      BY <3>1, <3>2
  <2>2. Made(b)'
    BY <1>5, <2>1
  <2>3. ASSUME NEW c \in Blocks PROVE
               /\ Filed(c) \/ c \in spoiled' => Made(c)'
               /\ \A u \in Threads : Writes(th'[u], c) \/ Closed(th'[u], c) => Made(c)'
    <3>1. CASE c = b
      BY <2>2, <3>1
    <3>2. CASE c # b
      <4>1. ASSUME NEW u \in Threads, Writes(th'[u], c) \/ Closed(th'[u], c) PROVE Writes(th[u], c) \/ Closed(th[u], c)
        <5>1. u # t
          BY <1>3, <3>2, <4>1, Zenon
        <5>2. th'[u] = th[u]
          BY <1>3, <5>1, Zenon
        <5>3. QED
          BY <4>1, <5>2, Zenon
      <4>2. QED
        BY <1>1, <2>1, <3>2, <4>1, Zenon DEF FileMade
    <3>3. QED
      BY <3>1, <3>2, Zenon
  <2>4. QED
    BY <1>4, <2>3 DEF FileMade
<1>7. FileIntact'
  <2>1. ASSUME NEW c \in Blocks, c # b, Intact(c) PROVE Intact(c)'
    BY <2>1 DEF Intact
  <2>2. ASSUME NEW c \in Blocks PROVE
               /\ Filed(c) => Intact(c)'
               /\ \A u \in Threads : Closed(th'[u], c) => Intact(c)'
    <3>1. CASE c = b
      <4>1. Filed(c) => Intact(c)'
        BY <1>5, <3>1 DEF Intact
      <4>2. ASSUME NEW u \in Threads, Closed(th'[u], c) PROVE Intact(c)'
        <5>1. CASE u = t
          BY <1>3, <3>1, <4>2, <5>1 DEF Intact
        <5>2. CASE u # t
          BY <1>3, <1>5, <3>1, <4>2, <5>2 DEF Intact
        <5>3. QED
          BY <5>1, <5>2
      <4>3. QED
        BY <4>1, <4>2
    <3>2. CASE c # b
      BY <1>1, <1>3, <2>1, <3>2, Zenon DEF FileIntact
    <3>3. QED
      BY <3>1, <3>2, Zenon
  <2>3. QED
    BY <1>4, <2>2 DEF FileIntact
<1>8. OpenedAgain'
  <2>1. SUFFICES ASSUME NEW c \in Blocks, NEW u \in Threads, Writes(th'[u], c)
                 PROVE  /\ Filed(c) \/ c \in spoiled' => opens[c] > 1
                        /\ \A w \in Threads \ {u} : Writes(th'[w], c) \/ Closed(th'[w], c) => opens[c] > 1
    BY <1>4 DEF OpenedAgain
  <2>2. CASE c = b
    <3>1. CASE u = t
      BY <1>3, <1>5, <2>1, <2>2, <3>1, Zenon
    <3>2. CASE u # t
      BY <1>3, <1>5, <2>1, <2>2, <3>2, Zenon
    <3>3. QED
      BY <3>1, <3>2
  <2>3. CASE c # b
    <3>1. \A w \in Threads : /\ Writes(th'[w], c) => w # t /\ Writes(th[w], c)
                             /\ Closed(th'[w], c) => w # t /\ Closed(th[w], c)
      BY <1>3, <2>3
    <3>2. c \in spoiled' <=> c \in spoiled
      BY <2>3
    <3>3. QED
      BY <1>1, <2>1, <3>1, <3>2 DEF OpenedAgain
  <2>4. QED
    BY <2>2, <2>3
<1>9. ASSUME NEW u \in Threads PROVE Fair(th[u])'
  <2>1. CASE u = t
    BY <1>3, <2>1 DEF Fair
  <2>2. CASE u # t
    BY <1>1, <1>3, <1>5, <1>4, <2>2 DEF Fair
  <2>3. QED
    BY <2>1, <2>2
<1>10. QED
  BY <1>3, <1>6, <1>7, <1>8, <1>9, Zenon DEF IInv

\* What a writing thread knows.
LEMMA WriterIs ==
    ASSUME IInv, NEW t \in Threads, th[t].pc \in {"opened", "flushed"}
    PROVE  /\ th[t] \in Calls /\ th[t].key \in Blocks /\ Writes(th[t], th[t].key) /\ th[t].got = "none"
           /\ Sure(th[t]) /\ files[th[t].key] # "none"
           /\ files \in [Blocks -> {"none", "empty", "part", "whole"}] /\ spoiled \subseteq Blocks
<1>1. Types /\ Sure(th[t]) /\ FileMade
  BY Zenon DEF IInv
<1>2. th[t].key \in Blocks /\ th[t].got = "none"
  BY <1>1 DEF Sure
<1>3. Writes(th[t], th[t].key)
  BY DEF Writes
<1>4. QED
  BY <1>1, <1>2, <1>3 DEF Types, FileMade, Made

LEMMA WriteFlushStep ==
    ASSUME IInv, NEW t \in Threads, WriteFlush(t)
    PROVE  IInv'
<1>1. PICK q, b : q = th[t] /\ b = q.key
  OBVIOUS
<1>2. PICK r : r = [q EXCEPT !.pc = "flushed"]
  OBVIOUS
<1>3. /\ q.pc = "opened" /\ th' = [th EXCEPT ![t].pc = "flushed"]
      /\ files' = [files EXCEPT ![b] = IF @ = "whole" THEN @ ELSE "part"]
      /\ UNCHANGED <<store, journal, now, ops, crashes, opens, spoiled>>
  BY <1>1, Zenon DEF WriteFlush
<1>4. /\ q \in Calls /\ b \in Blocks /\ Writes(q, b) /\ q.got = "none" /\ Sure(q) /\ files[b] # "none"
      /\ files \in [Blocks -> {"none", "empty", "part", "whole"}] /\ spoiled \subseteq Blocks
  BY <1>1, <1>3, WriterIs
<1>5. th' = [th EXCEPT ![t] = r]
  BY <1>1, <1>2, <1>3
<1>6. r \in Calls /\ r.pc = "flushed" /\ r.key = b /\ r.got = "none" /\ r.todo = q.todo
  BY <1>1, <1>2, <1>4 DEF Calls
<1>7. Sure(r)
  BY <1>4, <1>6 DEF Sure
<1>8. /\ files' \in [Blocks -> {"none", "empty", "part", "whole"}] /\ files'[b] # "none"
      /\ \A c \in Blocks : c # b => files'[c] = files[c]
  BY <1>3, <1>4
<1>9. /\ \A c : Writes(r, c) => c = b /\ spoiled' = spoiled
      /\ \A c : Closed(r, c) => c = b /\ (files'[b] = "whole" \/ b \in spoiled')
      /\ r.pc # "stuck"
  BY <1>3, <1>6 DEF Writes, Closed
<1>10. Writes(th[t], b) /\ spoiled' \subseteq Blocks /\ \A c : c # b => (c \in spoiled' <=> c \in spoiled)
  BY <1>1, <1>3, <1>4
<1>11. WriterMoves(t, b, r)
  BY <1>3, <1>4, <1>5, <1>6, <1>7, <1>8, <1>9, <1>10 DEF WriterMoves
<1>12. QED
  BY <1>4, <1>6, <1>11, WriterStep, Zenon

LEMMA WriteCloseStep ==
    ASSUME IInv, NEW t \in Threads, WriteClose(t)
    PROVE  IInv'
<1>1. PICK q, b : q = th[t] /\ b = q.key
  OBVIOUS
<1>2. PICK r : r = [q EXCEPT !.pc = "closed"]
  OBVIOUS
<1>3. /\ q.pc \in {"opened", "flushed"} /\ th' = [th EXCEPT ![t].pc = "closed"]
      /\ files' = [files EXCEPT ![b] = "whole"] /\ spoiled' = spoiled \ {b}
      /\ UNCHANGED <<store, journal, now, ops, crashes, opens>>
  BY <1>1, Zenon DEF WriteClose
<1>4. /\ q \in Calls /\ b \in Blocks /\ Writes(q, b) /\ q.got = "none" /\ Sure(q) /\ files[b] # "none"
      /\ files \in [Blocks -> {"none", "empty", "part", "whole"}] /\ spoiled \subseteq Blocks
  BY <1>1, <1>3, WriterIs
<1>5. th' = [th EXCEPT ![t] = r]
  BY <1>1, <1>2, <1>3
<1>6. r \in Calls /\ r.pc = "closed" /\ r.key = b /\ r.got = "none" /\ r.todo = q.todo
  BY <1>1, <1>2, <1>4 DEF Calls
<1>7. Sure(r)
  BY <1>4, <1>6 DEF Sure
<1>8. /\ files' \in [Blocks -> {"none", "empty", "part", "whole"}] /\ files'[b] = "whole"
      /\ \A c \in Blocks : c # b => files'[c] = files[c]
  BY <1>3, <1>4
<1>9. /\ \A c : Writes(r, c) => c = b /\ spoiled' = spoiled
      /\ \A c : Closed(r, c) => c = b /\ (files'[b] = "whole" \/ b \in spoiled')
      /\ r.pc # "stuck"
  BY <1>6, <1>8 DEF Writes, Closed
<1>10. Writes(th[t], b) /\ spoiled' \subseteq Blocks /\ \A c : c # b => (c \in spoiled' <=> c \in spoiled)
  BY <1>1, <1>3, <1>4
<1>11. files'[b] # "none"
  BY <1>8
<1>12. WriterMoves(t, b, r)
  BY <1>3, <1>4, <1>5, <1>6, <1>7, <1>8, <1>9, <1>10, <1>11 DEF WriterMoves
<1>13. QED
  BY <1>4, <1>6, <1>12, WriterStep, Zenon

LEMMA WriteFailsStep ==
    ASSUME IInv, NEW t \in Threads, WriteFails(t)
    PROVE  IInv'
<1>1. PICK q, b : q = th[t] /\ b = q.key
  OBVIOUS
<1>2. PICK r : r = IF q.op = "has" THEN [q EXCEPT !.pc = "closed"] ELSE Idle
  OBVIOUS
<1>3. /\ q.pc \in {"opened", "flushed"}
      /\ th' = [th EXCEPT ![t] = IF @.op = "has" THEN [@ EXCEPT !.pc = "closed"] ELSE Idle]
      /\ files' \in {[files EXCEPT ![b] = x] :
                       x \in {files[b]} \cup (IF files[b] = "empty" THEN {"part"} ELSE {})}
      /\ spoiled' = spoiled \cup {b}
      /\ UNCHANGED <<store, journal, now, ops, crashes, opens>>
  BY <1>1, Zenon DEF WriteFails
<1>4. /\ q \in Calls /\ b \in Blocks /\ Writes(q, b) /\ q.got = "none" /\ Sure(q) /\ files[b] # "none"
      /\ files \in [Blocks -> {"none", "empty", "part", "whole"}] /\ spoiled \subseteq Blocks
  BY <1>1, <1>3, WriterIs
<1>5. th' = [th EXCEPT ![t] = r]
  BY <1>1, <1>2, <1>3
<1>6. r \in Calls /\ r.got = "none" /\ r.pc \notin {"opened", "flushed", "stuck"} /\ (r.pc = "closed" => r.key = b) /\ Sure(r)
  <2>1. CASE q.op = "has"
    <3>1. r \in Calls /\ r.pc = "closed" /\ r.key = b /\ r.got = "none" /\ r.todo = q.todo
      BY <1>1, <1>2, <1>4, <2>1 DEF Calls
    <3>2. Sure(r)
      BY <1>4, <3>1 DEF Sure
    <3>3. QED
      BY <3>1, <3>2
  <2>2. CASE q.op # "has"
    <3>1. r = Idle
      BY <1>2, <2>2
    <3>2. Sure(Idle)
      BY IdleIs DEF Sure
    <3>3. QED
      BY <3>1, <3>2, IdleIs
  <2>3. QED
    BY <2>1, <2>2
<1>7. PICK x \in {"empty", "part", "whole"} : files' = [files EXCEPT ![b] = x]
  BY <1>3, <1>4
<1>8. /\ files' \in [Blocks -> {"none", "empty", "part", "whole"}] /\ files'[b] # "none"
      /\ \A c \in Blocks : c # b => files'[c] = files[c]
  BY <1>4, <1>7
<1>9. /\ \A c : Writes(r, c) => c = b /\ spoiled' = spoiled
      /\ \A c : Closed(r, c) => c = b /\ (files'[b] = "whole" \/ b \in spoiled')
      /\ r.pc # "stuck"
  BY <1>3, <1>6 DEF Writes, Closed
<1>10. /\ Writes(th[t], b) /\ spoiled' \subseteq Blocks /\ b \in spoiled'
       /\ \A c : c # b => (c \in spoiled' <=> c \in spoiled)
  BY <1>1, <1>3, <1>4
<1>11. WriterMoves(t, b, r)
  BY <1>3, <1>4, <1>5, <1>6, <1>8, <1>9, <1>10 DEF WriterMoves
<1>12. QED
  BY <1>4, <1>6, <1>11, WriterStep, Zenon


-----------------------------------------------------------------------------
(* The clock, a crash, and the invariant.                                   *)

LEMMA TickStep ==
    ASSUME IInv, Tick
    PROVE  IInv'
<1>1. /\ now < MaxTime /\ now' = now + 1
      /\ UNCHANGED <<files, store, journal, th, ops, crashes, opens, spoiled>>
  BY Zenon DEF Tick
<1>2. /\ Types /\ Pasts /\ Journalled /\ NamesBare /\ FileMade /\ FileIntact /\ OpenedAgain
      /\ \A u \in Threads : Sure(th[u]) /\ Fair(th[u])
  BY Zenon DEF IInv
<1>3. now \in Nat /\ now' \in Times
  BY <1>1, <1>2, RepositoryAssumption DEF Types, Times
<1>4. Types'
  BY <1>1, <1>2, <1>3 DEF Types
<1>5. Pasts'
  <2>1. SUFFICES ASSUME NEW k \in Keys, NEW r \in store[k] PROVE r.ts <= now'
    BY <1>1 DEF Pasts
  <2>2. r.ts <= now /\ r \in Dups
    BY <1>2 DEF Pasts, Types
  <2>3. r.ts \in 1..MaxTime
    BY <2>2, EncodeRecordParts
  <2>4. QED
    BY <1>1, <1>3, <2>2, <2>3
<1>6. Journalled' /\ NamesBare' /\ FileMade' /\ FileIntact' /\ OpenedAgain'
  BY <1>1, <1>2 DEF Journalled, NamesBare, FileMade, FileIntact, OpenedAgain, Made, Intact, Filed, Bare
<1>7. \A u \in Threads : Sure(th[u])' /\ Fair(th[u])'
  BY <1>1, <1>2 DEF Sure, Fair, Bare
<1>8. QED
  BY <1>4, <1>5, <1>6, <1>7, Zenon DEF IInv

LEMMA CrashStep ==
    ASSUME IInv, Crash
    PROVE  IInv'
<1>1. PICK left : left = {b \in Blocks : \E t \in Threads : Writes(th[t], b)}
  OBVIOUS
<1>2. /\ crashes < MaxCrashes /\ crashes' = crashes + 1
      /\ spoiled' = spoiled \cup left
      /\ th' = [t \in Threads |-> Idle]
      /\ UNCHANGED <<files, store, journal, now, ops, opens>>
  BY <1>1 DEF Crash, Writes
<1>3. /\ Types /\ Pasts /\ Journalled /\ NamesBare /\ FileMade /\ FileIntact
  BY Zenon DEF IInv
<1>4. \A t \in Threads : th'[t] = Idle
  BY <1>2
<1>5. Types'
  <2>1. crashes' \in 0..MaxCrashes
    BY <1>2, <1>3, RepositoryAssumption DEF Types
  <2>2. th' \in [Threads -> Calls]
    BY <1>2, IdleIs
  <2>3. left \subseteq Blocks
    BY <1>1
  <2>4. QED
    BY <1>2, <1>3, <2>1, <2>2, <2>3 DEF Types
<1>6. Pasts'
  BY <1>2, <1>3, Zenon DEF Pasts
<1>7. Journalled'
  BY <1>2, <1>3, <1>4, IdleIs DEF Journalled
<1>8. ASSUME NEW u \in Threads PROVE Sure(th[u])' /\ Fair(th[u])'
  BY <1>4, IdleIs DEF Sure, Fair
<1>9. \A u \in Threads : \A b : ~Writes(th'[u], b) /\ ~Closed(th'[u], b)
  BY <1>4, IdleIs DEF Writes, Closed
<1>10. FileMade'
  <2>1. ASSUME NEW b \in Blocks, Filed(b) \/ b \in spoiled' PROVE Made(b)
    BY <1>1, <1>2, <1>3, <2>1 DEF FileMade
  <2>2. QED
    BY <1>2, <1>9, <2>1 DEF FileMade, Made, Filed, Bare
<1>11. FileIntact'
  BY <1>2, <1>3, <1>9 DEF FileIntact, Intact, Filed, Bare
<1>12. OpenedAgain'
  BY <1>9 DEF OpenedAgain
<1>13. NamesBare'
  BY <1>2, <1>3 DEF NamesBare, Filed, Bare
<1>14. QED
  BY <1>5, <1>6, <1>7, <1>8, <1>10, <1>11, <1>12, <1>13, Zenon DEF IInv

LEMMA InitInv ==
    Init => IInv
<1>1. SUFFICES ASSUME Init PROVE IInv
  OBVIOUS
<1>2. /\ files = [b \in Blocks |-> "none"] /\ store = [k \in Keys |-> {}] /\ journal = {}
      /\ th = [t \in Threads |-> Idle] /\ now = FirstTime /\ ops = 0 /\ crashes = 0
      /\ opens = [b \in Blocks |-> 0] /\ spoiled = {}
  BY <1>1, Zenon DEF Init
<1>3. \A t \in Threads : th[t] = Idle
  BY <1>2
<1>4. \A k \in Keys : store[k] = {}
  BY <1>2
<1>5. Types
  <2>1. th \in [Threads -> Calls] /\ store \in [Keys -> SUBSET Dups]
    BY <1>2, IdleIs
  <2>2. \A k \in Keys : IsFiniteSet(store[k])
    BY <1>4, FS_EmptySet
  <2>3. now \in Times /\ ops \in 0..MaxOps /\ crashes \in 0..MaxCrashes
    BY <1>2, RepositoryAssumption DEF Times
  <2>4. opens \in [Blocks -> Nat] /\ \A b \in Blocks : opens[b] <= ops
    BY <1>2
  <2>5. QED
    BY <1>2, <2>1, <2>2, <2>3, <2>4 DEF Types
<1>6. Pasts
  BY <1>4 DEF Pasts
<1>7. Journalled
  BY <1>2, <1>3, <1>4, IdleIs DEF Journalled
<1>8. \A u \in Threads : Sure(th[u]) /\ Fair(th[u])
  BY <1>3, IdleIs DEF Sure, Fair
<1>9. \A u \in Threads : \A b : ~Writes(th[u], b) /\ ~Closed(th[u], b)
  BY <1>3, IdleIs DEF Writes, Closed
<1>10. \A b \in Blocks : b \in Keys /\ store[b] = {} /\ b \notin spoiled
  BY <1>2, <1>4 DEF Keys
<1>11. NamesBare /\ FileMade /\ FileIntact /\ OpenedAgain
  BY <1>4, <1>9, <1>10 DEF NamesBare, FileMade, FileIntact, OpenedAgain, Filed
<1>12. QED
  BY <1>5, <1>6, <1>7, <1>8, <1>11, Zenon DEF IInv

LEMMA StepInv ==
    ASSUME IInv, Next
    PROVE  IInv'
<1>1. ASSUME NEW t \in Threads, Call(t) PROVE IInv'
  <2>1. ASSUME NEW b \in Blocks, WriteOpen(t, b, "add") \/ WriteOpen(t, b, "has") PROVE IInv'
    BY <2>1, WriteOpenStep
  <2>2. ASSUME NEW k \in Keys, ReadCheck(t, k) PROVE IInv'
    BY <2>2, ReadCheckStep
  <2>3. ASSUME NEW p \in Paths, Publish(t, p) PROVE IInv'
    BY <2>3, PublishStep
  <2>4. ASSUME NEW m \in Messages, HandleMessage(t, m) PROVE IInv'
    BY <2>4, HandleMessageStep
  <2>5. ASSUME NEW p \in Paths, NEW k \in Keys, PutValue(t, k, p) PROVE IInv'
    BY <2>5, PutValueStep
  <2>6. QED
    BY <1>1, <2>1, <2>2, <2>3, <2>4, <2>5, Zenon DEF Call
<1>2. ASSUME NEW t \in Threads, Step(t) PROVE IInv'
  BY <1>2, WriteFlushStep, WriteCloseStep, WriteFailsStep, WritePutStep, ReadFileStep, BuildTodoStep,
     TodoNeededStep, AdjustGetStep, AdjustPutStep, HandleDoneStep, Zenon DEF Step
<1>3. QED
  BY <1>1, <1>2, TickStep, CrashStep, Zenon DEF Next

LEMMA StutterInv ==
    ASSUME IInv, UNCHANGED vars
    PROVE  IInv'
<1>1. UNCHANGED <<files, store, journal, th, now, ops, crashes, opens, spoiled>>
  BY Zenon DEF vars
<1>2. /\ Types /\ Pasts /\ Journalled /\ NamesBare /\ FileMade /\ FileIntact /\ OpenedAgain
      /\ \A u \in Threads : Sure(th[u]) /\ Fair(th[u])
  BY Zenon DEF IInv
<1>3. Types' /\ Pasts' /\ Journalled'
  BY <1>1, <1>2 DEF Types, Pasts, Journalled
<1>4. NamesBare' /\ FileMade' /\ FileIntact' /\ OpenedAgain'
  BY <1>1, <1>2 DEF NamesBare, FileMade, FileIntact, OpenedAgain, Made, Intact, Filed, Bare
<1>5. \A u \in Threads : Sure(th[u])' /\ Fair(th[u])'
  BY <1>1, <1>2 DEF Sure, Fair, Bare
<1>6. QED
  BY <1>3, <1>4, <1>5, Zenon DEF IInv

\* The invariant holds in every reachable state of the repository, whatever the
\* threads, the peers' journals and the crashes.
THEOREM Invariance == Spec => []IInv
<1>1. IInv /\ [Next]_vars => IInv'
  BY StepInv, StutterInv
<1>2. QED
  BY InitInv, <1>1, PTL DEF Spec

LEMMA IInvTypeOK ==
    IInv => TypeOK
<1>1. SUFFICES ASSUME IInv PROVE TypeOK
  OBVIOUS
<1>2. Types
  BY <1>1, Zenon DEF IInv
<1>3. \A t \in Threads : th[t] \in Calls
  BY <1>2 DEF Types
<1>4. \A t \in Threads : /\ th[t].pc \in {"idle", "opened", "flushed", "closed", "found", "build", "adjust", "stuck"}
                         /\ th[t].key \in Keys
  BY <1>3, Zenon DEF Calls
<1>5. opens \in [Blocks -> 0..MaxOps]
  BY <1>2, RepositoryAssumption DEF Types
<1>6. QED
  BY <1>2, <1>4, <1>5, Zenon DEF Types, TypeOK

\* The tables, the files and the threads keep their types: no put stores a time
\* of 0 or from beyond the clock (repo_fsrepo_lmdb_put stamps it).
THEOREM TypeCorrect == Spec => []TypeOK
BY Invariance, IInvTypeOK, PTL

\* Journal and datastore agree after every put and every crash, and the search in
\* the journal never walks off the table unless an entry was lost to a dead stack
\* frame (repo_fsrepo_lmdb_put, lmdb_journalstore_cursor_get).
THEOREM JournalAgrees == Spec => []JournalSound
<1>1. IInv => JournalSound
  <2>1. SUFFICES ASSUME IInv PROVE JournalSound
    OBVIOUS
  <2>2. TypeOK /\ Journalled
    BY <2>1, IInvTypeOK, Zenon DEF IInv
  <2>3. QED
    BY <2>2, Zenon DEF JournalSound, Journalled
<1>2. QED
  BY Invariance, <1>1, PTL

\* A reader of a record faults only where a name or a PUT_VALUE was stored; what
\* only writers of blocks recorded is read from a file that is there, and all of it,
\* unless it was stored twice or a write of it failed (ipfs_merkledag_get,
\* ipfs_blockstore_get_node, libp2p_routing_dht_handle_put_value).
THEOREM RecordedIsReadable == Spec => []ReadAfterWrite
<1>1. IInv => ReadAfterWrite
  BY Zenon DEF IInv, Fair, ReadAfterWrite
<1>2. QED
  BY Invariance, <1>1, PTL

\* Writing back an adjusted time never makes the time a reader sees later, whatever
\* other puts came between ipfs_journal_adjust_time's get and its put.
THEOREM AdjustedNeverLater == Spec => AdjustNeverLater
<1> DEFINE Kept(t) == th[t].pc = "adjust" /\ th'[t].pc = "build" =>
                          Get(th[t].key)'.ts <= Get(th[t].key).ts
<1>1. ASSUME IInv, Next PROVE \A t \in Threads : Kept(t)
  <2>1. SUFFICES ASSUME NEW t \in Threads, th[t].pc = "adjust", th'[t].pc = "build"
                 PROVE  Get(th[t].key)'.ts <= Get(th[t].key).ts
    OBVIOUS
  <2>2. Types /\ Pasts /\ Journalled /\ Sure(th[t]) /\ IInv'
    BY <1>1, StepInv, Zenon DEF IInv
  <2>3. Types'
    BY <2>2, Zenon DEF IInv
  <2>4. PICK q \in Calls : q = th[t]
    BY <2>2 DEF Types
  <2>5. AdjustPut(t)
    <3>1. th \in [Threads -> Calls]
      BY <2>2, Zenon DEF Types
    <3>2. ASSUME NEW u \in Threads, Call(u) PROVE FALSE
      <4>1. th[u].pc = "idle" /\ \E r : th' = [th EXCEPT ![u] = r] \/ th' = [th EXCEPT ![u].pc = r]
        BY <3>2, Zenon DEF Call, WriteOpen, ReadCheck, Publish, PutValue, HandleMessage, Begin, Put
      <4>2. QED
        BY <2>1, <3>1, <4>1
    <3>3. ASSUME Tick \/ Crash PROVE FALSE
      BY <2>1, <3>3, IdleIs DEF Tick, Crash
    <3>4. PICK u \in Threads : Step(u)
      BY <1>1, <3>2, <3>3, Zenon DEF Next
    <3>5. u = t
      <4>1. th' = th \/ \E r : \/ th' = [th EXCEPT ![u] = r] \/ th' = [th EXCEPT ![u].pc = r]
                               \/ th' = [th EXCEPT ![u].todo = r]
                               \/ \E s : th' = [th EXCEPT ![u].rest = s, ![u].todo = r]
        BY <3>4, Zenon DEF Step, WriteFlush, WriteClose, WriteFails, WritePut, ReadFile, BuildTodo,
           TodoNeeded, AdjustGet, AdjustPut, HandleDone, Put
      <4>2. QED
        BY <2>1, <3>1, <4>1
    <3>6. QED
      BY <2>1, <3>4, <3>5 DEF Step, WriteFlush, WriteClose, WriteFails, WritePut, ReadFile, BuildTodo,
         TodoNeeded, AdjustGet, HandleDone
  <2>6. PICK r : r = [q EXCEPT !.pc = "build"]
    OBVIOUS
  <2>7. Put(t, q.key, q.val, q.ts, r) /\ q.pc = "adjust"
    BY <2>4, <2>5, <2>6, Zenon DEF AdjustPut
  <2>8. q.key \in Keys /\ q.val \in {0} \cup Paths /\ q.ts \in Nat
    BY <2>4, Zenon DEF Calls
  <2>9. store[q.key] # {} /\ q.ts # 0
    BY <2>2, <2>4, <2>7 DEF Sure
  <2>10. th \in [Threads -> Calls]
    BY <2>2, Zenon DEF Types
  <2>11. PICK k \in Keys : k = q.key
    BY <2>8
  <2>12. \/ th' = [th EXCEPT ![t].pc = "stuck"]
         \/ /\ th' = [th EXCEPT ![t] = r]
            /\ \E new \in Dups : Added(k, new) /\ new.ts <= Get(k).ts
    <3>1. PICK v \in {0} \cup Paths, x \in Nat : v = q.val /\ x = q.ts
      BY <2>8, Zenon
    <3>2. store[k] # {} /\ x # 0
      BY <2>9, <2>11, <3>1, Zenon
    <3>3. Put(t, k, v, x, r)
      BY <2>7, <2>11, <3>1, Zenon
    <3>4. Types /\ Pasts /\ Journalled
      BY <2>2, Zenon
    <3>5. PutGives(t, k, v, x, r)
      BY <3>3, <3>4, PutEffect, Zenon
    <3>6. QED
      BY <3>2, <3>5, Zenon DEF PutGives
  <2>13. th' = [th EXCEPT ![t] = r] /\ \E new \in Dups : Added(k, new) /\ new.ts <= Get(k).ts
    <3>1. th' # [th EXCEPT ![t].pc = "stuck"]
      <4>1. SUFFICES ASSUME th' = [th EXCEPT ![t].pc = "stuck"] PROVE FALSE
        BY Zenon
      <4>2. th'[t] = [q EXCEPT !.pc = "stuck"]
        BY <2>4, <2>10, <4>1
      <4>3. th'[t].pc = "stuck"
        BY <2>4, <4>2 DEF Calls
      <4>4. QED
        BY <2>1, <4>3
    <3>2. QED
      BY <2>12, <3>1, Zenon
  <2>14. th'[t].key = k
    BY <2>4, <2>6, <2>10, <2>11, <2>13 DEF Calls
  <2>15. PICK new \in Dups : Added(k, new) /\ new.ts <= Get(k).ts
    BY <2>13, Zenon
  <2>16. PICK S : S = store[k]
    OBVIOUS
  <2>17. S \in SUBSET Dups /\ IsFiniteSet(S) /\ S # {}
    BY <2>2, <2>9, <2>11, <2>16 DEF Types
  <2>18. store'[k] = S \cup {new}
    BY <2>2, <2>15, <2>16 DEF Types, Added
  <2>19. Get(k) = FirstOf(S)
    BY <2>16, Zenon DEF Get, FirstOf
  <2>20. Get(k)' = FirstOf(S \cup {new})
    BY <2>18, Zenon DEF Get, FirstOf
  <2>21. FirstOf(S \cup {new}) = FirstOf(S) \/ FirstOf(S \cup {new}) = new
    BY <2>17, FirstOfMore
  <2>22. Get(k).ts \in 1..MaxTime
    BY <2>2, <2>9, <2>11, GetIs
  <2>23. Get(k)'.ts <= Get(k).ts
    BY <2>15, <2>19, <2>20, <2>21, <2>22
  <2>24. Get(th[t].key)' = Get(k)'
    BY <2>14, Zenon DEF Get
  <2>25. Get(th[t].key) = Get(k)
    BY <2>4, <2>11, Zenon
  <2>26. QED
    BY <2>23, <2>24, <2>25, Zenon
<1>2. IInv /\ [Next]_vars => [\A t \in Threads : Kept(t)]_vars
  BY <1>1
<1>3. QED
  BY Invariance, <1>2, PTL DEF Spec, AdjustNeverLater
=============================================================================
