--------------------------- MODULE SeqOrderProofs ---------------------------
(***************************************************************************)
(* What the selections of SeqOrder return, for finite sets and sequences   *)
(* of every size.                                                          *)
(***************************************************************************)
EXTENDS SeqOrder, FiniteSetTheorems, SequenceTheorems, TLAPS

(* Every nonempty set of natural numbers has a least element.              *)
LEMMA LeastNatural ==
  ASSUME NEW S \in SUBSET Nat, S # {}
  PROVE  \E m \in S : \A n \in S : m <= n
<1> DEFINE R == {p \in Nat \X Nat : p[1] < p[2]}
<1>1. IsWellFoundedOn(R, Nat)
  BY NatLessThanWellFounded, Zenon DEF OpToRel
<1> HIDE DEF R
<1>2. PICK m \in S : \A n \in S : ~(<<n, m>> \in R)
  BY <1>1, WFMin, Zenon
<1>3. \A n \in S : m <= n
  <2> USE DEF R
  <2> TAKE n \in S
  <2>1. <<n, m>> \in Nat \X Nat /\ <<n, m>>[1] = n /\ <<n, m>>[2] = m
    OBVIOUS
  <2> QED
    BY <1>2, <2>1
<1> QED
  BY <1>3

(* A property that 0 has and that passes from n to n + 1 belongs to all    *)
(* natural numbers: induction, for a property given as a set.              *)
LEMMA SetInduction ==
  ASSUME NEW S \in SUBSET Nat, 0 \in S, \A n \in Nat : n \in S => n + 1 \in S
  PROVE  S = Nat
<1> SUFFICES ASSUME S # Nat PROVE FALSE
  OBVIOUS
<1>1. PICK m \in Nat \ S : \A n \in Nat \ S : m <= n
  BY LeastNatural
<1>2. m # 0 /\ m - 1 \in Nat /\ m - 1 \in S
  BY <1>1
<1> QED
  BY <1>1, <1>2

(* Every nonempty set of natural numbers with a bound has a greatest one.  *)
LEMMA GreatestNatural ==
  ASSUME NEW S \in SUBSET Nat, S # {}, NEW b \in Nat, \A n \in S : n <= b
  PROVE  \E m \in S : \A n \in S : m >= n
<1> DEFINE U == {n \in Nat : \A k \in S : k <= n}
<1>1. PICK u \in U : \A n \in U : u <= n
  <2>1. U \in SUBSET Nat /\ U # {}
    OBVIOUS
  <2> HIDE DEF U
  <2> QED
    BY <2>1, LeastNatural
<1>2. u \in S
  <2> SUFFICES ASSUME u \notin S PROVE FALSE
    OBVIOUS
  <2>1. u \in Nat /\ \A k \in S : k \in Nat /\ k <= u /\ k # u
    BY DEF U
  <2>0. PICK k0 \in S : TRUE
    OBVIOUS
  <2>2. u - 1 \in Nat /\ \A k \in S : k <= u - 1
    BY <2>0, <2>1
  <2>3. u - 1 \in U
    BY <2>2
  <2> QED
    BY <1>1, <2>1, <2>3
<1> QED
  BY <1>1, <1>2

(* A strict total order on D, given as a set of pairs.                     *)
StrictOrder(R, D) ==
  /\ \A a \in D : <<a, a>> \notin R
  /\ \A a, b \in D : a # b => <<a, b>> \in R \/ <<b, a>> \in R
  /\ \A a, b, c \in D : <<a, b>> \in R /\ <<b, c>> \in R => <<a, c>> \in R

(* Ranks are strictly increasing along the order, hence injective.         *)
LEMMA RankIncreases ==
  ASSUME NEW D, IsFiniteSet(D), NEW R, StrictOrder(R, D),
         NEW a \in D, NEW b \in D, <<a, b>> \in R
  PROVE  /\ Cardinality(Predecessors(D, R, a)) \in Nat
         /\ Cardinality(Predecessors(D, R, b)) \in Nat
         /\ Cardinality(Predecessors(D, R, a)) < Cardinality(Predecessors(D, R, b))
<1> DEFINE A == Predecessors(D, R, a)
           B == Predecessors(D, R, b)
<1>1. A \subseteq D /\ B \subseteq D /\ A \subseteq B /\ a \in B /\ a \notin A
  BY DEF Predecessors, StrictOrder
<1>2. IsFiniteSet(A) /\ IsFiniteSet(B)
  BY <1>1, FS_Subset
<1>3. Cardinality(A) \in Nat /\ Cardinality(B) \in Nat
  BY <1>2, FS_CardinalityType
<1>4. Cardinality(A) <= Cardinality(B) /\ (Cardinality(B) = Cardinality(A) => B = A)
  BY <1>1, <1>2, FS_Subset
<1> QED
  BY <1>1, <1>3, <1>4

(* Enumerate lists every element of D exactly once.                        *)
LEMMA EnumerateBijective ==
  ASSUME NEW D, IsFiniteSet(D), NEW R, StrictOrder(R, D)
  PROVE  /\ Cardinality(D) \in Nat
         /\ Enumerate(D, R) \in [1 .. Cardinality(D) -> D]
         /\ \A i, j \in 1 .. Cardinality(D) :
              i # j => Enumerate(D, R)[i] # Enumerate(D, R)[j]
         /\ \A d \in D : \E i \in 1 .. Cardinality(D) : Enumerate(D, R)[i] = d
         /\ \A k \in 1 .. Cardinality(D) :
              Cardinality(Predecessors(D, R, Enumerate(D, R)[k])) = k - 1
<1> DEFINE n == Cardinality(D)
           Rank(d) == Cardinality(Predecessors(D, R, d))
           T == 0 .. n - 1
           f == [d \in D |-> Rank(d)]
<1>1. n \in Nat
  BY FS_CardinalityType
<1>2. \A d \in D : Rank(d) \in T
  <2> SUFFICES ASSUME NEW d \in D PROVE Rank(d) \in T
    OBVIOUS
  <2> DEFINE P == Predecessors(D, R, d)
  <2>1. P \subseteq D /\ d \notin P
    BY DEF Predecessors, StrictOrder
  <2>2. IsFiniteSet(P) /\ Cardinality(P) <= n /\ (n = Cardinality(P) => D = P)
    BY <2>1, FS_Subset
  <2>3. Cardinality(P) \in Nat
    BY <2>2, FS_CardinalityType
  <2> QED
    BY <1>1, <2>1, <2>2, <2>3
<1>3. \A a, b \in D : a # b => Rank(a) # Rank(b)
  <2> SUFFICES ASSUME NEW a \in D, NEW b \in D, a # b PROVE Rank(a) # Rank(b)
    OBVIOUS
  <2>1. CASE <<a, b>> \in R
    BY <2>1, RankIncreases
  <2>2. CASE <<b, a>> \in R
    BY <2>2, RankIncreases
  <2> QED
    BY <2>1, <2>2 DEF StrictOrder
<1>4. IsFiniteSet(T) /\ Cardinality(T) = n
  BY <1>1, FS_Interval
<1>5. f \in Injection(D, T)
  BY <1>2, <1>3 DEF Injection, IsInjective
<1>6. f \in Surjection(D, T)
  <2> HIDE DEF f, T
  <2> QED
    BY <1>4, <1>5, FS_Injection
<1>7. \A k \in 1 .. n : \E d \in D : Rank(d) = k - 1
  <2> SUFFICES ASSUME NEW k \in 1 .. n PROVE \E d \in D : Rank(d) = k - 1
    OBVIOUS
  <2>1. k - 1 \in T
    BY <1>1
  <2>2. \E d \in D : f[d] = k - 1
    BY <1>6, <2>1 DEF Surjection
  <2> QED
    BY <2>2
<1> HIDE DEF Rank
<1>8. \A k \in 1 .. n : Enumerate(D, R)[k] \in D /\ Rank(Enumerate(D, R)[k]) = k - 1
  <2>1. Enumerate(D, R) = [k \in 1 .. n |-> CHOOSE d \in D : Rank(d) = k - 1]
    BY DEF Enumerate, Rank
  <2> QED
    BY <1>7, <2>1
<1>9. \A d \in D : Rank(d) + 1 \in 1 .. n
  BY <1>1, <1>2
<1>10. DOMAIN Enumerate(D, R) = 1 .. n
  BY DEF Enumerate
<1>11. \A d \in D : Enumerate(D, R)[Rank(d) + 1] = d
  <2> SUFFICES ASSUME NEW d \in D PROVE Enumerate(D, R)[Rank(d) + 1] = d
    OBVIOUS
  <2>1. Rank(Enumerate(D, R)[Rank(d) + 1]) = Rank(d)
    BY <1>2, <1>8, <1>9
  <2> QED
    BY <1>3, <1>8, <1>9, <2>1
<1>12. Enumerate(D, R) \in [1 .. n -> D]
  BY <1>8, <1>10 DEF Enumerate
<1>13. \A i, j \in 1 .. n : i # j => Enumerate(D, R)[i] # Enumerate(D, R)[j]
  BY <1>1, <1>8
<1>14. \A d \in D : \E i \in 1 .. n : Enumerate(D, R)[i] = d
  BY <1>9, <1>11
<1> QED
  BY <1>1, <1>8, <1>12, <1>13, <1>14 DEF Rank

(* Retain keeps the elements of S that s has, and repeats none that s does *)
(* not repeat.                                                             *)
LEMMA RetainProperties ==
  ASSUME NEW T, NEW s \in Seq(T), NEW S
  PROVE  /\ Retain(s, S) \in Seq(T)
         /\ Len(Retain(s, S)) = Cardinality({i \in 1 .. Len(s) : s[i] \in S})
         /\ Len(Retain(s, S)) \in Nat
         /\ Range(Retain(s, S)) = Range(s) \cap S
         /\ NoDuplicates(s) => NoDuplicates(Retain(s, S))
<1> DEFINE I == {i \in DOMAIN s : s[i] \in S}
           at == Enumerate(I, Ascending(I))
           n == Cardinality(I)
<1>1. DOMAIN s = 1 .. Len(s) /\ Len(s) \in Nat
  OBVIOUS
<1>2. IsFiniteSet(I)
  <2>1. IsFiniteSet(1 .. Len(s))
    BY <1>1, FS_Interval
  <2>2. I \in SUBSET (1 .. Len(s))
    BY <1>1
  <2> QED
    BY <2>1, <2>2, FS_Subset
<1>3. StrictOrder(Ascending(I), I)
  BY <1>1 DEF StrictOrder, Ascending
<1>4. /\ n \in Nat
      /\ at \in [1 .. n -> I]
      /\ \A i, j \in 1 .. n : i # j => at[i] # at[j]
      /\ \A d \in I : \E i \in 1 .. n : at[i] = d
  <2> HIDE DEF I
  <2> QED
    BY <1>2, <1>3, EnumerateBijective
<1>5. Retain(s, S) = [k \in 1 .. n |-> s[at[k]]]
  BY DEF Retain
<1> HIDE DEF at, n
<1>6. \A k \in 1 .. n : s[at[k]] \in T /\ s[at[k]] \in S /\ s[at[k]] \in Range(s)
  BY <1>1, <1>4 DEF Range
<1>7. Retain(s, S) \in [1 .. n -> T]
  BY <1>5, <1>6
<1>8. Retain(s, S) \in Seq(T) /\ Len(Retain(s, S)) = n
  BY <1>4, <1>7
<1>9. DOMAIN Retain(s, S) = 1 .. n
  BY <1>5
<1>10. Range(Retain(s, S)) = Range(s) \cap S
  <2>1. Range(Retain(s, S)) \subseteq Range(s) \cap S
    BY <1>5, <1>6, <1>9 DEF Range
  <2>2. \A x \in Range(s) \cap S : x \in Range(Retain(s, S))
    <3> SUFFICES ASSUME NEW x \in Range(s), x \in S PROVE x \in Range(Retain(s, S))
      OBVIOUS
    <3>1. PICK i \in DOMAIN s : s[i] = x
      BY DEF Range
    <3>2. i \in I
      BY <3>1
    <3>3. PICK k \in 1 .. n : at[k] = i
      BY <1>4, <3>2
    <3>4. Retain(s, S)[k] = x
      BY <1>5, <3>1, <3>3
    <3> QED
      BY <1>9, <3>4 DEF Range
  <2> QED
    BY <2>1, <2>2
<1>11. NoDuplicates(s) => NoDuplicates(Retain(s, S))
  BY <1>4, <1>5, <1>9 DEF NoDuplicates
<1> QED
  BY <1>1, <1>4, <1>8, <1>10, <1>11 DEF n

(* A selection of a sequence without duplicates has as many elements as    *)
(* the set it keeps.                                                       *)
LEMMA LenIsCardinality ==
  ASSUME NEW T, NEW s \in Seq(T), NoDuplicates(s)
  PROVE  IsFiniteSet(Range(s)) /\ Cardinality(Range(s)) = Len(s)
<1>1. Len(s) \in Nat /\ DOMAIN s = 1 .. Len(s)
  OBVIOUS
<1>2. IsFiniteSet(1 .. Len(s)) /\ Cardinality(1 .. Len(s)) = Len(s)
  BY <1>1, FS_Interval
<1>3. s \in Bijection(1 .. Len(s), Range(s))
  BY <1>1 DEF Bijection, Injection, Surjection, IsInjective, Range, NoDuplicates
<1>4. ExistsBijection(1 .. Len(s), Range(s))
  BY <1>3 DEF ExistsBijection
<1> QED
  BY <1>2, <1>4, FS_Bijection

(* The place of an element of a sequence.                                  *)
LEMMA PositionProperties ==
  ASSUME NEW s, NEW e \in Range(s)
  PROVE  PositionIn(s, e) \in DOMAIN s /\ s[PositionIn(s, e)] = e
BY DEF PositionIn, Range

(* The walk over the sequences of ss meets elements in a strict order.     *)
LEMMA MetBeforeIsStrictOrder ==
  ASSUME NEW T, NEW ss \in Seq(Seq(T)), NEW D,
         \A a \in D : \E i \in DOMAIN ss : a \in Range(ss[i])
  PROVE  StrictOrder({p \in D \X D : MetBefore(ss, p[1], p[2])}, D)
<1>1. \A a \in D : /\ MetFirst(ss, a) \in DOMAIN ss
                   /\ a \in Range(ss[MetFirst(ss, a)])
  <2> SUFFICES ASSUME NEW a \in D
               PROVE  MetFirst(ss, a) \in DOMAIN ss /\ a \in Range(ss[MetFirst(ss, a)])
    OBVIOUS
  <2>1. Met(ss, a) \in SUBSET Nat /\ Met(ss, a) # {}
    BY DEF Met
  <2>2. \E m \in Met(ss, a) : \A n \in Met(ss, a) : m <= n
    BY <2>1, LeastNatural
  <2>3. MetFirst(ss, a) \in Met(ss, a)
    BY <2>2 DEF MetFirst
  <2> QED
    BY <2>3 DEF Met
<1> DEFINE f(a) == MetFirst(ss, a)
           g(a) == PositionIn(ss[MetFirst(ss, a)], a)
<1>2. \A a \in D : f(a) \in Nat
  BY <1>1
<1>3. \A a \in D : g(a) \in Nat /\ ss[f(a)][g(a)] = a
  <2> SUFFICES ASSUME NEW a \in D PROVE g(a) \in Nat /\ ss[f(a)][g(a)] = a
    OBVIOUS
  <2>1. ss[f(a)] \in Seq(T)
    BY <1>1
  <2>2. g(a) \in DOMAIN ss[f(a)] /\ ss[f(a)][g(a)] = a
    BY <1>1, PositionProperties
  <2> QED
    BY <2>1, <2>2
<1>4. \A a, b \in D : MetBefore(ss, a, b) <=> f(a) < f(b) \/ (f(a) = f(b) /\ g(a) > g(b))
  BY DEF MetBefore
<1> HIDE DEF f, g
<1>5. \A a, b \in D : a # b => f(a) # f(b) \/ g(a) # g(b)
  BY <1>3
<1> DEFINE R == {p \in D \X D : MetBefore(ss, p[1], p[2])}
<1>6. \A a, b \in D : <<a, b>> \in R <=> f(a) < f(b) \/ (f(a) = f(b) /\ g(a) > g(b))
  BY <1>4
<1> HIDE DEF R
<1>7. StrictOrder(R, D)
  <2> DEFINE Before(a, b) == f(a) < f(b) \/ (f(a) = f(b) /\ g(a) > g(b))
  <2>1. \A a \in D : <<a, a>> \notin R
    <3>1. \A a \in D : ~Before(a, a)
      BY <1>2, <1>3
    <3> QED
      BY <1>6, <3>1
  <2>2. \A a, b \in D : a # b => <<a, b>> \in R \/ <<b, a>> \in R
    <3>1. \A a, b \in D : a # b => Before(a, b) \/ Before(b, a)
      BY <1>2, <1>3, <1>5
    <3> QED
      BY <1>6, <3>1
  <2>3. \A a, b, c \in D : <<a, b>> \in R /\ <<b, c>> \in R => <<a, c>> \in R
    BY SMTT(30), <1>2, <1>3, <1>6
  <2> QED
    BY <2>1, <2>2, <2>3 DEF StrictOrder
<1> QED
  BY <1>7 DEF R

(* WalkOrder lists each of the elements of D once.                         *)
LEMMA WalkOrderProperties ==
  ASSUME NEW T, NEW ss \in Seq(Seq(T)), NEW D \in SUBSET T, IsFiniteSet(D),
         \A a \in D : \E i \in DOMAIN ss : a \in Range(ss[i])
  PROVE  /\ WalkOrder(ss, D) \in Seq(T)
         /\ Range(WalkOrder(ss, D)) = D
         /\ NoDuplicates(WalkOrder(ss, D))
<1> DEFINE R == {p \in D \X D : MetBefore(ss, p[1], p[2])}
           n == Cardinality(D)
<1>1. StrictOrder(R, D)
  BY MetBeforeIsStrictOrder
<1> HIDE DEF R
<1>2. /\ n \in Nat
      /\ Enumerate(D, R) \in [1 .. n -> D]
      /\ \A i, j \in 1 .. n : i # j => Enumerate(D, R)[i] # Enumerate(D, R)[j]
      /\ \A d \in D : \E i \in 1 .. n : Enumerate(D, R)[i] = d
  BY <1>1, EnumerateBijective
<1>3. WalkOrder(ss, D) = Enumerate(D, R)
  BY DEF WalkOrder, R
<1> HIDE DEF n
<1>4. WalkOrder(ss, D) \in [1 .. n -> T]
  BY <1>2, <1>3
<1>5. WalkOrder(ss, D) \in Seq(T)
  BY <1>2, <1>4
<1>6. Range(WalkOrder(ss, D)) = D
  BY <1>2, <1>3 DEF Range
<1>7. NoDuplicates(WalkOrder(ss, D))
  BY <1>2, <1>3 DEF NoDuplicates
<1> QED
  BY <1>5, <1>6, <1>7

(* Taking the first m elements of a sequence without duplicates.           *)
LEMMA SplitProperties ==
  ASSUME NEW T, NEW q \in Seq(T), NoDuplicates(q), NEW m \in 0 .. Len(q)
  PROVE  LET a == SubSeq(q, 1, m)
             b == SubSeq(q, m + 1, Len(q))
         IN  /\ a \in Seq(T) /\ b \in Seq(T)
             /\ Len(a) = m
             /\ NoDuplicates(a) /\ NoDuplicates(b)
             /\ Range(a) \cap Range(b) = {}
             /\ Range(a) \cup Range(b) = Range(q)
<1> DEFINE a == SubSeq(q, 1, m)
           b == SubSeq(q, m + 1, Len(q))
           l == Len(q)
<1>1. l \in Nat /\ m \in Nat /\ m <= l /\ DOMAIN q = 1 .. l
  OBVIOUS
<1>2. /\ a \in Seq(T) /\ Len(a) = (IF 1 <= m THEN m - 1 + 1 ELSE 0)
      /\ \A i \in 1 .. m - 1 + 1 : a[i] = q[1 + i - 1]
  <2>1. \A i \in 1 .. m : q[i] \in T
    BY <1>1
  <2> QED
    BY <1>1, <2>1, SubSeqProperties
<1>3. /\ b \in Seq(T) /\ Len(b) = (IF m + 1 <= l THEN l - (m + 1) + 1 ELSE 0)
      /\ \A i \in 1 .. l - (m + 1) + 1 : b[i] = q[m + 1 + i - 1]
  <2>1. \A i \in m + 1 .. l : q[i] \in T
    BY <1>1
  <2> QED
    BY <1>1, <2>1, SubSeqProperties
<1> HIDE DEF a, b, l
<1>4. Len(a) = m /\ DOMAIN a = 1 .. m /\ \A i \in 1 .. m : a[i] = q[i]
  BY <1>1, <1>2
<1>5. Len(b) = l - m /\ DOMAIN b = 1 .. l - m /\ \A i \in 1 .. l - m : b[i] = q[m + i]
  BY <1>1, <1>3
<1>6. \A i, j \in 1 .. l : i # j => q[i] # q[j]
  BY <1>1 DEF NoDuplicates
<1>7. NoDuplicates(a)
  BY <1>1, <1>4, <1>6 DEF NoDuplicates
<1>8. NoDuplicates(b)
  <2> SUFFICES ASSUME NEW i \in 1 .. l - m, NEW j \in 1 .. l - m, i # j
               PROVE  b[i] # b[j]
    BY <1>5 DEF NoDuplicates
  <2>1. m + i \in 1 .. l /\ m + j \in 1 .. l /\ m + i # m + j
    BY <1>1
  <2> QED
    BY <1>5, <1>6, <2>1
<1>9. Range(a) \cap Range(b) = {}
  <2> SUFFICES ASSUME NEW i \in 1 .. m, NEW j \in 1 .. l - m PROVE a[i] # b[j]
    BY <1>4, <1>5 DEF Range
  <2>1. i \in 1 .. l /\ m + j \in 1 .. l /\ i # m + j
    BY <1>1
  <2> QED
    BY SMTT(30), <1>4, <1>5, <1>6, <2>1
<1>10. Range(a) \cup Range(b) = Range(q)
  <2>1. \A x \in Range(a) : x \in Range(q)
    BY <1>1, <1>4 DEF Range
  <2>2. \A x \in Range(b) : x \in Range(q)
    <3> SUFFICES ASSUME NEW j \in 1 .. l - m PROVE b[j] \in Range(q)
      BY <1>5 DEF Range
    <3>1. m + j \in DOMAIN q /\ b[j] = q[m + j]
      BY <1>1, <1>5
    <3> QED
      BY <3>1 DEF Range
  <2>3. \A x \in Range(q) : x \in Range(a) \cup Range(b)
    <3> SUFFICES ASSUME NEW i \in 1 .. l PROVE q[i] \in Range(a) \cup Range(b)
      BY <1>1 DEF Range
    <3>1. CASE i <= m
      BY <1>1, <1>4, <3>1 DEF Range
    <3>2. CASE m < i
      <4>1. i - m \in 1 .. l - m /\ m + (i - m) = i
        BY <1>1, <3>2
      <4>2. b[i - m] = q[i]
        BY <1>5, <4>1
      <4> QED
        BY <1>5, <4>1, <4>2 DEF Range
    <3> QED
      BY <1>1, <3>1, <3>2
  <2> QED
    BY <2>1, <2>2, <2>3
<1> QED
  BY <1>2, <1>3, <1>4, <1>7, <1>8, <1>9, <1>10 DEF a, b, l

(* Joining two disjoint sequences without duplicates.                      *)
LEMMA ConcatNoDuplicates ==
  ASSUME NEW T, NEW a \in Seq(T), NEW b \in Seq(T), NoDuplicates(a), NoDuplicates(b),
         Range(a) \cap Range(b) = {}
  PROVE  NoDuplicates(a \o b)
<1> DEFINE c == a \o b
           m == Len(a)
           n == Len(b)
<1>1. m \in Nat /\ n \in Nat /\ DOMAIN a = 1 .. m /\ DOMAIN b = 1 .. n
  OBVIOUS
<1>2. /\ c \in Seq(T) /\ Len(c) = m + n
      /\ \A i \in 1 .. m + n : c[i] = IF i <= m THEN a[i] ELSE b[i - m]
  BY ConcatProperties
<1>3. DOMAIN c = 1 .. m + n
  BY <1>2
<1> HIDE DEF c, m, n
<1>4. \A i \in 1 .. m, j \in 1 .. n : a[i] # b[j]
  BY <1>1 DEF Range
<1> SUFFICES ASSUME NEW i \in 1 .. m + n, NEW j \in 1 .. m + n, i < j PROVE c[i] # c[j]
  BY <1>1, <1>3 DEF NoDuplicates, c
<1>5. CASE j <= m
  <2>1. i \in 1 .. m /\ j \in 1 .. m /\ i # j
    BY <1>1, <1>5
  <2> QED
    BY <1>1, <1>2, <2>1 DEF NoDuplicates
<1>6. CASE i <= m /\ m < j
  <2>1. i \in 1 .. m /\ j - m \in 1 .. n
    BY <1>1, <1>6
  <2> QED
    BY <1>1, <1>2, <1>4, <1>6, <2>1
<1>7. CASE m < i
  <2>1. i - m \in 1 .. n /\ j - m \in 1 .. n /\ i - m # j - m /\ m < j
    BY <1>1, <1>7
  <2>2. c[i] = b[i - m] /\ c[j] = b[j - m]
    BY <1>1, <1>2, <1>7, <2>1
  <2> QED
    BY <1>1, <2>1, <2>2 DEF NoDuplicates
<1> QED
  BY <1>1, <1>5, <1>6, <1>7
-----------------------------------------------------------------------------
(* The order of a selection.                                               *)

(* Strictly increasing sequences of numbers.                               *)
Increasing(q) == \A i, j \in DOMAIN q : i < j => q[i] < q[j]

(* The places in s of the elements that Retain(s, S) keeps.                *)
KeptPlaces(g, s, S) ==
  /\ g \in [1 .. Len(Retain(s, S)) -> DOMAIN s]
  /\ Increasing(g)
  /\ \A k \in 1 .. Len(Retain(s, S)) : Retain(s, S)[k] = s[g[k]]
  /\ \A i \in DOMAIN s : s[i] \in S => \E k \in 1 .. Len(Retain(s, S)) : g[k] = i

(* Retain keeps the order.                                                 *)
LEMMA RetainInOrder ==
  ASSUME NEW T, NEW s \in Seq(T), NEW S
  PROVE  \E g : KeptPlaces(g, s, S)
<1> DEFINE I == {i \in DOMAIN s : s[i] \in S}
           at == Enumerate(I, Ascending(I))
           n == Cardinality(I)
           P(d) == Predecessors(I, Ascending(I), d)
<1>1. DOMAIN s = 1 .. Len(s) /\ Len(s) \in Nat /\ I \subseteq Int
  OBVIOUS
<1>2. IsFiniteSet(I)
  <2>1. IsFiniteSet(1 .. Len(s)) /\ I \in SUBSET (1 .. Len(s))
    BY <1>1, FS_Interval
  <2> QED
    BY <2>1, FS_Subset
<1>3. StrictOrder(Ascending(I), I)
  BY <1>1 DEF StrictOrder, Ascending
<1>4. /\ n \in Nat
      /\ at \in [1 .. n -> I]
      /\ \A d \in I : \E i \in 1 .. n : at[i] = d
      /\ \A k \in 1 .. n : Cardinality(P(at[k])) = k - 1
  <2> HIDE DEF I
  <2> QED
    BY <1>2, <1>3, EnumerateBijective
<1>5. Retain(s, S) = [k \in 1 .. n |-> s[at[k]]]
  BY DEF Retain
<1>6. Len(Retain(s, S)) = n
  BY <1>4, <1>5
<1>7. ASSUME NEW i \in 1 .. n, NEW j \in 1 .. n, i < j PROVE at[i] < at[j]
  <2>1. at[i] \in I /\ at[j] \in I /\ at[i] \in Int /\ at[j] \in Int
    BY <1>1, <1>4
  <2>2. Cardinality(P(at[i])) = i - 1 /\ Cardinality(P(at[j])) = j - 1
    BY <1>4
  <2> HIDE DEF I, at, P
  <2>3. at[i] # at[j]
    BY <2>2, <1>7
  <2>4. CASE at[j] < at[i]
    <3>1. <<at[j], at[i]>> \in Ascending(I)
      BY <2>1, <2>4 DEF Ascending
    <3>2. Cardinality(P(at[j])) < Cardinality(P(at[i]))
      BY <1>2, <1>3, <2>1, <3>1, RankIncreases DEF P
    <3> QED
      BY <1>7, <2>2, <3>2
  <2> QED
    BY <2>1, <2>3, <2>4
<1> HIDE DEF at, n
<1>8. KeptPlaces(at, s, S)
  BY <1>4, <1>5, <1>6, <1>7 DEF KeptPlaces, Increasing
<1> QED
  BY <1>8

(* Keeping everything changes nothing.                                     *)
LEMMA RetainAll ==
  ASSUME NEW T, NEW s \in Seq(T), NEW S, Range(s) \subseteq S
  PROVE  Retain(s, S) = s
<1> DEFINE q == Retain(s, S)
           n == Len(s)
<1>1. n \in Nat /\ DOMAIN s = 1 .. n /\ \A i \in 1 .. n : s[i] \in S
  BY DEF Range
<1>2. q \in Seq(T) /\ Len(q) = n
  <2>1. q \in Seq(T) /\ Len(q) = Cardinality({i \in 1 .. n : s[i] \in S})
    BY RetainProperties
  <2>2. {i \in 1 .. n : s[i] \in S} = 1 .. n
    BY <1>1
  <2>3. Cardinality(1 .. n) = n
    BY <1>1, FS_Interval
  <2> QED
    BY <2>1, <2>2, <2>3
<1>3. PICK g : KeptPlaces(g, s, S)
  BY RetainInOrder
<1> HIDE DEF q, n
<1>4. /\ g \in [1 .. n -> 1 .. n] /\ Increasing(g)
      /\ \A k \in 1 .. n : q[k] = s[g[k]]
      /\ \A i \in 1 .. n : \E k \in 1 .. n : g[k] = i
  BY <1>1, <1>2, <1>3 DEF KeptPlaces, q
<1>5. \A k \in 1 .. n : g[k] = k
  <2> SUFFICES ASSUME \E k \in 1 .. n : g[k] # k PROVE FALSE
    OBVIOUS
  <2> DEFINE W == {k \in 1 .. n : g[k] # k}
  <2>1. PICK m \in W : \A k \in W : m <= k
    <3>1. W \in SUBSET Nat /\ W # {}
      BY <1>1
    <3> HIDE DEF W
    <3> QED
      BY <3>1, LeastNatural
  <2>2. PICK j \in 1 .. n : g[j] = m
    BY <1>4
  <2>3. m \in 1 .. n /\ g[m] \in 1 .. n /\ g[m] # m
    BY <1>4
  <2>4. \A k \in 1 .. n : k < m => g[k] = k
    BY <1>1, <2>1
  <2>5. \A a, b \in 1 .. n : a < b => g[a] < g[b]
    BY <1>4 DEF Increasing
  <2> HIDE DEF W
  <2>6. CASE g[m] < m
    BY <1>1, <2>3, <2>4, <2>5, <2>6
  <2>7. CASE m < g[m]
    BY <1>1, <2>2, <2>3, <2>4, <2>5, <2>7
  <2> QED
    BY <1>1, <2>3, <2>6, <2>7
<1> QED
  BY <1>1, <1>2, <1>4, <1>5, SeqEqual DEF q, n
-----------------------------------------------------------------------------
(* Sums.                                                                   *)

(* g satisfies the recursive equation of SumTo.                            *)
IsSum(g, f, n) == g = [i \in 0 .. n |-> IF i = 0 THEN 0 ELSE g[i - 1] + f[i]]

(* The recursion of SumTo defines a function ...                           *)
LEMMA SumExists ==
  ASSUME NEW f
  PROVE  \A n \in Nat : \E g : IsSum(g, f, n)
<1> DEFINE S == {n \in Nat : \E g : IsSum(g, f, n)}
<1>1. 0 \in S
  <2> DEFINE g == [i \in 0 .. 0 |-> 0]
  <2>1. IsSum(g, f, 0)
    BY DEF IsSum
  <2> QED
    BY <2>1
<1>2. ASSUME NEW n \in Nat, n \in S PROVE n + 1 \in S
  <2>1. PICK g : IsSum(g, f, n)
    BY <1>2
  <2> DEFINE g2 == [i \in 0 .. n + 1 |-> IF i <= n THEN g[i] ELSE g[n] + f[i]]
  <2>2. \A i \in 0 .. n + 1 : g2[i] = IF i = 0 THEN 0 ELSE g2[i - 1] + f[i]
    <3> SUFFICES ASSUME NEW i \in 0 .. n + 1
                 PROVE  g2[i] = IF i = 0 THEN 0 ELSE g2[i - 1] + f[i]
      OBVIOUS
    <3>1. CASE i <= n
      <4>1. g2[i] = g[i] /\ (i # 0 => g2[i - 1] = g[i - 1])
        BY <3>1
      <4>2. g[i] = IF i = 0 THEN 0 ELSE g[i - 1] + f[i]
        BY <2>1, <3>1 DEF IsSum
      <4> QED
        BY <4>1, <4>2
    <3>2. CASE i = n + 1
      <4>1. g2[i - 1] = g[n] /\ i # 0 /\ g2[i] = g[n] + f[i]
        BY <3>2
      <4> QED
        BY <4>1
    <3> QED
      BY <3>1, <3>2
  <2>3. IsSum(g2, f, n + 1)
    BY <2>2 DEF IsSum
  <2> HIDE DEF g2
  <2> QED
    BY <2>3
<1>3. S = Nat
  <2>1. S \in SUBSET Nat
    OBVIOUS
  <2> HIDE DEF S
  <2> QED
    BY <1>1, <1>2, <2>1, SetInduction
<1> QED
  BY <1>3

(* ... and so sums grow by one summand at a time.                          *)
LEMMA SumStep ==
  ASSUME NEW f, NEW n \in Nat
  PROVE  SumTo(f, 0) = 0 /\ SumTo(f, n + 1) = SumTo(f, n) + f[n + 1]
<1> DEFINE sum(k) == CHOOSE g : IsSum(g, f, k)
<1>1. \A k \in Nat : IsSum(sum(k), f, k)
  BY SumExists, Zenon
<1>2. \A k \in Nat : SumTo(f, k) = sum(k)[k]
  BY Zenon DEF SumTo, IsSum
<1> HIDE DEF sum
<1>3. ASSUME NEW k \in Nat, NEW i \in 0 .. k
      PROVE  sum(k)[i] = IF i = 0 THEN 0 ELSE sum(k)[i - 1] + f[i]
  BY <1>1 DEF IsSum
<1> DEFINE S == {i \in Nat : i <= n => sum(n)[i] = sum(n + 1)[i]}
<1>4. 0 \in S
  BY <1>3
<1>5. ASSUME NEW i \in Nat, i \in S PROVE i + 1 \in S
  <2> SUFFICES ASSUME i + 1 <= n PROVE sum(n)[i + 1] = sum(n + 1)[i + 1]
    OBVIOUS
  <2>1. sum(n)[i] = sum(n + 1)[i]
    BY <1>5
  <2>2. i + 1 \in 0 .. n /\ i + 1 \in 0 .. n + 1 /\ n + 1 \in Nat
    OBVIOUS
  <2> QED
    BY <1>3, <2>1, <2>2
<1>6. S = Nat
  <2>1. S \in SUBSET Nat
    OBVIOUS
  <2> HIDE DEF S
  <2> QED
    BY <1>4, <1>5, <2>1, SetInduction
<1>7. sum(n)[n] = sum(n + 1)[n]
  BY <1>6
<1>8. sum(n + 1)[n + 1] = sum(n + 1)[n] + f[n + 1]
  <2>1. n + 1 \in Nat /\ n + 1 \in 0 .. n + 1 /\ n + 1 # 0 /\ (n + 1) - 1 = n
    OBVIOUS
  <2> QED
    BY <1>3, <2>1
<1>9. sum(0)[0] = 0
  BY <1>3
<1> QED
  BY <1>2, <1>7, <1>8, <1>9

(* Sums of natural numbers are natural and do not decrease.                *)
LEMMA SumType ==
  ASSUME NEW f \in Seq(Nat)
  PROVE  /\ \A n \in 0 .. Len(f) : SumTo(f, n) \in Nat
         /\ \A m, n \in 0 .. Len(f) : m <= n => SumTo(f, m) <= SumTo(f, n)
         /\ \A n \in 1 .. Len(f) : SumTo(f, n) >= f[n]
         /\ Total(f) \in Nat
<1> DEFINE L == Len(f)
           Below(n) == \A m \in 0 .. n : SumTo(f, m) \in Nat /\ SumTo(f, m) <= SumTo(f, n)
           S == {n \in Nat : n <= L => Below(n)}
<1>1. L \in Nat /\ \A i \in 1 .. L : f[i] \in Nat
  OBVIOUS
<1> HIDE DEF L
<1>2. 0 \in S
  BY <1>1, SumStep
<1>3. ASSUME NEW n \in Nat, n \in S PROVE n + 1 \in S
  <2> SUFFICES ASSUME n + 1 <= L, NEW m \in 0 .. n + 1
               PROVE  SumTo(f, m) \in Nat /\ SumTo(f, m) <= SumTo(f, n + 1)
    OBVIOUS
  <2>1. SumTo(f, n) \in Nat /\ Below(n)
    BY <1>1, <1>3
  <2>2. SumTo(f, n + 1) = SumTo(f, n) + f[n + 1] /\ f[n + 1] \in Nat
    BY <1>1, SumStep
  <2>3. CASE m = n + 1
    BY <2>1, <2>2, <2>3
  <2>4. CASE m <= n
    <3>1. SumTo(f, m) \in Nat /\ SumTo(f, m) <= SumTo(f, n)
      BY <2>1, <2>4
    <3> QED
      BY <2>1, <2>2, <3>1
  <2> QED
    BY <2>3, <2>4
<1>4. S = Nat
  <2>1. S \in SUBSET Nat
    OBVIOUS
  <2> HIDE DEF S
  <2> QED
    BY <1>2, <1>3, <2>1, SetInduction
<1>5. /\ \A n \in 0 .. L : SumTo(f, n) \in Nat
      /\ \A m, n \in 0 .. L : m <= n => SumTo(f, m) <= SumTo(f, n)
  BY <1>1, <1>4
<1> HIDE DEF S
<1>6. ASSUME NEW n \in 1 .. L PROVE SumTo(f, n) >= f[n]
  <2>1. n - 1 \in Nat /\ n - 1 \in 0 .. L /\ (n - 1) + 1 = n
    BY <1>1
  <2>2. SumTo(f, n) = SumTo(f, n - 1) + f[n] /\ SumTo(f, n - 1) \in Nat
    BY <1>5, <2>1, SumStep
  <2> QED
    BY <1>1, <2>2
<1>7. Total(f) \in Nat
  BY <1>1, <1>5 DEF Total, L
<1> QED
  BY <1>1, <1>5, <1>6, <1>7 DEF L

(* Summing some of the numbers, or smaller ones, gives no more.            *)
LEMMA SumOfSelection ==
  ASSUME NEW f \in Seq(Nat), NEW h \in Seq(Nat), NEW g \in [DOMAIN h -> DOMAIN f],
         Increasing(g), \A k \in DOMAIN h : h[k] <= f[g[k]]
  PROVE  Total(h) <= Total(f)
<1> DEFINE n == Len(h)
           L == Len(f)
           S == {k \in Nat : k \in 1 .. n => SumTo(h, k) <= SumTo(f, g[k])}
<1>1. /\ n \in Nat /\ DOMAIN h = 1 .. n /\ L \in Nat /\ DOMAIN f = 1 .. L
      /\ \A k \in 1 .. n : h[k] \in Nat /\ h[k] <= f[g[k]] /\ g[k] \in 1 .. L
      /\ \A k \in 1 .. L : f[k] \in Nat
  OBVIOUS
<1>2. /\ \A k \in 0 .. n : SumTo(h, k) \in Nat
      /\ \A k \in 0 .. L : SumTo(f, k) \in Nat
      /\ \A j, k \in 0 .. L : j <= k => SumTo(f, j) <= SumTo(f, k)
  BY SumType
<1>3. Total(h) = SumTo(h, n) /\ Total(f) = SumTo(f, L)
  BY DEF Total
<1>4. \A i, j \in 1 .. n : i < j => g[i] < g[j]
  BY <1>1 DEF Increasing
<1> HIDE DEF n, L
<1>5. ASSUME NEW k \in 0 .. n - 1, NEW low \in 0 .. L, low < g[k + 1],
             SumTo(h, k) <= SumTo(f, low)
      PROVE  SumTo(h, k + 1) <= SumTo(f, g[k + 1])
  <2> DEFINE i == g[k + 1]
  <2>1. k \in Nat /\ k \in 0 .. n /\ k + 1 \in 1 .. n /\ k + 1 \in 0 .. n
    BY <1>1
  <2>2. i \in 1 .. L /\ i \in 0 .. L /\ i - 1 \in Nat /\ i - 1 \in 0 .. L /\ low <= i - 1
        /\ (i - 1) + 1 = i
    BY SMTT(30), <1>1, <1>5, <2>1
  <2>3. h[k + 1] \in Nat /\ f[i] \in Nat /\ h[k + 1] <= f[i]
    BY <1>1, <2>1, <2>2
  <2> HIDE DEF i
  <2>4. SumTo(h, k + 1) = SumTo(h, k) + h[k + 1]
    BY <2>1, SumStep
  <2>5. SumTo(f, i) = SumTo(f, i - 1) + f[i]
    BY <2>2, SumStep
  <2>6. SumTo(f, low) <= SumTo(f, i - 1)
    BY <1>2, <2>2
  <2>7. SumTo(h, k) \in Nat /\ SumTo(f, low) \in Nat /\ SumTo(f, i - 1) \in Nat
    BY <1>2, <2>1, <2>2
  <2>8. \A a, b, c, x, y \in Nat : a <= b /\ b <= c /\ x <= y => a + x <= c + y
    OBVIOUS
  <2>9. SumTo(h, k) + h[k + 1] <= SumTo(f, i - 1) + f[i]
    BY <1>5, <2>3, <2>6, <2>7, <2>8
  <2> QED
    BY <2>4, <2>5, <2>9 DEF i
<1>6. 0 \in S
  OBVIOUS
<1>7. ASSUME NEW k \in Nat, k \in S PROVE k + 1 \in S
  <2> SUFFICES ASSUME k + 1 \in 1 .. n PROVE SumTo(h, k + 1) <= SumTo(f, g[k + 1])
    OBVIOUS
  <2>1. k \in 0 .. n - 1
    BY <1>1
  <2>2. CASE k = 0
    <3>1. SumTo(h, 0) = 0 /\ SumTo(f, 0) = 0
      BY SumStep
    <3>2. 0 \in 0 .. L /\ 0 < g[k + 1]
      BY <1>1
    <3> QED
      BY SMTT(30), <1>5, <2>1, <2>2, <3>1, <3>2
  <2>3. CASE k # 0
    <3>1. k \in 1 .. n /\ g[k] \in 0 .. L /\ g[k] < g[k + 1]
      BY SMTT(30), <1>1, <1>4, <2>1, <2>3
    <3>2. SumTo(h, k) <= SumTo(f, g[k])
      BY <1>7, <3>1
    <3> QED
      BY <1>5, <2>1, <3>1, <3>2
  <2> QED
    BY <2>2, <2>3
<1>8. S = Nat
  <2>1. S \in SUBSET Nat
    OBVIOUS
  <2> HIDE DEF S
  <2> QED
    BY <1>6, <1>7, <2>1, SetInduction
<1>9. CASE n = 0
  <2>1. SumTo(h, 0) = 0
    BY SumStep
  <2>2. L \in 0 .. L
    BY <1>1
  <2> QED
    BY <1>2, <1>3, <1>9, <2>1, <2>2
<1>10. CASE n # 0
  <2>0. n \in S
    BY <1>1, <1>8
  <2>1. n \in 1 .. n /\ n \in 0 .. n
    BY <1>1, <1>10
  <2>2. g[n] \in 0 .. L /\ L \in 0 .. L /\ g[n] <= L
    BY <1>1, <2>1
  <2>3. SumTo(h, n) <= SumTo(f, g[n]) /\ SumTo(f, g[n]) <= SumTo(f, L)
    BY <1>2, <2>0, <2>1, <2>2
  <2> QED
    BY SMTT(30), <1>2, <1>3, <2>1, <2>2, <2>3
<1> QED
  BY <1>9, <1>10

(* One more number.                                                        *)
LEMMA TotalOfAppend ==
  ASSUME NEW f \in Seq(Nat), NEW x \in Nat
  PROVE  Total(Append(f, x)) = Total(f) + x
<1> DEFINE h == Append(f, x)
           n == Len(f)
           S == {k \in Nat : k <= n => SumTo(h, k) = SumTo(f, k)}
<1>1. /\ n \in Nat /\ Len(h) = n + 1 /\ h[n + 1] = x
      /\ \A i \in 1 .. n : h[i] = f[i]
  OBVIOUS
<1> HIDE DEF h, n
<1>2. 0 \in S
  BY SumStep
<1>3. ASSUME NEW k \in Nat, k \in S PROVE k + 1 \in S
  <2> SUFFICES ASSUME k + 1 <= n PROVE SumTo(h, k + 1) = SumTo(f, k + 1)
    OBVIOUS
  <2>1. SumTo(h, k) = SumTo(f, k) /\ h[k + 1] = f[k + 1]
    BY <1>1, <1>3
  <2> QED
    BY <2>1, SumStep
<1>4. S = Nat
  <2>1. S \in SUBSET Nat
    OBVIOUS
  <2> HIDE DEF S
  <2> QED
    BY <1>2, <1>3, <2>1, SetInduction
<1>5. SumTo(h, n) = SumTo(f, n)
  BY <1>1, <1>4
<1>6. SumTo(h, n + 1) = SumTo(h, n) + x
  BY <1>1, SumStep
<1> QED
  BY <1>1, <1>5, <1>6 DEF Total, h, n
-----------------------------------------------------------------------------
(* Arithmetic of blocks.                                                   *)

(* Division rounds down.                                                   *)
LEMMA DivProperties ==
  ASSUME NEW a \in Nat, NEW b \in Nat \ {0}
  PROVE  /\ a \div b \in Nat
         /\ (a \div b) * b <= a
         /\ a < ((a \div b) + 1) * b
OBVIOUS

(* Blocks that start later end later, by a whole block at least.           *)
LEMMA ProductMonotone ==
  ASSUME NEW i \in Nat, NEW j \in Nat, NEW b \in Nat \ {0}, i < j
  PROVE  i * b \in Nat /\ j * b \in Nat /\ i * b + b <= j * b
<1>1. j * b = i * b + (j - i) * b
  OBVIOUS
<1>2. (j - i) * b >= b
  OBVIOUS
<1> QED
  BY <1>1, <1>2

(* A multiple of b is at most a exactly if the factor is at most a \div b. *)
LEMMA DivBound ==
  ASSUME NEW a \in Nat, NEW k \in Nat, NEW b \in Nat \ {0}
  PROVE  k <= a \div b <=> k * b <= a
<1> DEFINE q == a \div b
<1>1. q \in Nat /\ q * b <= a /\ a < (q + 1) * b
  BY DivProperties
<1> HIDE DEF q
<1>2. CASE k <= q
  <2>1. k * b <= q * b
    <3>1. CASE k = q
      BY <1>1, <3>1
    <3>2. CASE k < q
      BY <1>1, <3>2, ProductMonotone
    <3> QED
      BY <1>1, <1>2, <3>1, <3>2
  <2>2. k * b \in Int /\ q * b \in Int
    BY <1>1
  <2> QED
    BY <1>1, <1>2, <2>1, <2>2 DEF q
<1>3. CASE q < k
  <2>1. (q + 1) * b <= k * b
    <3>1. CASE k = q + 1
      BY <1>1, <3>1
    <3>2. CASE q + 1 < k
      BY <1>1, <3>2, ProductMonotone
    <3> QED
      BY <1>1, <1>3, <3>1, <3>2
  <2>2. k * b \in Int /\ (q + 1) * b \in Int
    BY <1>1
  <2>3. ~(k * b <= a)
    BY <1>1, <2>1, <2>2
  <2> QED
    BY <1>1, <1>3, <2>3 DEF q
<1> QED
  BY <1>1, <1>2, <1>3
-----------------------------------------------------------------------------
(* Concatenations (FlattenSeq of the community modules).                   *)

(* g satisfies the recursive equation of FlattenSeq, up to the n-th part.  *)
IsFlat(g, ss, n) ==
  g = [i \in 1 .. n |-> IF i = 1 THEN ss[i] ELSE g[i - 1] \o ss[i]]

(* The recursion of FlattenSeq defines a function.                         *)
LEMMA FlatExists ==
  ASSUME NEW ss
  PROVE  \A n \in Nat : \E g : IsFlat(g, ss, n)
<1> DEFINE S == {n \in Nat : \E g : IsFlat(g, ss, n)}
<1>1. 0 \in S
  <2> DEFINE g == [i \in 1 .. 0 |-> ss[i]]
  <2>1. g = [i \in 1 .. 0 |-> IF i = 1 THEN ss[i] ELSE g[i - 1] \o ss[i]]
    OBVIOUS
  <2> HIDE DEF g
  <2> QED
    BY <2>1 DEF IsFlat
<1>2. ASSUME NEW n \in Nat, n \in S PROVE n + 1 \in S
  <2>1. PICK g : IsFlat(g, ss, n)
    BY <1>2
  <2> DEFINE new == IF n = 0 THEN ss[1] ELSE g[n] \o ss[n + 1]
  <2> DEFINE g2 == [i \in 1 .. n + 1 |-> IF i <= n THEN g[i] ELSE new]
  <2>2. \A i \in 1 .. n + 1 : g2[i] = IF i = 1 THEN ss[i] ELSE g2[i - 1] \o ss[i]
    <3> SUFFICES ASSUME NEW i \in 1 .. n + 1
                 PROVE  g2[i] = IF i = 1 THEN ss[i] ELSE g2[i - 1] \o ss[i]
      OBVIOUS
    <3> HIDE DEF new
    <3>1. CASE i <= n
      <4>1. g2[i] = g[i] /\ (i # 1 => g2[i - 1] = g[i - 1])
        BY <3>1
      <4>2. g[i] = IF i = 1 THEN ss[i] ELSE g[i - 1] \o ss[i]
        <5>1. i \in 1 .. n
          BY <3>1
        <5> QED
          BY <2>1, <5>1, Zenon DEF IsFlat
      <4> QED
        BY <4>1, <4>2
    <3>2. CASE i = n + 1
      <4>1. g2[i] = new /\ (i # 1 => g2[i - 1] = g[n] /\ n # 0) /\ (i = 1 => n = 0)
        BY <3>2
      <4> QED
        BY <3>2, <4>1 DEF new
    <3> QED
      BY <3>1, <3>2
  <2>3. IsFlat(g2, ss, n + 1)
    <3> HIDE DEF new
    <3> QED
      BY <2>2 DEF IsFlat
  <2> HIDE DEF g2
  <2> QED
    BY <2>3
<1>3. S = Nat
  <2>1. S \in SUBSET Nat
    OBVIOUS
  <2> HIDE DEF S
  <2> QED
    BY <1>1, <1>2, <2>1, SetInduction
<1> QED
  BY <1>3
=============================================================================
