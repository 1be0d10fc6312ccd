------------------------- MODULE ForwardPassProofs -------------------------
(***************************************************************************)
(* What a forward pass promises, for any number of requests, heads, blocks *)
(* and tokens.                                                             *)
(*                                                                         *)
(* Attention: whatever layout a step takes, each row attends to its own    *)
(* causal history and nothing else, and a step is refused only if no       *)
(* layout fits, for every chunking of the prompts, every workspace and     *)
(* every limit on the sizes of chunks.                                     *)
(*                                                                         *)
(* Sampling: whatever fails, a batch that was admitted is never refused by *)
(* the kernels, fits the workspace it reuses, and no failure moves the     *)
(* generator.                                                              *)
(***************************************************************************)
EXTENDS AttentionLayout, Sampler, SeqOrderProofs

-----------------------------------------------------------------------------
(* Concatenations.                                                         *)

(* The two parts of a concatenation.                                       *)
LEMMA ConcatParts ==
  ASSUME NEW T, NEW s \in Seq(T), NEW u \in Seq(T)
  PROVE  /\ s \o u \in Seq(T) /\ Len(s \o u) = Len(s) + Len(u)
         /\ \A k \in 1 .. Len(s) : (s \o u)[k] = s[k]
         /\ \A k \in 1 .. Len(u) : (s \o u)[Len(s) + k] = u[k]
OBVIOUS

(* A function with indices 1 .. n.                                         *)
Indexed(f, n) == f = [k \in 1 .. n |-> f[k]]

(* ss has n parts of the lengths lens.                                     *)
Parts(n, ss, lens) ==
  /\ n \in Nat \ {0} /\ Indexed(ss, n)
  /\ lens \in Seq(Nat) /\ Len(lens) = n
  /\ \A i \in 1 .. n : Indexed(ss[i], lens[i])

(* f is as long as the n parts of ss, and has the i-th after all before it. *)
Joined(n, ss, lens, f) ==
  /\ Indexed(f, SumTo(lens, n))
  /\ \A i \in 1 .. n : \A r \in 1 .. lens[i] : f[SumTo(lens, i - 1) + r] = ss[i][r]

(* FlattenSeq joins the parts.                                             *)
LEMMA FlattenProperties ==
  ASSUME NEW n, NEW ss, NEW lens, Parts(n, ss, lens)
  PROVE  Joined(n, ss, lens, FlattenSeq(ss))
<1> SUFFICES ASSUME n \in Nat \ {0}, Indexed(ss, n), lens \in Seq(Nat), Len(lens) = n,
                    \A i \in 1 .. n : Indexed(ss[i], lens[i])
             PROVE  Joined(n, ss, lens, FlattenSeq(ss))
  BY DEF Parts
<1> PICK f : f = FlattenSeq(ss)
  OBVIOUS
<1> DEFINE T == UNION {{ss[i][r] : r \in 1 .. lens[i]} : i \in 1 .. n}
<1>1. \A i \in 1 .. n : ss[i] \in Seq(T) /\ Len(ss[i]) = lens[i] /\ lens[i] \in Nat
  <2> SUFFICES ASSUME NEW i \in 1 .. n
               PROVE  ss[i] \in Seq(T) /\ Len(ss[i]) = lens[i] /\ lens[i] \in Nat
    OBVIOUS
  <2>1. lens[i] \in Nat /\ ss[i] = [r \in 1 .. lens[i] |-> ss[i][r]]
    BY DEF Indexed
  <2>2. \A r \in 1 .. lens[i] : ss[i][r] \in T
    OBVIOUS
  <2> HIDE DEF T
  <2> QED
    BY <2>1, <2>2, SMTT(30)
<1> HIDE DEF T
<1>2. Len(ss) = n
  BY DEF Indexed
<1>3. PICK g : IsFlat(g, ss, n) /\ f = g[n]
  <2> DEFINE h == CHOOSE g : IsFlat(g, ss, n)
  <2>1. IsFlat(h, ss, n)
    BY FlatExists, Zenon
  <2>2. FlattenSeq(ss) = h[n]
    <3>1. ~(Len(ss) = 0)
      BY <1>2
    <3> QED
      BY <1>2, <3>1, Zenon DEF FlattenSeq, IsFlat
  <2> QED
    BY <2>1, <2>2
<1>4. \A i \in 1 .. n : g[i] = IF i = 1 THEN ss[i] ELSE g[i - 1] \o ss[i]
  BY <1>3 DEF IsFlat
<1> DEFINE OK(i) == /\ g[i] \in Seq(T) /\ Len(g[i]) = SumTo(lens, i)
                    /\ \A j \in 1 .. i : \A r \in 1 .. lens[j] :
                         g[i][SumTo(lens, j - 1) + r] = ss[j][r]
           S == {i \in Nat : i + 1 <= n => OK(i + 1)}
<1>5. SumTo(lens, 0) = 0 /\ \A i \in 1 .. n : SumTo(lens, i) = SumTo(lens, i - 1) + lens[i]
  <2> SUFFICES ASSUME NEW i \in 1 .. n
               PROVE  SumTo(lens, 0) = 0 /\ SumTo(lens, i) = SumTo(lens, i - 1) + lens[i]
    OBVIOUS
  <2>1. i - 1 \in Nat /\ (i - 1) + 1 = i
    OBVIOUS
  <2> QED
    BY <2>1, SumStep
<1>6. /\ \A i \in 0 .. n : SumTo(lens, i) \in Nat
      /\ \A i, j \in 0 .. n : i <= j => SumTo(lens, i) <= SumTo(lens, j)
  BY SumType
<1>7. 0 \in S
  <2>1. SumTo(lens, 1) = lens[1] /\ g[1] = ss[1] /\ lens[1] \in Nat
    BY <1>1, <1>4, <1>5
  <2>2. \A r \in 1 .. lens[1] : SumTo(lens, 1 - 1) + r = r
    BY <1>5
  <2> QED
    BY <1>1, <2>1, <2>2
<1>8. ASSUME NEW k \in Nat, k \in S PROVE k + 1 \in S
  <2> SUFFICES ASSUME (k + 1) + 1 <= n PROVE OK((k + 1) + 1)
    OBVIOUS
  <2>0. PICK i : i = k + 1
    OBVIOUS
  <2>1. /\ i \in 1 .. n /\ i + 1 \in 1 .. n /\ (i + 1) - 1 = i /\ i + 1 # 1 /\ OK(i)
        /\ i \in 0 .. n
    BY <1>8, <2>0, SMTT(30)
  <2>2. PICK p, u, c : p = g[i] /\ u = ss[i + 1] /\ c = g[i + 1]
    OBVIOUS
  <2>3. /\ p \in Seq(T) /\ Len(p) = SumTo(lens, i)
        /\ \A j \in 1 .. i : \A r \in 1 .. lens[j] : p[SumTo(lens, j - 1) + r] = ss[j][r]
    BY <2>1, <2>2
  <2>4. u \in Seq(T) /\ Len(u) = lens[i + 1] /\ lens[i + 1] \in Nat
    BY <1>1, <2>1, <2>2
  <2>5. c = p \o u
    BY <1>4, <2>1, <2>2
  <2>6. /\ c \in Seq(T) /\ Len(c) = Len(p) + Len(u)
        /\ \A q \in 1 .. Len(p) : c[q] = p[q]
        /\ \A q \in 1 .. Len(u) : c[Len(p) + q] = u[q]
    <3>1. p \in Seq(T) /\ u \in Seq(T)
      BY <2>3, <2>4
    <3>2. /\ p \o u \in Seq(T) /\ Len(p \o u) = Len(p) + Len(u)
          /\ \A q \in 1 .. Len(p) : (p \o u)[q] = p[q]
          /\ \A q \in 1 .. Len(u) : (p \o u)[Len(p) + q] = u[q]
      BY <3>1, ConcatParts, SMTT(30)
    <3> QED
      BY <2>5, <3>2, Zenon
  <2>7. Len(c) = SumTo(lens, i + 1)
    BY <1>5, <2>1, <2>3, <2>4, <2>6
  <2> HIDE DEF OK
  <2>8. ASSUME NEW j \in 1 .. i + 1, NEW r \in 1 .. lens[j]
        PROVE  c[SumTo(lens, j - 1) + r] = ss[j][r]
    <3>1. CASE j = i + 1
      <4>1. SumTo(lens, j - 1) = Len(p) /\ r \in 1 .. Len(u) /\ u = ss[j]
        BY <2>1, <2>2, <2>3, <2>4, <3>1
      <4> QED
        BY <2>6, <4>1
    <3>2. CASE j <= i
      <4>1. j \in 1 .. i /\ j \in 1 .. n /\ j - 1 \in 0 .. n /\ j \in 0 .. n
        BY <2>1, <3>2, SMTT(30)
      <4>2. SumTo(lens, j) = SumTo(lens, j - 1) + lens[j] /\ SumTo(lens, j) <= SumTo(lens, i)
            /\ lens[j] \in Nat /\ SumTo(lens, j - 1) \in Nat /\ SumTo(lens, i) \in Nat
        BY <1>1, <1>5, <1>6, <2>1, <3>2, <4>1
      <4>3. PICK q : q = SumTo(lens, j - 1) + r
        OBVIOUS
      <4>4. q \in 1 .. Len(p)
        <5>1. PICK a, b, x : a = SumTo(lens, j - 1) /\ b = SumTo(lens, i) /\ x = lens[j]
          OBVIOUS
        <5>2. a \in Nat /\ b \in Nat /\ x \in Nat /\ a + x <= b
          BY <4>2, <5>1
        <5>3. r \in 1 .. x /\ q = a + r
          BY <4>3, <5>1
        <5>4. q \in 1 .. b
          BY <5>2, <5>3, SMTT(30)
        <5>5. Len(p) = b
          BY <2>3, <5>1
        <5> QED
          BY <5>4, <5>5
      <4> QED
        BY <2>3, <2>6, <4>1, <4>3, <4>4
    <3> QED
      BY <2>1, <3>1, <3>2
  <2>9. OK(i + 1)
    BY <2>2, <2>6, <2>7, <2>8 DEF OK
  <2> QED
    BY <2>0, <2>9
<1>9. S = Nat
  <2>1. S \in SUBSET Nat
    OBVIOUS
  <2> HIDE DEF S
  <2> QED
    BY <1>7, <1>8, <2>1, SetInduction
<1>10. OK(n)
  <2>1. n - 1 \in Nat /\ (n - 1) + 1 = n /\ n - 1 \in S
    <3> HIDE DEF S
    <3> QED
      BY <1>9
  <2> HIDE DEF OK
  <2> QED
    BY <2>1
<1>11. f \in Seq(T) /\ Len(f) = SumTo(lens, n)
  BY <1>3, <1>10
<1>12. Indexed(f, SumTo(lens, n))
  BY <1>11 DEF Indexed
<1> QED
  BY <1>3, <1>10, <1>12 DEF Joined
-----------------------------------------------------------------------------
(* Ragged parts.                                                           *)

(* Sums grow part by part.                                                 *)
LEMMA SumFacts ==
  ASSUME NEW lens \in Seq(Nat)
  PROVE  /\ SumTo(lens, 0) = 0
         /\ \A i \in 0 .. Len(lens) : SumTo(lens, i) \in Nat
         /\ \A i \in 1 .. Len(lens) :
              lens[i] \in Nat /\ SumTo(lens, i) = SumTo(lens, i - 1) + lens[i]
         /\ \A i, j \in 0 .. Len(lens) : i <= j => SumTo(lens, i) <= SumTo(lens, j)
<1>1. \A i \in 1 .. Len(lens) :
        lens[i] \in Nat /\ SumTo(lens, i) = SumTo(lens, i - 1) + lens[i]
  <2> SUFFICES ASSUME NEW i \in 1 .. Len(lens)
               PROVE  lens[i] \in Nat /\ SumTo(lens, i) = SumTo(lens, i - 1) + lens[i]
    OBVIOUS
  <2>1. i - 1 \in Nat /\ (i - 1) + 1 = i /\ lens[i] \in Nat
    OBVIOUS
  <2>2. SumTo(lens, (i - 1) + 1) = SumTo(lens, i - 1) + lens[(i - 1) + 1]
    BY <2>1, SumStep
  <2> QED
    BY <2>1, <2>2
<1> QED
  BY <1>1, SumStep, SumType

(* Every row of a concatenation is in one part ...                         *)
LEMMA PartExists ==
  ASSUME NEW lens \in Seq(Nat), NEW k \in 1 .. SumTo(lens, Len(lens))
  PROVE  \E i \in 1 .. Len(lens) : \E r \in 1 .. lens[i] : k = SumTo(lens, i - 1) + r
<1> DEFINE n == Len(lens)
           S == {i \in Nat : i <= n /\ k <= SumTo(lens, i)}
<1>1. PICK i \in S : \A j \in S : i <= j
  <2>1. n \in S /\ S \in SUBSET Nat
    OBVIOUS
  <2> HIDE DEF S
  <2> QED
    BY <2>1, LeastNatural
<1>2. i \in 1 .. n /\ k <= SumTo(lens, i)
  <2>1. i # 0
    BY SumFacts
  <2> QED
    BY <2>1
<1>3. i - 1 \in 0 .. n /\ ~(k <= SumTo(lens, i - 1))
  <2>1. i - 1 \notin S
    <3> HIDE DEF S
    <3>1. i \in Nat
      BY <1>2
    <3> QED
      BY <1>1, <3>1
  <2> QED
    BY <1>2, <2>1
<1>4. SumTo(lens, i) = SumTo(lens, i - 1) + lens[i] /\ lens[i] \in Nat /\ SumTo(lens, i - 1) \in Nat
  BY <1>2, <1>3, SumFacts
<1>5. PICK a : a = SumTo(lens, i - 1)
  OBVIOUS
<1>6. k - a \in 1 .. lens[i] /\ k = a + (k - a)
  BY <1>2, <1>3, <1>4, <1>5
<1> QED
  BY <1>2, <1>5, <1>6

(* ... and a later part comes later, ...                                   *)
LEMMA PartsInOrder ==
  ASSUME NEW lens \in Seq(Nat), NEW a \in 1 .. Len(lens), NEW b \in 1 .. Len(lens), a < b,
         NEW x \in 1 .. lens[a], NEW y \in 1 .. lens[b]
  PROVE  SumTo(lens, a - 1) + x < SumTo(lens, b - 1) + y
<1>1. a \in 0 .. Len(lens) /\ b - 1 \in 0 .. Len(lens) /\ a <= b - 1 /\ a - 1 \in 0 .. Len(lens)
  OBVIOUS
<1>2. PICK p, q, w, z : p = SumTo(lens, a - 1) /\ q = SumTo(lens, b - 1) /\ w = lens[a] /\ z = lens[b]
  OBVIOUS
<1>3. p + w <= q /\ p \in Nat /\ q \in Nat /\ w \in Nat /\ z \in Nat
  BY <1>1, <1>2, SumFacts
<1>4. x \in 1 .. w /\ y \in 1 .. z
  BY <1>2
<1>5. p + x < q + y
  BY <1>3, <1>4
<1> QED
  BY <1>2, <1>5

(* ... so that it is in only one.                                          *)
LEMMA PartUnique ==
  ASSUME NEW lens \in Seq(Nat), NEW i \in 1 .. Len(lens), NEW j \in 1 .. Len(lens),
         NEW r \in 1 .. lens[i], NEW s \in 1 .. lens[j],
         SumTo(lens, i - 1) + r = SumTo(lens, j - 1) + s
  PROVE  i = j /\ r = s
<1>2. /\ SumTo(lens, i - 1) \in Nat /\ SumTo(lens, j - 1) \in Nat
      /\ lens[i] \in Nat /\ lens[j] \in Nat
  <2>1. i - 1 \in 0 .. Len(lens) /\ j - 1 \in 0 .. Len(lens)
    OBVIOUS
  <2> QED
    BY <2>1, SumFacts
<1>3. ~(i < j)
  <2> SUFFICES ASSUME i < j PROVE FALSE
    OBVIOUS
  <2>1. SumTo(lens, i - 1) + r < SumTo(lens, j - 1) + s
    BY PartsInOrder
  <2> QED
    BY <1>2, <2>1
<1>4. ~(j < i)
  <2> SUFFICES ASSUME j < i PROVE FALSE
    OBVIOUS
  <2>1. SumTo(lens, j - 1) + s < SumTo(lens, i - 1) + r
    BY PartsInOrder
  <2> QED
    BY <1>2, <2>1
<1>5. i = j
  BY <1>3, <1>4
<1> QED
  BY <1>2, <1>5

(* Parts of one length.                                                    *)
LEMMA EqualParts ==
  ASSUME NEW c \in Nat, NEW lens \in Seq(Nat), \A i \in 1 .. Len(lens) : lens[i] = c
  PROVE  \A i \in 0 .. Len(lens) : SumTo(lens, i) = i * c
<1> DEFINE S == {i \in Nat : i <= Len(lens) => SumTo(lens, i) = i * c}
<1>1. 0 \in S
  <2>1. 0 * c = 0
    OBVIOUS
  <2> QED
    BY <2>1, SumFacts
<1>2. ASSUME NEW i \in Nat, i \in S PROVE i + 1 \in S
  <2> SUFFICES ASSUME i + 1 <= Len(lens) PROVE SumTo(lens, i + 1) = (i + 1) * c
    OBVIOUS
  <2>1. SumTo(lens, i) = i * c /\ i * c \in Nat
    BY <1>2
  <2>2. SumTo(lens, i + 1) = SumTo(lens, i) + lens[i + 1] /\ lens[i + 1] = c
    <3>1. i + 1 \in 1 .. Len(lens)
      OBVIOUS
    <3> QED
      BY <3>1, SumStep
  <2>3. (i + 1) * c = i * c + c
    OBVIOUS
  <2> QED
    BY <2>1, <2>2, <2>3
<1>3. S = Nat
  <2>1. S \in SUBSET Nat
    OBVIOUS
  <2> HIDE DEF S
  <2> QED
    BY <1>1, <1>2, <2>1, SetInduction
<1> QED
  BY <1>3

(* Parts of at most c rows that fill n times c rows have c rows each.      *)
LEMMA FullParts ==
  ASSUME NEW c \in Nat, NEW lens \in Seq(Nat), \A i \in 1 .. Len(lens) : lens[i] <= c,
         SumTo(lens, Len(lens)) = Len(lens) * c
  PROVE  \A i \in 1 .. Len(lens) : lens[i] = c
<1> DEFINE n == Len(lens)
<1>1. n \in Nat
  OBVIOUS
<1>2. ASSUME NEW j \in 1 .. n, lens[j] < c PROVE FALSE
  <2> DEFINE S == {i \in Nat : i <= n => SumTo(lens, i) <= i * c /\ (i >= j => SumTo(lens, i) < i * c)}
  <2>1. 0 \in S
    <3>1. 0 * c = 0
      OBVIOUS
    <3> QED
      BY <3>1, SumFacts
  <2>2. ASSUME NEW i \in Nat, i \in S PROVE i + 1 \in S
    <3> SUFFICES ASSUME i + 1 <= n
                 PROVE  /\ SumTo(lens, i + 1) <= (i + 1) * c
                        /\ i + 1 >= j => SumTo(lens, i + 1) < (i + 1) * c
      OBVIOUS
    <3>1. i + 1 \in 1 .. n /\ (i + 1) - 1 = i /\ i \in 0 .. n
      BY <1>1
    <3>2. SumTo(lens, i + 1) = SumTo(lens, i) + lens[i + 1] /\ lens[i + 1] <= c
          /\ lens[i + 1] \in Nat /\ SumTo(lens, i) \in Nat
      BY <3>1, SumFacts
    <3>3. (i + 1) * c = i * c + c /\ i * c \in Nat
      OBVIOUS
    <3>4. SumTo(lens, i) <= i * c /\ (i >= j => SumTo(lens, i) < i * c)
      BY <2>2, <3>1
    <3>5. CASE i >= j
      BY <3>2, <3>3, <3>4, <3>5, SMTT(30)
    <3>6. CASE i + 1 = j
      BY <1>2, <3>2, <3>3, <3>4, <3>6
    <3>7. CASE i + 1 < j
      BY <3>2, <3>3, <3>4, <3>7, SMTT(30)
    <3> QED
      BY <3>5, <3>6, <3>7
  <2>3. S = Nat
    <3>1. S \in SUBSET Nat
      OBVIOUS
    <3> HIDE DEF S
    <3> QED
      BY <2>1, <2>2, <3>1, SetInduction
  <2>4. SumTo(lens, n) < n * c /\ n * c \in Nat
    BY <1>1, <2>3
  <2> QED
    BY <2>4
<1> QED
  BY <1>2
-----------------------------------------------------------------------------
(* A step.                                                                 *)

(* md describes a step of n members: M[i] has C[i] tokens in the cache and *)
(* computes Q[i] more.                                                     *)
Shape(n, md, M, C, Q) ==
  /\ n \in Nat \ {0} /\ Q \in Seq(Nat) /\ Len(Q) = n
  /\ \A i \in 1 .. n : Q[i] \in Nat \ {0} /\ C[i] \in Nat
  /\ Batch(md) = n
  /\ \A i \in 0 .. n : md.cuQ[i] = SumTo(Q, i)
  /\ \A i \in 1 .. n : LenIn(md.cuK, i) = C[i] + Q[i]
  /\ md.maxQ \in Nat /\ md.maxK \in Nat
  /\ \A i \in 1 .. n : Q[i] <= md.maxQ /\ C[i] + Q[i] <= md.maxK
  /\ Len(md.slots) = SumTo(Q, n)
  /\ ~Paged(md) => md.maxK = md.maxQ /\ \A i \in 1 .. n : C[i] = 0
  /\ Paged(md) => \A i \in 1 .. n : md.table[i] = Tables[M[i]]

(* The rows of the step, member after member.                              *)
RowsShape(n, rows, M, C, Q) ==
  /\ Indexed(rows, SumTo(Q, n))
  /\ \A i \in 1 .. n : \A r \in 1 .. Q[i] :
       rows[SumTo(Q, i - 1) + r] = <<M[i], C[i] + r - 1>>

(* The lengths the metadata give for the queries.                          *)
LEMMA QueryLengths ==
  ASSUME NEW n, NEW md, NEW M, NEW C, NEW Q, Shape(n, md, M, C, Q), NEW i \in 1 .. n
  PROVE  LenIn(md.cuQ, i) = Q[i]
<1>1. n \in Nat /\ i \in 0 .. n /\ i - 1 \in 0 .. n /\ Q \in Seq(Nat) /\ Len(Q) = n
  BY DEF Shape
<1>2. md.cuQ[i] = SumTo(Q, i) /\ md.cuQ[i - 1] = SumTo(Q, i - 1)
  BY <1>1 DEF Shape
<1>3. SumTo(Q, i) = SumTo(Q, i - 1) + Q[i] /\ SumTo(Q, i - 1) \in Nat /\ Q[i] \in Nat
  BY <1>1, SumFacts
<1> QED
  BY <1>2, <1>3 DEF LenIn

(* The rows of one member.                                                 *)
LEMMA PartShape ==
  ASSUME NEW n, NEW md, NEW M, NEW C, NEW Q, Shape(n, md, M, C, Q),
         NEW rows, RowsShape(n, rows, M, C, Q), NEW i \in 1 .. n
  PROVE  Part(md, rows, i) = [r \in 1 .. Q[i] |-> <<M[i], C[i] + r - 1>>]
<1>1. n \in Nat /\ i \in 0 .. n /\ i - 1 \in 0 .. n /\ Q \in Seq(Nat) /\ Len(Q) = n
  BY DEF Shape
<1>2. PICK a : a = SumTo(Q, i - 1)
  OBVIOUS
<1>3. md.cuQ[i] = a + Q[i] /\ md.cuQ[i - 1] = a /\ a \in Nat /\ Q[i] \in Nat
  <2>1. md.cuQ[i] = SumTo(Q, i) /\ md.cuQ[i - 1] = SumTo(Q, i - 1)
    BY <1>1 DEF Shape
  <2>2. SumTo(Q, i) = SumTo(Q, i - 1) + Q[i] /\ SumTo(Q, i - 1) \in Nat /\ Q[i] \in Nat
    BY <1>1, SumFacts
  <2> QED
    BY <1>2, <2>1, <2>2
<1>4. Part(md, rows, i) = [r \in 1 .. (a + Q[i]) - (a + 1) + 1 |-> rows[r + (a + 1) - 1]]
  BY <1>3 DEF Part, SubSeq
<1>5. (a + Q[i]) - (a + 1) + 1 = Q[i] /\ \A r \in 1 .. Q[i] : r + (a + 1) - 1 = a + r
  BY <1>3
<1>6. \A r \in 1 .. Q[i] : rows[a + r] = <<M[i], C[i] + r - 1>>
  BY <1>2 DEF RowsShape
<1>7. Part(md, rows, i) = [r \in 1 .. Q[i] |-> rows[r + (a + 1) - 1]]
  BY <1>4, <1>5
<1> QED
  BY <1>5, <1>6, <1>7

(* Zeros before a sequence.                                                *)
LEMMA ZeroPadding ==
  ASSUME NEW a \in Nat, NEW b \in Nat, NEW p, Indexed(p, b),
         NEW f, f = [z \in 1 .. a |-> Zero] \o p
  PROVE  Indexed(f, a + b) /\ \A z \in 1 .. a + b : f[z] = IF z > a THEN p[z - a] ELSE Zero
<1>1. PICK T : T = {Zero} \cup {p[k] : k \in 1 .. b}
  OBVIOUS
<1>2. PICK s : s = [z \in 1 .. a |-> Zero]
  OBVIOUS
<1>3. /\ f = s \o p /\ s \in Seq(T) /\ Len(s) = a /\ p \in Seq(T) /\ Len(p) = b
      /\ \A z \in 1 .. a : s[z] = Zero
  <2>1. Zero \in T /\ \A k \in 1 .. b : p[k] \in T
    BY <1>1
  <2>2. s \in Seq(T) /\ Len(s) = a /\ \A z \in 1 .. a : s[z] = Zero
    BY <1>2, <2>1
  <2>3. p = [k \in 1 .. b |-> p[k]]
    BY DEF Indexed
  <2>4. p \in Seq(T) /\ Len(p) = b
    BY <2>1, <2>3
  <2> QED
    BY <1>2, <2>2, <2>4
<1>5. /\ f \in Seq(T) /\ Len(f) = a + b
      /\ \A k \in 1 .. a : f[k] = s[k]
      /\ \A k \in 1 .. b : f[a + k] = p[k]
  <2>1. /\ s \o p \in Seq(T) /\ Len(s \o p) = Len(s) + Len(p)
        /\ \A k \in 1 .. Len(s) : (s \o p)[k] = s[k]
        /\ \A k \in 1 .. Len(p) : (s \o p)[Len(s) + k] = p[k]
    <3>1. s \in Seq(T) /\ p \in Seq(T)
      BY <1>3
    <3> QED
      BY <3>1, ConcatParts
  <2> QED
    BY <1>3, <2>1
<1>4. ASSUME NEW z \in 1 .. a + b PROVE f[z] = IF z > a THEN p[z - a] ELSE Zero
  <2>1. CASE z > a
    <3>1. z - a \in 1 .. b /\ a + (z - a) = z
      BY <2>1
    <3> QED
      BY <1>5, <2>1, <3>1
  <2>2. CASE ~(z > a)
    BY <1>3, <1>5, <2>2
  <2> QED
    BY <2>1, <2>2
<1> QED
  BY <1>4, <1>5 DEF Indexed

(* A row of the rectangle: padding first, then the rows of the member.     *)
Slot(md, M, C, Q, i, z) ==
  IF z > md.maxQ - Q[i] THEN <<M[i], C[i] + (z - (md.maxQ - Q[i])) - 1>> ELSE Zero

(* The rows of the rectangle, padded or full.                              *)
LEMMA PadShape ==
  ASSUME NEW n, NEW md, NEW M, NEW C, NEW Q, Shape(n, md, M, C, Q),
         NEW rows, RowsShape(n, rows, M, C, Q), NEW plan, plan.rect,
         NEW PQ, PQ = PadQueries(md, plan, rows)
  PROVE  /\ Indexed(PQ, n * md.maxQ)
         /\ \A i \in 1 .. n : \A z \in 1 .. md.maxQ :
              PQ[(i - 1) * md.maxQ + z] = Slot(md, M, C, Q, i, z)
<1>1. PICK w : w = md.maxQ
  OBVIOUS
<1>2. /\ n \in Nat \ {0} /\ Q \in Seq(Nat) /\ Len(Q) = n /\ w \in Nat /\ Batch(md) = n
      /\ \A i \in 1 .. n : Q[i] \in Nat \ {0} /\ Q[i] <= w /\ C[i] \in Nat
      /\ Len(md.slots) = SumTo(Q, n)
  BY <1>1 DEF Shape
<1>3. CASE Padded(md, plan)
  <2> DEFINE ss == [i \in 1 .. n |-> [z \in 1 .. w - Q[i] |-> Zero] \o Part(md, rows, i)]
             lens == [i \in 1 .. n |-> w]
  <2>1. PQ = FlattenSeq(ss)
    <3>1. \A i \in 1 .. n : LenIn(md.cuQ, i) = Q[i]
      BY QueryLengths
    <3>2. ss = [i \in 1 .. Batch(md) |->
                 [z \in 1 .. md.maxQ - LenIn(md.cuQ, i) |-> Zero] \o Part(md, rows, i)]
      BY <1>1, <1>2, <3>1
    <3> HIDE DEF ss
    <3> QED
      BY <1>3, <3>2 DEF PadQueries
  <2>2. ASSUME NEW i \in 1 .. n
        PROVE  Indexed(ss[i], w) /\ \A z \in 1 .. w : ss[i][z] = Slot(md, M, C, Q, i, z)
    <3>1. PICK p : p = Part(md, rows, i)
      OBVIOUS
    <3>2. Indexed(p, Q[i]) /\ \A r \in 1 .. Q[i] : p[r] = <<M[i], C[i] + r - 1>>
      <4>1. p = [r \in 1 .. Q[i] |-> <<M[i], C[i] + r - 1>>]
        <5>1. Part(md, rows, i) = [r \in 1 .. Q[i] |-> <<M[i], C[i] + r - 1>>]
          BY PartShape
        <5> QED
          BY <3>1, <5>1
      <4> QED
        BY <4>1 DEF Indexed
    <3>3. PICK a : a = w - Q[i]
      OBVIOUS
    <3>4. a \in Nat /\ Q[i] \in Nat /\ a + Q[i] = w
      <4>1. Q[i] \in Nat /\ Q[i] <= w /\ w \in Nat
        BY <1>2
      <4> QED
        BY <3>3, <4>1
    <3>5. PICK f : f = ss[i]
      OBVIOUS
    <3>6. f = [z \in 1 .. a |-> Zero] \o p
      BY <3>1, <3>3, <3>5
    <3>7. Indexed(f, a + Q[i]) /\ \A z \in 1 .. a + Q[i] : f[z] = IF z > a THEN p[z - a] ELSE Zero
      <4>1. PICK q : q = Q[i]
        OBVIOUS
      <4>2. a \in Nat /\ q \in Nat /\ Indexed(p, q)
        BY <3>2, <3>4, <4>1
      <4>3. Indexed(f, a + q) /\ \A z \in 1 .. a + q : f[z] = IF z > a THEN p[z - a] ELSE Zero
        BY <3>6, <4>2, ZeroPadding, Zenon
      <4> QED
        BY <4>1, <4>3
    <3>8. ASSUME NEW z \in 1 .. w PROVE f[z] = Slot(md, M, C, Q, i, z)
      <4>1. z > a => z - a \in 1 .. Q[i]
        BY <3>4
      <4> QED
        BY <1>1, <3>2, <3>3, <3>4, <3>7, <4>1 DEF Slot
    <3> QED
      BY <3>4, <3>5, <3>7, <3>8
  <2>3. Indexed(ss, n)
    BY DEF Indexed
  <2>4. lens \in Seq(Nat) /\ Len(lens) = n /\ \A i \in 1 .. n : lens[i] = w
    BY <1>2
  <2> HIDE DEF ss, lens
  <2>5. /\ Indexed(PQ, SumTo(lens, n))
        /\ \A i \in 1 .. n : \A r \in 1 .. lens[i] : PQ[SumTo(lens, i - 1) + r] = ss[i][r]
    <3>1. Parts(n, ss, lens)
      BY <1>2, <2>2, <2>3, <2>4 DEF Parts
    <3> QED
      BY <2>1, <3>1, FlattenProperties DEF Joined
  <2>6. \A i \in 0 .. n : SumTo(lens, i) = i * w
    BY <1>2, <2>4, EqualParts
  <2>7. ASSUME NEW i \in 1 .. n, NEW z \in 1 .. w
        PROVE  PQ[(i - 1) * w + z] = Slot(md, M, C, Q, i, z)
    <3>1. i - 1 \in 0 .. n /\ z \in 1 .. lens[i]
      BY <1>2, <2>4
    <3> QED
      BY <2>2, <2>5, <2>6, <3>1
  <2>8. Indexed(PQ, n * w)
    <3>1. n \in 0 .. n
      BY <1>2
    <3> QED
      BY <2>5, <2>6, <3>1
  <2> QED
    BY <1>1, <2>7, <2>8
<1>4. CASE ~Padded(md, plan)
  <2>1. PQ = rows /\ n * w = SumTo(Q, n)
    BY <1>1, <1>2, <1>4 DEF PadQueries, Padded
  <2>2. \A i \in 1 .. n : Q[i] = w
    BY <1>2, <2>1, FullParts
  <2>3. \A i \in 0 .. n : SumTo(Q, i) = i * w
    BY <1>2, <2>2, EqualParts
  <2>4. Indexed(PQ, n * w)
    BY <2>1 DEF RowsShape
  <2>5. ASSUME NEW i \in 1 .. n, NEW z \in 1 .. w
        PROVE  PQ[(i - 1) * w + z] = Slot(md, M, C, Q, i, z)
    <3>1. i - 1 \in 0 .. n /\ z \in 1 .. Q[i]
      BY <1>2, <2>2
    <3>2. PQ[(i - 1) * w + z] = <<M[i], C[i] + z - 1>>
      BY <2>1, <2>3, <3>1 DEF RowsShape
    <3>3. z > w - Q[i] /\ z - (w - Q[i]) = z
      BY <1>2, <2>2
    <3> QED
      BY <1>1, <3>2, <3>3 DEF Slot
  <2> QED
    BY <1>1, <2>4, <2>5
<1> QED
  BY <1>3, <1>4
-----------------------------------------------------------------------------
(* Removing the padding.                                                   *)

(* The rows of the rectangle that are not padding, in order.               *)
LEMMA RealRowsShape ==
  ASSUME NEW n, NEW md, NEW M, NEW C, NEW Q, Shape(n, md, M, C, Q),
         NEW RR, RR = RealRows(md)
  PROVE  /\ Indexed(RR, SumTo(Q, n))
         /\ \A i \in 1 .. n : \A r \in 1 .. Q[i] :
              RR[SumTo(Q, i - 1) + r] = i * md.maxQ - Q[i] + r
<1> DEFINE ss == [i \in 1 .. n |-> [r \in 1 .. Q[i] |-> i * md.maxQ - Q[i] + r]]
<1>1. /\ n \in Nat \ {0} /\ Q \in Seq(Nat) /\ Len(Q) = n /\ Batch(md) = n
  BY DEF Shape
<1>2. RR = FlattenSeq(ss)
  <2>1. \A i \in 1 .. n : LenIn(md.cuQ, i) = Q[i]
    BY QueryLengths
  <2>2. ss = [i \in 1 .. Batch(md) |->
               [r \in 1 .. LenIn(md.cuQ, i) |-> i * md.maxQ - LenIn(md.cuQ, i) + r]]
    BY <1>1, <2>1
  <2> HIDE DEF ss
  <2> QED
    BY <2>2 DEF RealRows
<1>3. Parts(n, ss, Q)
  BY <1>1 DEF Parts, Indexed
<1>4. \A i \in 1 .. n : \A r \in 1 .. Q[i] : ss[i][r] = i * md.maxQ - Q[i] + r
  OBVIOUS
<1> HIDE DEF ss
<1>5. Joined(n, ss, Q, RR)
  BY <1>2, <1>3, FlattenProperties
<1> QED
  BY <1>4, <1>5 DEF Joined

(* Unpadding takes the last rows of each member's part of the rectangle.   *)
LEMMA UnpadShape ==
  ASSUME NEW n, NEW md, NEW M, NEW C, NEW Q, Shape(n, md, M, C, Q), NEW plan, plan.rect,
         NEW PQ, Indexed(PQ, n * md.maxQ), NEW U, U = UnpadQueries(md, plan, PQ)
  PROVE  /\ Indexed(U, SumTo(Q, n))
         /\ \A i \in 1 .. n : \A r \in 1 .. Q[i] :
              U[SumTo(Q, i - 1) + r] = PQ[(i - 1) * md.maxQ + (md.maxQ - Q[i] + r)]
<1>1. PICK w : w = md.maxQ
  OBVIOUS
<1>2. /\ n \in Nat \ {0} /\ Q \in Seq(Nat) /\ Len(Q) = n /\ w \in Nat /\ Batch(md) = n
      /\ \A i \in 1 .. n : Q[i] \in Nat \ {0} /\ Q[i] <= w
      /\ Len(md.slots) = SumTo(Q, n)
  BY <1>1 DEF Shape
<1>3. CASE Padded(md, plan)
  <2>1. PICK RR : RR = RealRows(md)
    OBVIOUS
  <2>2. /\ Indexed(RR, SumTo(Q, n))
        /\ \A i \in 1 .. n : \A r \in 1 .. Q[i] : RR[SumTo(Q, i - 1) + r] = i * w - Q[i] + r
    BY <1>1, <2>1, RealRowsShape
  <2>3. DOMAIN RR = 1 .. SumTo(Q, n)
    BY <2>2 DEF Indexed
  <2>4. U = [k \in 1 .. SumTo(Q, n) |-> PQ[RR[k]]]
    BY <1>3, <2>1, <2>3 DEF UnpadQueries
  <2>5. ASSUME NEW i \in 1 .. n, NEW r \in 1 .. Q[i]
        PROVE  U[SumTo(Q, i - 1) + r] = PQ[(i - 1) * w + (w - Q[i] + r)]
    <3>1. PICK k : k = SumTo(Q, i - 1) + r
      OBVIOUS
    <3>2. k \in 1 .. SumTo(Q, n)
      <4>1. /\ SumTo(Q, i - 1) \in Nat /\ SumTo(Q, i) = SumTo(Q, i - 1) + Q[i]
            /\ SumTo(Q, i) <= SumTo(Q, n) /\ SumTo(Q, n) \in Nat /\ Q[i] \in Nat
        <5>1. i - 1 \in 0 .. n /\ i \in 0 .. n /\ n \in 0 .. n /\ i <= n
          BY <1>2
        <5> QED
          BY <1>2, <5>1, SumFacts
      <4> QED
        BY <3>1, <4>1
    <3>3. RR[k] = i * w - Q[i] + r
      BY <2>2, <3>1
    <3>4. i * w - Q[i] + r = (i - 1) * w + (w - Q[i] + r)
      <4>1. (i - 1) * w = i * w - w
        BY <1>2
      <4>2. PICK a : a = i * w
        OBVIOUS
      <4>3. a \in Int /\ Q[i] \in Int /\ r \in Int /\ w \in Int
        BY <1>2, <4>2
      <4> QED
        BY <4>1, <4>2, <4>3
    <3> QED
      BY <2>4, <3>1, <3>2, <3>3, <3>4
  <2>6. Indexed(U, SumTo(Q, n))
    BY <2>4 DEF Indexed
  <2> QED
    BY <1>1, <2>5, <2>6
<1>4. CASE ~Padded(md, plan)
  <2>1. U = PQ /\ n * w = SumTo(Q, n)
    BY <1>1, <1>2, <1>4 DEF UnpadQueries, Padded
  <2>2. \A i \in 1 .. n : Q[i] = w
    BY <1>2, <2>1, FullParts
  <2>3. \A i \in 0 .. n : SumTo(Q, i) = i * w
    BY <1>2, <2>2, EqualParts
  <2>4. ASSUME NEW i \in 1 .. n, NEW r \in 1 .. Q[i]
        PROVE  U[SumTo(Q, i - 1) + r] = PQ[(i - 1) * w + (w - Q[i] + r)]
    <3>1. i - 1 \in 0 .. n /\ w - Q[i] + r = r
      BY <1>2, <2>2
    <3> QED
      BY <2>1, <2>3, <3>1
  <2> QED
    BY <1>1, <2>1, <2>4
<1> QED
  BY <1>3, <1>4

(* Padding and unpadding the rows of a step gives them back.               *)
LEMMA UnpadPad ==
  ASSUME NEW n, NEW md, NEW M, NEW C, NEW Q, Shape(n, md, M, C, Q),
         NEW rows, RowsShape(n, rows, M, C, Q), NEW plan
  PROVE  UnpadQueries(md, plan, PadQueries(md, plan, rows)) = rows
<1>1. CASE ~plan.rect
  BY <1>1 DEF UnpadQueries, PadQueries, Padded
<1>2. CASE plan.rect
  <2>1. PICK w, PQ, U : w = md.maxQ /\ PQ = PadQueries(md, plan, rows) /\ U = UnpadQueries(md, plan, PQ)
    OBVIOUS
  <2>2. /\ n \in Nat \ {0} /\ Q \in Seq(Nat) /\ Len(Q) = n /\ w \in Nat
        /\ \A i \in 1 .. n : Q[i] \in Nat \ {0} /\ Q[i] <= w /\ C[i] \in Nat
    BY <2>1 DEF Shape
  <2>3. /\ Indexed(PQ, n * w)
        /\ \A i \in 1 .. n : \A z \in 1 .. w : PQ[(i - 1) * w + z] = Slot(md, M, C, Q, i, z)
    BY <1>2, <2>1, PadShape
  <2>4. /\ Indexed(U, SumTo(Q, n))
        /\ \A i \in 1 .. n : \A r \in 1 .. Q[i] :
             U[SumTo(Q, i - 1) + r] = PQ[(i - 1) * w + (w - Q[i] + r)]
    BY <1>2, <2>1, <2>3, UnpadShape
  <2>5. ASSUME NEW i \in 1 .. n, NEW r \in 1 .. Q[i]
        PROVE  U[SumTo(Q, i - 1) + r] = rows[SumTo(Q, i - 1) + r]
    <3>1. PICK z : z = w - Q[i] + r
      OBVIOUS
    <3>2. z \in 1 .. w /\ z > w - Q[i] /\ z - (w - Q[i]) = r
      <4>1. Q[i] \in Nat /\ Q[i] <= w /\ w \in Nat
        BY <2>2
      <4> QED
        BY <3>1, <4>1
    <3>3. U[SumTo(Q, i - 1) + r] = Slot(md, M, C, Q, i, z)
      BY <2>3, <2>4, <3>1, <3>2
    <3>4. Slot(md, M, C, Q, i, z) = <<M[i], C[i] + r - 1>>
      BY <2>1, <3>2 DEF Slot
    <3> QED
      BY <3>3, <3>4 DEF RowsShape
  <2>6. ASSUME NEW k \in 1 .. SumTo(Q, n) PROVE U[k] = rows[k]
    <3>1. PICK i \in 1 .. n : \E r \in 1 .. Q[i] : k = SumTo(Q, i - 1) + r
      BY <2>2, PartExists
    <3> QED
      BY <2>5, <3>1
  <2>7. Indexed(rows, SumTo(Q, n))
    BY DEF RowsShape
  <2>8. U = rows
    BY <2>4, <2>6, <2>7 DEF Indexed
  <2> QED
    BY <2>1, <2>8
<1> QED
  BY <1>1, <1>2
-----------------------------------------------------------------------------
(* The query rows of a member, chunk by chunk.                             *)

(* The least number of chunks that hold L rows.                            *)
LEMMA ChunkCount ==
  ASSUME NEW L \in Nat \ {0}, NEW c \in Nat \ {0}, NEW N, N = DivCeil(L, c)
  PROVE  N \in Nat \ {0} /\ (N - 1) * c < L /\ L <= N * c
<1>1. PICK a : a = L + c - 1
  OBVIOUS
<1>2. a \in Nat
  BY <1>1
<1>3. N = a \div c
  BY <1>1 DEF DivCeil
<1>4. N \in Nat /\ N * c <= a /\ a < (N + 1) * c
  BY <1>2, <1>3, DivProperties
<1>5. (N + 1) * c = N * c + c /\ (N - 1) * c = N * c - c /\ N * c \in Nat
  BY <1>4
<1>6. N # 0
  <2> SUFFICES ASSUME N = 0 PROVE FALSE
    OBVIOUS
  <2>1. (N + 1) * c = c
    OBVIOUS
  <2> QED
    BY <1>1, <1>4, <2>1
<1>7. PICK b : b = N * c
  OBVIOUS
<1>8. b \in Nat /\ b <= a /\ a < b + c /\ (N - 1) * c = b - c
  BY <1>4, <1>5, <1>7
<1>9. b - c < L /\ L <= b
  BY <1>1, <1>8
<1> QED
  BY <1>4, <1>6, <1>7, <1>8, <1>9

(* The rows of the k-th chunk.                                             *)
Chunk(L, c, k) == IF L - (k - 1) * c <= c THEN L - (k - 1) * c ELSE c

(* L rows in N chunks of c rows, the last one of the rest.                 *)
Chunks(L, c, N, lens) ==
  /\ L \in Nat \ {0} /\ c \in Nat \ {0} /\ N = DivCeil(L, c)
  /\ lens = [k \in 1 .. N |-> Chunk(L, c, k)]

(* The chunks before the k-th are full.                                    *)
LEMMA ChunkSums ==
  ASSUME NEW L, NEW c, NEW N, NEW lens, Chunks(L, c, N, lens)
  PROVE  /\ lens \in Seq(Nat) /\ Len(lens) = N /\ N \in Nat \ {0}
         /\ \A k \in 1 .. N : SumTo(lens, k - 1) = (k - 1) * c
         /\ SumTo(lens, N) = L
<1> SUFFICES ASSUME L \in Nat \ {0}, c \in Nat \ {0}, N = DivCeil(L, c),
                    lens = [k \in 1 .. N |-> Chunk(L, c, k)]
             PROVE  /\ lens \in Seq(Nat) /\ Len(lens) = N /\ N \in Nat \ {0}
                    /\ \A k \in 1 .. N : SumTo(lens, k - 1) = (k - 1) * c
                    /\ SumTo(lens, N) = L
  BY DEF Chunks
<1>1. N \in Nat \ {0} /\ (N - 1) * c < L /\ L <= N * c
  BY ChunkCount
<1>2. ASSUME NEW k \in 1 .. N
      PROVE  /\ (k - 1) * c \in Nat /\ (k - 1) * c < L
             /\ k < N => (k - 1) * c + c < L
             /\ k = N => L - (k - 1) * c <= c
  <2>1. /\ k - 1 \in Nat /\ N - 1 \in Nat
        /\ (k - 1) * c \in Nat /\ (N - 1) * c \in Nat /\ N * c = (N - 1) * c + c
    BY <1>1
  <2>2. k < N => (k - 1) * c + c <= (N - 1) * c
    <3> SUFFICES ASSUME k < N PROVE (k - 1) * c + c <= (N - 1) * c
      OBVIOUS
    <3>1. PICK x, y : x = k - 1 /\ y = N - 1
      OBVIOUS
    <3>2. x \in Nat /\ y \in Nat /\ x < y
      BY <1>1, <2>1, <3>1
    <3>3. x * c + c <= y * c
      BY <3>2, ProductMonotone
    <3> QED
      BY <3>1, <3>3
  <2>3. k = N => (k - 1) * c = (N - 1) * c
    OBVIOUS
  <2>4. PICK x, y, z : x = (k - 1) * c /\ y = (N - 1) * c /\ z = N * c
    OBVIOUS
  <2>5. /\ x \in Nat /\ y \in Nat /\ z = y + c /\ (k < N => x + c <= y) /\ (k = N => x = y)
        /\ y < L /\ L <= z
    BY <1>1, <2>1, <2>2, <2>3, <2>4
  <2>6. k < N \/ k = N
    BY <1>1
  <2>7. x < L /\ (k < N => x + c < L) /\ (k = N => L - x <= c)
    BY <2>5, <2>6
  <2> QED
    BY <2>4, <2>5, <2>7
<1>3. \A k \in 1 .. N : lens[k] \in Nat /\ lens[k] = Chunk(L, c, k)
  BY <1>2 DEF Chunk
<1>4. lens \in Seq(Nat) /\ Len(lens) = N
  BY <1>1, <1>3
<1> DEFINE S == {k \in Nat : k < N => SumTo(lens, k) = k * c}
<1>5. 0 \in S
  <2>1. 0 * c = 0
    OBVIOUS
  <2> QED
    BY <1>4, <2>1, SumFacts
<1>6. ASSUME NEW k \in Nat, k \in S PROVE k + 1 \in S
  <2> SUFFICES ASSUME k + 1 < N PROVE SumTo(lens, k + 1) = (k + 1) * c
    OBVIOUS
  <2>1. SumTo(lens, k) = k * c /\ k * c \in Nat /\ (k + 1) * c = k * c + c
    BY <1>1, <1>6
  <2>2. SumTo(lens, k + 1) = SumTo(lens, k) + lens[k + 1]
    BY <1>4, SumStep
  <2>3. lens[k + 1] = c
    <3>1. k + 1 \in 1 .. N /\ (k + 1) - 1 = k
      BY <1>1
    <3>2. PICK x : x = k * c
      OBVIOUS
    <3>3. x \in Nat /\ x + c < L /\ lens[k + 1] = IF L - x <= c THEN L - x ELSE c
      BY <1>2, <1>3, <2>1, <3>1, <3>2 DEF Chunk
    <3>4. ~(L - x <= c)
      BY <3>3
    <3> QED
      BY <3>3, <3>4
  <2> QED
    BY <2>1, <2>2, <2>3
<1>7. S = Nat
  <2>1. S \in SUBSET Nat
    OBVIOUS
  <2> HIDE DEF S
  <2> QED
    BY <1>5, <1>6, <2>1, SetInduction
<1>8. \A k \in 1 .. N : SumTo(lens, k - 1) = (k - 1) * c
  <2> SUFFICES ASSUME NEW k \in 1 .. N PROVE SumTo(lens, k - 1) = (k - 1) * c
    OBVIOUS
  <2>1. k - 1 \in Nat /\ k - 1 < N
    BY <1>1
  <2>2. k - 1 \in S
    <3> HIDE DEF S
    <3> QED
      BY <1>7, <2>1
  <2> QED
    BY <2>1, <2>2
<1>9. SumTo(lens, N) = L
  <2>1. N \in 1 .. N /\ N - 1 \in Nat /\ (N - 1) + 1 = N
    BY <1>1
  <2>2. SumTo(lens, N) = SumTo(lens, N - 1) + lens[N]
    BY <1>4, <2>1, SumFacts
  <2>3. PICK x : x = (N - 1) * c
    OBVIOUS
  <2>4. SumTo(lens, N - 1) = x /\ x \in Nat /\ L - x <= c /\ lens[N] = L - x
    BY <1>2, <1>3, <1>8, <2>1, <2>3 DEF Chunk
  <2> QED
    BY <2>2, <2>4
<1> QED
  BY <1>1, <1>4, <1>8, <1>9

(* Every row is masked as the row it is, whatever the chunks.              *)
LEMMA DenseShape ==
  ASSUME NEW L \in Nat \ {0}, NEW chunk \in Nat \ {0}, NEW q, Indexed(q, L),
         NEW md, NEW i, NEW kv, NEW keys, NEW D, D = Dense(md, i, q, kv, keys, chunk)
  PROVE  /\ Indexed(D, L)
         /\ \A r \in 1 .. L : D[r] = Attend(md, i, L, keys, r - 1, q[r], kv)
<1>1. Len(q) = L
  BY DEF Indexed
<1>2. PICK N : N = DivCeil(L, chunk)
  OBVIOUS
<1> DEFINE len == [k \in 1 .. N |-> Chunk(L, chunk, k)]
           parts == [k \in 1 .. N |-> [r \in 1 .. Chunk(L, chunk, k) |->
                      Attend(md, i, L, keys, (k - 1) * chunk + r - 1, q[(k - 1) * chunk + r], kv)]]
<1>3. PICK lens : lens = len
  OBVIOUS
<1>4. PICK ss : ss = parts
  OBVIOUS
<1>5. /\ \A k \in 1 .. N : lens[k] = Chunk(L, chunk, k)
      /\ \A k \in 1 .. N : ss[k] = [r \in 1 .. Chunk(L, chunk, k) |->
           Attend(md, i, L, keys, (k - 1) * chunk + r - 1, q[(k - 1) * chunk + r], kv)]
      /\ Indexed(ss, N)
  BY <1>3, <1>4 DEF Indexed
<1>6. D = FlattenSeq(ss)
  BY <1>1, <1>2, <1>4 DEF Dense, Chunk
<1> HIDE DEF parts
<1>7. /\ lens \in Seq(Nat) /\ Len(lens) = N /\ N \in Nat \ {0}
      /\ \A k \in 1 .. N : SumTo(lens, k - 1) = (k - 1) * chunk
      /\ SumTo(lens, N) = L
  <2>1. Chunks(L, chunk, N, lens)
    BY <1>2, <1>3 DEF Chunks
  <2> QED
    BY <2>1, ChunkSums
<1> HIDE DEF len
<1>8. Parts(N, ss, lens)
  <2>1. ASSUME NEW k \in 1 .. N PROVE Indexed(ss[k], lens[k])
    BY <1>5 DEF Indexed
  <2> QED
    BY <1>5, <1>7, <2>1 DEF Parts
<1>9. Joined(N, ss, lens, D)
  BY <1>6, <1>8, FlattenProperties
<1>10. Indexed(D, L)
  BY <1>7, <1>9 DEF Joined
<1>11. ASSUME NEW r \in 1 .. L PROVE D[r] = Attend(md, i, L, keys, r - 1, q[r], kv)
  <2>1. PICK k \in 1 .. N : \E x \in 1 .. lens[k] : r = SumTo(lens, k - 1) + x
    BY <1>7, PartExists
  <2>2. PICK x \in 1 .. lens[k] : r = SumTo(lens, k - 1) + x
    BY <2>1
  <2>3. r = (k - 1) * chunk + x
    BY <1>7, <2>2
  <2>4. D[r] = ss[k][x]
    BY <1>9, <2>2 DEF Joined
  <2>5. ss[k][x] = Attend(md, i, L, keys, (k - 1) * chunk + x - 1, q[(k - 1) * chunk + x], kv)
    BY <1>5
  <2> QED
    BY <2>3, <2>4, <2>5
<1> QED
  BY <1>10, <1>11

(* What a row of member m at position p computes: its own query against    *)
(* the entries of m up to p, through the key head of each query head.      *)
Exact(m, p) ==
  [query |-> <<m, p>>,
   keys |-> [h \in 0 .. QueryHeads - 1 |-> {<<<<m, j>>, KvHead(h)>> : j \in 0 .. p}]]

(* The last columns of kv are the entries of a member that has c tokens in *)
(* the cache and computes q more.                                          *)
Aligned(md, i, m, c, q, queries, keys, kv) ==
  /\ c \in Nat /\ q \in Nat \ {0} /\ queries \in Nat /\ keys \in Nat
  /\ LenIn(md.cuQ, i) = q /\ LenIn(md.cuK, i) = c + q
  /\ q <= queries /\ c + q <= keys
  /\ \A col \in 0 .. keys - 1 :
       col >= keys - (c + q) => kv[col] = <<m, col - (keys - (c + q))>>

(* A row of it sees exactly the entries up to its own position, however    *)
(* wide the padding.                                                       *)
LEMMA AttendExact ==
  ASSUME NEW md, NEW i, NEW m, NEW c, NEW q, NEW queries, NEW keys, NEW kv,
         Aligned(md, i, m, c, q, queries, keys, kv), NEW r \in 1 .. q
  PROVE  Attend(md, i, queries, keys, queries - q + r - 1, <<m, c + r - 1>>, kv)
           = Exact(m, c + r - 1)
<1> SUFFICES ASSUME
      c \in Nat, q \in Nat \ {0}, queries \in Nat, keys \in Nat,
      LenIn(md.cuQ, i) = q, LenIn(md.cuK, i) = c + q, q <= queries, c + q <= keys,
      \A col \in 0 .. keys - 1 :
        col >= keys - (c + q) => kv[col] = <<m, col - (keys - (c + q))>>
    PROVE Attend(md, i, queries, keys, queries - q + r - 1, <<m, c + r - 1>>, kv)
            = Exact(m, c + r - 1)
  BY DEF Aligned
<1>1. PICK query : query = queries - q + r - 1
  OBVIOUS
<1>2. PICK p, off : p = c + r - 1 /\ off = keys - (c + q)
  OBVIOUS
<1>3. p \in Nat /\ off \in Nat /\ query \in Nat /\ query >= queries - q /\ query < queries
  BY <1>1, <1>2
<1>4. PICK V : V = Visible(md, i, queries, keys, query)
  OBVIOUS
<1>5. V = {col \in 0 .. keys - 1 : col >= off /\ col <= keys - queries + query}
  BY <1>2, <1>3, <1>4 DEF Visible
<1>6. keys - queries + query = off + p
  BY <1>1, <1>2
<1>7. \A col \in V : col - off \in 0 .. p /\ kv[col] = <<m, col - off>>
  <2> SUFFICES ASSUME NEW col \in V PROVE col - off \in 0 .. p /\ kv[col] = <<m, col - off>>
    OBVIOUS
  <2>1. col \in 0 .. keys - 1 /\ col >= off /\ col <= off + p
    BY <1>5, <1>6
  <2> QED
    BY <1>2, <1>3, <2>1
<1>8. \A j \in 0 .. p : off + j \in V /\ (off + j) - off = j
  <2> SUFFICES ASSUME NEW j \in 0 .. p PROVE off + j \in V /\ (off + j) - off = j
    OBVIOUS
  <2>1. off + j \in 0 .. keys - 1 /\ off + j >= off /\ off + j <= off + p
    BY <1>2, <1>3
  <2> QED
    BY <1>3, <1>5, <1>6, <2>1
<1>9. ASSUME NEW h
      PROVE  {<<kv[col], KvHead(h)>> : col \in V} = {<<<<m, j>>, KvHead(h)>> : j \in 0 .. p}
  <2>1. PICK x : x = KvHead(h)
    OBVIOUS
  <2>2. ASSUME NEW e \in {<<kv[col], x>> : col \in V} PROVE e \in {<<<<m, j>>, x>> : j \in 0 .. p}
    <3>1. PICK col \in V : e = <<kv[col], x>>
      BY <2>2
    <3> QED
      BY <1>7, <3>1
  <2>3. ASSUME NEW e \in {<<<<m, j>>, x>> : j \in 0 .. p} PROVE e \in {<<kv[col], x>> : col \in V}
    <3>1. PICK j \in 0 .. p : e = <<<<m, j>>, x>>
      BY <2>3
    <3>2. kv[off + j] = <<m, j>> /\ off + j \in V
      BY <1>7, <1>8
    <3> QED
      BY <3>1, <3>2
  <2> QED
    BY <2>1, <2>2, <2>3
<1> QED
  BY <1>1, <1>2, <1>4, <1>9, ZenonT(40) DEF Attend, Exact
-----------------------------------------------------------------------------
(* The attention of a step.                                                *)

(* The cache holds the positions of the members, this step's included.     *)
Holds(n, kv, M, C, Q) ==
  \A i \in 1 .. n : \A p \in 0 .. C[i] + Q[i] - 1 : kv[SlotOf(M[i], p)] = <<M[i], p>>

(* The plan runs each member in chunks of at least a row.                  *)
Planned(n, plan) == \/ plan.rect
                    \/ \A i \in 1 .. n : plan.work[i].chunk \in Nat \ {0}

(* The last columns of a member are its entries, gathered or projected.    *)
LEMMA KeysShape ==
  ASSUME NEW n, NEW md, NEW M, NEW C, NEW Q, Shape(n, md, M, C, Q),
         NEW rows, RowsShape(n, rows, M, C, Q), NEW plan,
         NEW PQ, PQ = PadQueries(md, plan, rows), NEW kv, Holds(n, kv, M, C, Q), NEW i \in 1 .. n,
         NEW keys, keys = (IF plan.rect THEN md.maxK ELSE LenIn(md.cuK, i))
  PROVE  /\ keys \in Nat /\ C[i] + Q[i] <= keys
         /\ \A col \in 0 .. keys - 1 : col >= keys - (C[i] + Q[i]) =>
              KeysFor(md, plan, i, PQ, kv)[col] = <<M[i], col - (keys - (C[i] + Q[i]))>>
<1>1. PICK c, q : c = C[i] /\ q = Q[i]
  OBVIOUS
<1>2. /\ c \in Nat /\ q \in Nat \ {0} /\ LenIn(md.cuK, i) = c + q /\ c + q <= md.maxK
      /\ md.maxK \in Nat /\ md.maxQ \in Nat /\ q <= md.maxQ
      /\ ~Paged(md) => md.maxK = md.maxQ /\ c = 0
      /\ Paged(md) => md.table[i] = Tables[M[i]]
  BY <1>1 DEF Shape
<1>3. keys \in Nat /\ c + q <= keys
  BY <1>2
<1>4. ASSUME NEW col \in 0 .. keys - 1, col >= keys - (c + q)
      PROVE  KeysFor(md, plan, i, PQ, kv)[col] = <<M[i], col - (keys - (c + q))>>
  <2>1. PICK j : j = col - (keys - (c + q))
    OBVIOUS
  <2>2. j \in 0 .. c + q - 1
    BY <1>2, <1>3, <1>4, <2>1
  <2>3. CASE Paged(md)
    <3>1. KeysFor(md, plan, i, PQ, kv) = Gather(md, kv, i, keys)
      BY <2>3 DEF KeysFor
    <3>2. Gather(md, kv, i, keys)[col] =
            IF j < 0 THEN Zero ELSE kv[md.table[i][j \div BlockSize + 1] * BlockSize + (j % BlockSize)]
      BY <1>2, <2>1 DEF Gather
    <3>3. ~(j < 0)
      BY <1>2, <2>2
    <3>4. Gather(md, kv, i, keys)[col] = kv[SlotOf(M[i], j)]
      BY <1>2, <2>3, <3>2, <3>3 DEF SlotOf
    <3>5. kv[SlotOf(M[i], j)] = <<M[i], j>>
      BY <1>1, <2>2 DEF Holds
    <3> QED
      BY <2>1, <3>1, <3>4, <3>5
  <2>4. CASE ~Paged(md)
    <3>1. c = 0 /\ md.maxK = md.maxQ
      BY <1>2, <2>4
    <3>2. CASE plan.rect
      <4>1. PICK w : w = md.maxQ
        OBVIOUS
      <4>2. keys = w /\ w \in Nat
        BY <1>2, <3>1, <3>2, <4>1
      <4>3. KeysFor(md, plan, i, PQ, kv)[col] = PQ[(i - 1) * w + col + 1]
        BY <2>4, <3>1, <3>2, <4>1, <4>2 DEF KeysFor
      <4>4. (i - 1) * w + col + 1 = (i - 1) * w + (col + 1) /\ col + 1 \in 1 .. w
        <5>1. n \in Nat
          BY DEF Shape
        <5>2. PICK x : x = (i - 1) * w
          OBVIOUS
        <5>3. x \in Int
          BY <4>2, <5>1, <5>2
        <5>4. x + col + 1 = x + (col + 1) /\ col + 1 \in 1 .. w
          BY <4>2, <5>3
        <5> QED
          BY <5>2, <5>4
      <4>5. PQ[(i - 1) * w + (col + 1)] = Slot(md, M, C, Q, i, col + 1)
        <5>1. \A z \in 1 .. w : PQ[(i - 1) * w + z] = Slot(md, M, C, Q, i, z)
          BY <3>2, <4>1, PadShape
        <5> QED
          BY <4>4, <5>1
      <4>6. col + 1 > w - q /\ c + ((col + 1) - (w - q)) - 1 = j
        BY <1>2, <1>4, <2>1, <3>1, <4>2
      <4>7. Slot(md, M, C, Q, i, col + 1) = <<M[i], j>>
        BY <1>1, <4>1, <4>6 DEF Slot
      <4> QED
        BY <2>1, <4>3, <4>4, <4>5, <4>7
    <3>3. CASE ~plan.rect
      <4>1. keys = q /\ j = col /\ PQ = rows
        BY <1>2, <2>1, <3>1, <3>3 DEF PadQueries, Padded
      <4>2. KeysFor(md, plan, i, PQ, kv)[col] = Part(md, rows, i)[col + 1]
        BY <2>4, <3>3, <4>1 DEF KeysFor
      <4>3. Part(md, rows, i) = [r \in 1 .. Q[i] |-> <<M[i], C[i] + r - 1>>]
        BY PartShape
      <4>4. col + 1 \in 1 .. q /\ c + (col + 1) - 1 = col
        BY <1>2, <3>1, <4>1
      <4> QED
        BY <1>1, <2>1, <4>1, <4>2, <4>3, <4>4
    <3> QED
      BY <3>2, <3>3
  <2> QED
    BY <2>3, <2>4
<1> QED
  BY <1>1, <1>3, <1>4

(* The rows that one member contributes to the attention.                  *)
MemberRows(md, plan, PQ, kv, i) ==
  IF plan.rect
    THEN Dense(md, i, SubSeq(PQ, (i - 1) * md.maxQ + 1, i * md.maxQ),
               KeysFor(md, plan, i, PQ, kv), md.maxK, md.maxQ)
    ELSE Dense(md, i, Part(md, PQ, i), KeysFor(md, plan, i, PQ, kv),
               LenIn(md.cuK, i), plan.work[i].chunk)

(* In the rectangle the last Q[i] rows of a member are exact ...           *)
LEMMA RectangleRows ==
  ASSUME NEW n, NEW md, NEW M, NEW C, NEW Q, Shape(n, md, M, C, Q),
         NEW rows, RowsShape(n, rows, M, C, Q), NEW plan, plan.rect,
         NEW PQ, PQ = PadQueries(md, plan, rows), NEW kv, Holds(n, kv, M, C, Q), NEW i \in 1 .. n,
         NEW D, D = MemberRows(md, plan, PQ, kv, i)
  PROVE  /\ Indexed(D, md.maxQ)
         /\ \A r \in 1 .. Q[i] : D[md.maxQ - Q[i] + r] = Exact(M[i], C[i] + r - 1)
<1>1. PICK w, keys, c, q : w = md.maxQ /\ keys = md.maxK /\ c = C[i] /\ q = Q[i]
  OBVIOUS
<1>2. /\ n \in Nat \ {0} /\ c \in Nat /\ q \in Nat \ {0} /\ w \in Nat /\ q <= w
      /\ LenIn(md.cuK, i) = c + q
  BY <1>1 DEF Shape
<1>3. LenIn(md.cuQ, i) = q
  BY <1>1, QueryLengths
<1>4. PICK K : K = KeysFor(md, plan, i, PQ, kv)
  OBVIOUS
<1>5. /\ keys \in Nat /\ c + q <= keys
      /\ \A col \in 0 .. keys - 1 : col >= keys - (c + q) =>
           K[col] = <<M[i], col - (keys - (c + q))>>
  <2>1. keys = (IF plan.rect THEN md.maxK ELSE LenIn(md.cuK, i))
    BY <1>1
  <2> QED
    BY <1>1, <1>4, <2>1, KeysShape
<1>6. PICK S : S = SubSeq(PQ, (i - 1) * w + 1, i * w)
  OBVIOUS
<1>7. Indexed(S, w) /\ \A z \in 1 .. w : S[z] = Slot(md, M, C, Q, i, z)
  <2>1. PICK x : x = (i - 1) * w
    OBVIOUS
  <2>2. x \in Int /\ i * w = x + w
    <3>1. i \in Nat /\ i * w = (i - 1) * w + w /\ (i - 1) * w \in Int
      BY <1>2
    <3> QED
      BY <2>1, <3>1
  <2>3. S = [z \in 1 .. (x + w) - (x + 1) + 1 |-> PQ[z + (x + 1) - 1]]
    <3>1. PICK a, b : a = x + 1 /\ b = x + w
      OBVIOUS
    <3>2. S = SubSeq(PQ, a, b)
      BY <1>6, <2>1, <2>2, <3>1
    <3>3. a \in Int /\ b \in Int
      BY <1>2, <2>2, <3>1
    <3>4. S = [z \in 1 .. b - a + 1 |-> PQ[z + a - 1]]
      BY <3>2, <3>3 DEF SubSeq
    <3> QED
      BY <3>1, <3>4
  <2>4. (x + w) - (x + 1) + 1 = w /\ \A z \in 1 .. w : z + (x + 1) - 1 = x + z
    BY <1>2, <2>2
  <2>5. S = [z \in 1 .. w |-> PQ[z + (x + 1) - 1]]
    BY <2>3, <2>4
  <2>6. \A z \in 1 .. w : S[z] = PQ[x + z]
    BY <2>4, <2>5
  <2>7. \A z \in 1 .. w : PQ[x + z] = Slot(md, M, C, Q, i, z)
    BY <1>1, <2>1, PadShape
  <2> QED
    BY <2>5, <2>6, <2>7 DEF Indexed
<1>8. D = Dense(md, i, S, K, keys, w)
  BY <1>1, <1>4, <1>6 DEF MemberRows
<1>9. /\ Indexed(D, w)
      /\ \A r \in 1 .. w : D[r] = Attend(md, i, w, keys, r - 1, S[r], K)
  <2>1. w \in Nat \ {0}
    BY <1>2
  <2> QED
    BY <1>7, <1>8, <2>1, DenseShape
<1>10. ASSUME NEW r \in 1 .. q PROVE D[w - q + r] = Exact(M[i], c + r - 1)
  <2>1. PICK z : z = w - q + r
    OBVIOUS
  <2>2. z \in 1 .. w /\ z > w - q /\ z - (w - q) = r /\ z - 1 = w - q + r - 1
    BY <1>2, <2>1
  <2>3. S[z] = <<M[i], c + r - 1>>
    BY <1>1, <1>7, <2>2 DEF Slot
  <2>4. D[z] = Attend(md, i, w, keys, w - q + r - 1, <<M[i], c + r - 1>>, K)
    BY <1>9, <2>2, <2>3
  <2>5. Attend(md, i, w, keys, w - q + r - 1, <<M[i], c + r - 1>>, K) = Exact(M[i], c + r - 1)
    <3>1. Aligned(md, i, M[i], c, q, w, keys, K)
      BY <1>2, <1>3, <1>5 DEF Aligned
    <3> QED
      BY <3>1, AttendExact
  <2> QED
    BY <2>1, <2>4, <2>5
<1> QED
  BY <1>1, <1>9, <1>10

(* ... and member by member all of them are.                               *)
LEMMA PackedRows ==
  ASSUME NEW n, NEW md, NEW M, NEW C, NEW Q, Shape(n, md, M, C, Q),
         NEW rows, RowsShape(n, rows, M, C, Q), NEW plan, ~plan.rect, Planned(n, plan),
         NEW PQ, PQ = PadQueries(md, plan, rows), NEW kv, Holds(n, kv, M, C, Q), NEW i \in 1 .. n,
         NEW D, D = MemberRows(md, plan, PQ, kv, i)
  PROVE  /\ Indexed(D, Q[i])
         /\ \A r \in 1 .. Q[i] : D[r] = Exact(M[i], C[i] + r - 1)
<1>1. PICK keys, c, q, chunk :
        keys = LenIn(md.cuK, i) /\ c = C[i] /\ q = Q[i] /\ chunk = plan.work[i].chunk
  OBVIOUS
<1>2. /\ n \in Nat \ {0} /\ c \in Nat /\ q \in Nat \ {0} /\ LenIn(md.cuK, i) = c + q
      /\ chunk \in Nat \ {0}
  BY <1>1 DEF Shape, Planned
<1>3. LenIn(md.cuQ, i) = q
  BY <1>1, QueryLengths
<1>4. PICK K : K = KeysFor(md, plan, i, PQ, kv)
  OBVIOUS
<1>5. /\ keys \in Nat /\ c + q <= keys
      /\ \A col \in 0 .. keys - 1 : col >= keys - (c + q) =>
           K[col] = <<M[i], col - (keys - (c + q))>>
  <2>1. keys = (IF plan.rect THEN md.maxK ELSE LenIn(md.cuK, i))
    BY <1>1
  <2> QED
    BY <1>1, <1>4, <2>1, KeysShape
<1>6. PICK S : S = Part(md, PQ, i)
  OBVIOUS
<1>7. Indexed(S, q) /\ \A r \in 1 .. q : S[r] = <<M[i], c + r - 1>>
  <2>1. PQ = rows
    BY DEF PadQueries, Padded
  <2>2. Part(md, rows, i) = [r \in 1 .. Q[i] |-> <<M[i], C[i] + r - 1>>]
    BY PartShape
  <2>3. S = [r \in 1 .. q |-> <<M[i], c + r - 1>>]
    BY <1>1, <1>6, <2>1, <2>2
  <2> QED
    BY <2>3 DEF Indexed
<1>8. D = Dense(md, i, S, K, keys, chunk)
  BY <1>1, <1>4, <1>6 DEF MemberRows
<1>9. /\ Indexed(D, q)
      /\ \A r \in 1 .. q : D[r] = Attend(md, i, q, keys, r - 1, S[r], K)
  BY <1>2, <1>7, <1>8, DenseShape
<1>10. ASSUME NEW r \in 1 .. q PROVE D[r] = Exact(M[i], c + r - 1)
  <2>1. q - q + r - 1 = r - 1
    BY <1>2
  <2>2. D[r] = Attend(md, i, q, keys, q - q + r - 1, <<M[i], c + r - 1>>, K)
    BY <1>7, <1>9, <2>1
  <2>3. q \in Nat /\ q <= q
    BY <1>2
  <2>4. Attend(md, i, q, keys, q - q + r - 1, <<M[i], c + r - 1>>, K) = Exact(M[i], c + r - 1)
    <3>1. Aligned(md, i, M[i], c, q, q, keys, K)
      BY <1>2, <1>3, <1>5, <2>3 DEF Aligned
    <3> QED
      BY <3>1, AttendExact
  <2> QED
    BY <2>2, <2>4
<1> QED
  BY <1>1, <1>9, <1>10

(* Unpadded, every row of a step is the one of its token.                  *)
LEMMA AttentionShape ==
  ASSUME NEW n, NEW md, NEW M, NEW C, NEW Q, Shape(n, md, M, C, Q),
         NEW rows, RowsShape(n, rows, M, C, Q), NEW plan, Planned(n, plan),
         NEW PQ, PQ = PadQueries(md, plan, rows), NEW kv, Holds(n, kv, M, C, Q),
         NEW out, out = UnpadQueries(md, plan, Attention(md, plan, PQ, PQ, kv)),
         NEW i \in 1 .. n, NEW r \in 1 .. Q[i]
  PROVE  out[SumTo(Q, i - 1) + r] = Exact(M[i], C[i] + r - 1)
<1>1. PICK w, A : w = md.maxQ /\ A = Attention(md, plan, PQ, PQ, kv)
  OBVIOUS
<1>2. /\ n \in Nat \ {0} /\ Q \in Seq(Nat) /\ Len(Q) = n /\ w \in Nat /\ Batch(md) = n
      /\ \A k \in 1 .. n : Q[k] \in Nat \ {0} /\ Q[k] <= w
  BY <1>1 DEF Shape
<1>3. PICK ss : ss = [k \in 1 .. n |-> MemberRows(md, plan, PQ, kv, k)]
  OBVIOUS
<1>4. /\ A = FlattenSeq(ss) /\ Indexed(ss, n)
      /\ \A k \in 1 .. n : ss[k] = MemberRows(md, plan, PQ, kv, k)
  BY <1>1, <1>2, <1>3 DEF Attention, MemberRows, Indexed
<1>5. CASE plan.rect
  <2>1. PICK lens : lens = [k \in 1 .. n |-> w]
    OBVIOUS
  <2>2. lens \in Seq(Nat) /\ Len(lens) = n /\ \A k \in 1 .. n : lens[k] = w
    BY <1>2, <2>1
  <2>3. \A k \in 1 .. n : /\ Indexed(ss[k], w)
                          /\ \A x \in 1 .. Q[k] : ss[k][w - Q[k] + x] = Exact(M[k], C[k] + x - 1)
    BY <1>1, <1>4, <1>5, RectangleRows
  <2>4. Joined(n, ss, lens, A)
    <3>1. Parts(n, ss, lens)
      BY <1>2, <1>4, <2>2, <2>3 DEF Parts
    <3> QED
      BY <1>4, <3>1, FlattenProperties
  <2>5. \A k \in 0 .. n : SumTo(lens, k) = k * w
    BY <1>2, <2>2, EqualParts
  <2>6. Indexed(A, n * w)
    <3>1. n \in 0 .. n
      BY <1>2
    <3> QED
      BY <2>4, <2>5, <3>1 DEF Joined
  <2>7. out[SumTo(Q, i - 1) + r] = A[(i - 1) * w + (w - Q[i] + r)]
    BY <1>1, <1>5, <2>6, UnpadShape
  <2>8. PICK z : z = w - Q[i] + r
    OBVIOUS
  <2>9. A[(i - 1) * w + z] = ss[i][z]
    <3>1. z \in 1 .. lens[i]
      <4>1. Q[i] \in Nat /\ Q[i] <= w /\ w \in Nat /\ lens[i] = w
        BY <1>2, <2>2
      <4> QED
        BY <2>8, <4>1
    <3>2. i - 1 \in 0 .. n
      BY <1>2
    <3>3. A[SumTo(lens, i - 1) + z] = ss[i][z]
      BY <2>4, <3>1 DEF Joined
    <3> QED
      BY <2>5, <3>2, <3>3
  <2> QED
    BY <2>3, <2>7, <2>8, <2>9
<1>6. CASE ~plan.rect
  <2>1. \A k \in 1 .. n : /\ Indexed(ss[k], Q[k])
                          /\ \A x \in 1 .. Q[k] : ss[k][x] = Exact(M[k], C[k] + x - 1)
    BY <1>4, <1>6, PackedRows
  <2>2. Joined(n, ss, Q, A)
    <3>1. Parts(n, ss, Q)
      BY <1>2, <1>4, <2>1 DEF Parts
    <3> QED
      BY <1>4, <3>1, FlattenProperties
  <2>3. out = A
    BY <1>1, <1>6 DEF UnpadQueries, Padded
  <2> QED
    BY <2>1, <2>2, <2>3 DEF Joined
<1> QED
  BY <1>5, <1>6
-----------------------------------------------------------------------------
(* The chunk of a split member.                                            *)

(* Half of a chunk of several rows is a smaller chunk.                     *)
LEMMA HalfChunk ==
  ASSUME NEW c \in Nat, c > 1
  PROVE  DivCeil(c, 2) \in 1 .. c - 1
<1>1. PICK h : h = DivCeil(c, 2)
  OBVIOUS
<1>2. h \in Nat \ {0} /\ (h - 1) * 2 < c
  <2>1. c \in Nat \ {0} /\ 2 \in Nat \ {0}
    OBVIOUS
  <2> QED
    BY <1>1, <2>1, ChunkCount
<1>3. (h - 1) * 2 = h + h - 2
  BY <1>2
<1>4. h < c \/ c = 2
  BY <1>2, <1>3
<1>5. c = 2 => h = 1
  BY <1>2, <1>3
<1> QED
  BY <1>1, <1>2, <1>4, <1>5

(* f halves a chunk until it fits.                                         *)
IsHalving(f, queries, keys, room, n) ==
  f = [c \in 1 .. n |->
        IF c > 1 /\ SplitBytes(queries, keys, c) > room THEN f[DivCeil(c, 2)] ELSE c]

(* The halving loop is defined ...                                         *)
LEMMA HalvingExists ==
  ASSUME NEW queries, NEW keys, NEW room
  PROVE  \A n \in Nat : \E f : IsHalving(f, queries, keys, room, n)
<1> DEFINE S == {n \in Nat : \E f : IsHalving(f, queries, keys, room, n)}
           Big(c) == c > 1 /\ SplitBytes(queries, keys, c) > room
<1>1. 0 \in S
  <2> DEFINE f == [c \in 1 .. 0 |-> c]
  <2>1. f = [c \in 1 .. 0 |-> IF Big(c) THEN f[DivCeil(c, 2)] ELSE c]
    <3> HIDE DEF Big
    <3> QED
      OBVIOUS
  <2> HIDE DEF f
  <2> QED
    BY <2>1 DEF IsHalving
<1>2. ASSUME NEW n \in Nat, n \in S PROVE n + 1 \in S
  <2>1. PICK f : IsHalving(f, queries, keys, room, n)
    BY <1>2
  <2>2. f = [c \in 1 .. n |-> IF Big(c) THEN f[DivCeil(c, 2)] ELSE c]
    BY <2>1 DEF IsHalving
  <2> DEFINE g == [c \in 1 .. n + 1 |->
                    IF c <= n THEN f[c] ELSE IF Big(c) THEN f[DivCeil(c, 2)] ELSE c]
  <2> HIDE DEF Big
  <2>3. \A c \in 1 .. n + 1 : g[c] = IF Big(c) THEN g[DivCeil(c, 2)] ELSE c
    <3> SUFFICES ASSUME NEW c \in 1 .. n + 1
                 PROVE  g[c] = IF Big(c) THEN g[DivCeil(c, 2)] ELSE c
      OBVIOUS
    <3>1. Big(c) => DivCeil(c, 2) \in 1 .. n /\ g[DivCeil(c, 2)] = f[DivCeil(c, 2)]
      <4> SUFFICES ASSUME Big(c)
                   PROVE  DivCeil(c, 2) \in 1 .. n /\ g[DivCeil(c, 2)] = f[DivCeil(c, 2)]
        OBVIOUS
      <4>1. c \in Nat /\ c > 1
        BY DEF Big
      <4>2. DivCeil(c, 2) \in 1 .. c - 1
        BY <4>1, HalfChunk
      <4>3. DivCeil(c, 2) \in 1 .. n /\ DivCeil(c, 2) \in 1 .. n + 1 /\ DivCeil(c, 2) <= n
        BY <4>2
      <4> QED
        BY <4>3
    <3>2. CASE c <= n
      <4>1. c \in 1 .. n
        BY <3>2
      <4>2. f[c] = IF Big(c) THEN f[DivCeil(c, 2)] ELSE c
        BY <2>2, <4>1
      <4> QED
        BY <3>1, <3>2, <4>2
    <3>3. CASE ~(c <= n)
      BY <3>1, <3>3
    <3> QED
      BY <3>2, <3>3
  <2>4. IsHalving(g, queries, keys, room, n + 1)
    <3>1. g = [c \in 1 .. n + 1 |-> g[c]]
      OBVIOUS
    <3> HIDE DEF g
    <3>2. g = [c \in 1 .. n + 1 |-> IF Big(c) THEN g[DivCeil(c, 2)] ELSE c]
      BY <2>3, <3>1
    <3> QED
      BY <3>2 DEF IsHalving, Big
  <2> HIDE DEF g
  <2> QED
    BY <2>4
<1>3. S = Nat
  <2>1. S \in SUBSET Nat
    OBVIOUS
  <2> HIDE DEF S
  <2> QED
    BY <1>1, <1>2, <2>1, SetInduction
<1> QED
  BY <1>3

(* ... and ends with a chunk that fits, or with a single row.              *)
LEMMA HalvingEnds ==
  ASSUME NEW queries, NEW keys, NEW room, NEW n \in Nat, NEW f,
         IsHalving(f, queries, keys, room, n), NEW c \in 1 .. n
  PROVE  /\ f[c] \in Nat \ {0}
         /\ f[c] = 1 \/ ~(SplitBytes(queries, keys, f[c]) > room)
<1> DEFINE Good(x) == x \in Nat \ {0} /\ (x = 1 \/ ~(SplitBytes(queries, keys, x) > room))
           Big(x) == x > 1 /\ SplitBytes(queries, keys, x) > room
           S == {k \in Nat : \A x \in 1 .. n : x <= k => Good(f[x])}
<1>0. \A x \in 1 .. n : f[x] = IF Big(x) THEN f[DivCeil(x, 2)] ELSE x
  BY DEF IsHalving
<1>1. \A x \in 1 .. n : ~Big(x) => Good(x)
  OBVIOUS
<1>2. \A x \in 1 .. n : Big(x) => x > 1
  OBVIOUS
<1> HIDE DEF Good, Big
<1>3. 0 \in S
  OBVIOUS
<1>4. ASSUME NEW k \in Nat, k \in S PROVE k + 1 \in S
  <2> SUFFICES ASSUME NEW x \in 1 .. n, x <= k + 1 PROVE Good(f[x])
    OBVIOUS
  <2>1. CASE Big(x)
    <3>1. DivCeil(x, 2) \in 1 .. x - 1
      <4>1. x \in Nat /\ x > 1
        BY <1>2, <2>1
      <4> QED
        BY <4>1, HalfChunk
    <3>2. PICK y : y = DivCeil(x, 2)
      OBVIOUS
    <3>3. y \in 1 .. n /\ y <= k
      BY <3>1, <3>2
    <3>4. Good(f[y])
      BY <1>4, <3>3
    <3> QED
      BY <1>0, <2>1, <3>2, <3>4
  <2>2. CASE ~Big(x)
    BY <1>0, <1>1, <2>2
  <2> QED
    BY <2>1, <2>2
<1>5. S = Nat
  <2>1. S \in SUBSET Nat
    OBVIOUS
  <2> HIDE DEF S
  <2> QED
    BY <1>3, <1>4, <2>1, SetInduction
<1>6. c \in S /\ c <= c
  <2>1. c \in Nat
    OBVIOUS
  <2> HIDE DEF S
  <2> QED
    BY <1>5, <2>1
<1>7. Good(f[c])
  BY <1>6
<1> QED
  BY <1>7 DEF Good

(* What the split layout of a member is.                                   *)
LEMMA SplitChunkProperties ==
  ASSUME NEW queries \in Nat \ {0}, NEW keys, NEW room, NEW c, c = SplitChunk(queries, keys, room)
  PROVE  /\ c \in Nat \ {0}
         /\ c = 1 \/ ~(SplitBytes(queries, keys, c) > room)
<1>1. ChunkRows \in Nat \ {0}
  BY LayoutShape
<1>2. PICK start : start = Larger(1, IF queries <= ChunkRows THEN queries ELSE ChunkRows)
  OBVIOUS
<1>3. start \in 1 .. ChunkRows
  BY <1>1, <1>2 DEF Larger
<1> DEFINE h == CHOOSE f : IsHalving(f, queries, keys, room, ChunkRows)
<1>4. IsHalving(h, queries, keys, room, ChunkRows)
  <2>1. ChunkRows \in Nat
    BY <1>1
  <2>2. \E f : IsHalving(f, queries, keys, room, ChunkRows)
    BY <2>1, HalvingExists
  <2> QED
    BY <2>2, Zenon
<1>5. c = h[start]
  BY <1>2, Zenon DEF SplitChunk, IsHalving
<1> HIDE DEF h
<1> QED
  BY <1>1, <1>3, <1>4, <1>5, HalvingEnds

(* Whatever the workspace, a plan has a layout for every member.           *)
LEMMA PlanShape ==
  ASSUME NEW n, NEW md, NEW M, NEW C, NEW Q, Shape(n, md, M, C, Q)
  PROVE  Planned(n, Plan(md))
<1>1. /\ n \in Nat \ {0} /\ Batch(md) = n
      /\ \A i \in 1 .. n : Q[i] \in Nat \ {0}
  BY DEF Shape
<1>2. ASSUME NEW i \in 1 .. n PROVE MemberWork(md, i).chunk \in Nat \ {0}
  <2>1. PICK q, k, room : q = LenIn(md.cuQ, i) /\ k = LenIn(md.cuK, i) /\ room = MemberRoom(md)
    OBVIOUS
  <2>2. q \in Nat \ {0}
    BY <1>1, <2>1, QueryLengths
  <2>3. StandardChunk(q) \in Nat \ {0}
    <3>1. DenseRows \in Nat \ {0} /\ ChunkRows \in Nat \ {0}
      BY LayoutShape
    <3> QED
      BY <2>2, <3>1 DEF StandardChunk, Larger
  <2>4. SplitChunk(q, k, room) \in Nat \ {0}
    BY <2>2, SplitChunkProperties
  <2>5. MemberWork(md, i) =
          IF FullBytes(1, q, k, StandardChunk(q)) <= room
            THEN [chunk |-> StandardChunk(q), split |-> FALSE]
            ELSE [chunk |-> SplitChunk(q, k, room), split |-> TRUE]
    BY <2>1, Zenon DEF MemberWork
  <2> QED
    BY <2>3, <2>4, <2>5
<1>3. CASE Rectangular(md)
  BY <1>3 DEF Plan, Planned
<1>4. CASE ~Rectangular(md)
  <2>1. Plan(md).work = [i \in 1 .. n |-> MemberWork(md, i)]
    BY <1>1, <1>4 DEF Plan
  <2> QED
    BY <1>2, <2>1 DEF Planned
<1> QED
  BY <1>3, <1>4

-----------------------------------------------------------------------------
(* Slots.                                                                  *)

(* A position of a member has a slot in a block of the member ...          *)
LEMMA SlotType ==
  ASSUME NEW m \in 1 .. Members, NEW p \in 0 .. MaxLen - 1
  PROVE  /\ p \div BlockSize + 1 \in DOMAIN Tables[m]
         /\ Tables[m][p \div BlockSize + 1] \in Nat
         /\ p % BlockSize \in 0 .. BlockSize - 1
         /\ p = (p \div BlockSize) * BlockSize + (p % BlockSize)
         /\ SlotOf(m, p) \in 0 .. NumBlocks * BlockSize - 1
<1>1. /\ BlockSize \in Nat \ {0} /\ MaxLen \in Nat \ {0} /\ NumBlocks \in Nat \ {0}
      /\ Tables[m] \in Seq(0 .. NumBlocks - 1) /\ Len(Tables[m]) * BlockSize >= MaxLen
  BY LayoutShape
<1>2. PICK B, d, r, L : B = BlockSize /\ d = p \div BlockSize /\ r = p % BlockSize /\ L = Len(Tables[m])
  OBVIOUS
<1>3. B \in Nat \ {0} /\ L \in Nat /\ p \in Nat
  BY <1>1, <1>2
<1>4. d \in Nat /\ (L <= d <=> L * B <= p)
  BY <1>2, <1>3, DivBound, DivProperties
<1>5. r \in 0 .. B - 1 /\ p = d * B + r
  BY <1>2, <1>3
<1>6. d < L
  <2>1. L * B \in Nat /\ ~(L * B <= p)
    BY <1>1, <1>2, <1>3
  <2> QED
    BY <1>3, <1>4, <2>1
<1>7. d + 1 \in 1 .. L /\ DOMAIN Tables[m] = 1 .. L
  BY <1>1, <1>2, <1>3, <1>4, <1>6
<1>8. PICK t : t = Tables[m][d + 1]
  OBVIOUS
<1>9. t \in 0 .. NumBlocks - 1
  <2>1. PICK T, i, X : T = Tables[m] /\ i = d + 1 /\ X = 0 .. NumBlocks - 1
    OBVIOUS
  <2>2. T \in Seq(X) /\ i \in 1 .. Len(T)
    BY <1>1, <1>2, <1>7, <2>1
  <2>3. T[i] \in X
    BY <2>2
  <2> QED
    BY <1>8, <2>1, <2>3
<1>10. t * B + B <= NumBlocks * B /\ t * B \in Nat /\ NumBlocks * B \in Nat
  <2>1. t \in Nat /\ NumBlocks \in Nat /\ t < NumBlocks
    BY <1>1, <1>9
  <2> QED
    BY <1>3, <2>1, ProductMonotone
<1>11. PICK x, y : x = t * B /\ y = NumBlocks * B
  OBVIOUS
<1>12. x + r \in 0 .. y - 1
  BY <1>3, <1>5, <1>10, <1>11
<1>13. SlotOf(m, p) = x + r
  BY <1>2, <1>8, <1>11 DEF SlotOf
<1>14. d + 1 \in DOMAIN Tables[m] /\ Tables[m][d + 1] \in Nat
  BY <1>1, <1>7, <1>8, <1>9
<1>15. SlotOf(m, p) \in 0 .. NumBlocks * B - 1
  BY <1>11, <1>12, <1>13
<1>16. p = (p \div BlockSize) * BlockSize + (p % BlockSize) /\ p % BlockSize \in 0 .. BlockSize - 1
  BY <1>2, <1>5
<1> QED
  BY <1>2, <1>14, <1>15, <1>16

(* ... and no other position of any member has it.                         *)
LEMMA SlotUnique ==
  ASSUME NEW m \in 1 .. Members, NEW p \in 0 .. MaxLen - 1,
         NEW k \in 1 .. Members, NEW q \in 0 .. MaxLen - 1, SlotOf(m, p) = SlotOf(k, q)
  PROVE  m = k /\ p = q
<1>1. PICK B, d, r, e, s :
        B = BlockSize /\ d = p \div BlockSize /\ r = p % BlockSize
        /\ e = q \div BlockSize /\ s = q % BlockSize
  OBVIOUS
<1>2. PICK t, u : t = Tables[m][d + 1] /\ u = Tables[k][e + 1]
  OBVIOUS
<1>3. /\ B \in Nat \ {0} /\ t \in Nat /\ u \in Nat /\ r \in 0 .. B - 1 /\ s \in 0 .. B - 1
      /\ p = d * B + r /\ q = e * B + s
      /\ d + 1 \in DOMAIN Tables[m] /\ e + 1 \in DOMAIN Tables[k]
      /\ d \in Nat /\ e \in Nat
  <2>1. B \in Nat \ {0}
    BY <1>1, LayoutShape
  <2>2. p \in Nat /\ q \in Nat
    OBVIOUS
  <2>3. d \in Nat /\ e \in Nat
    BY <1>1, <2>1, <2>2, DivProperties
  <2> QED
    BY <1>1, <1>2, <2>1, <2>3, SlotType
<1>4. t * B + r = u * B + s
  BY <1>1, <1>2 DEF SlotOf
<1>5. ~(t < u) /\ ~(u < t)
  <2>1. t * B \in Nat /\ u * B \in Nat
    BY <1>3
  <2>2. t < u => t * B + B <= u * B
    BY <1>3, ProductMonotone
  <2>3. u < t => u * B + B <= t * B
    BY <1>3, ProductMonotone
  <2>4. PICK x, y : x = t * B /\ y = u * B
    OBVIOUS
  <2>5. x \in Nat /\ y \in Nat /\ (t < u => x + B <= y) /\ (u < t => y + B <= x) /\ x + r = y + s
    BY <1>4, <2>1, <2>2, <2>3, <2>4
  <2> QED
    BY <1>3, <2>5
<1>6. t = u
  <2>1. t \in Nat /\ u \in Nat
    BY <1>3, Zenon
  <2> QED
    BY <1>5, <2>1
<1>7. r = s
  <2>1. PICK x : x = t * B
    OBVIOUS
  <2>2. x \in Nat /\ x + r = x + s
    BY <1>3, <1>4, <1>6, <2>1
  <2>3. r \in Int /\ s \in Int
    BY <1>3
  <2> QED
    BY <2>2, <2>3
<1>8. m = k /\ d + 1 = e + 1
  <2>1. \A i \in DOMAIN Tables[m], j \in DOMAIN Tables[k] :
          Tables[m][i] = Tables[k][j] => m = k /\ i = j
    BY LayoutShape
  <2>2. PICK i, j : i = d + 1 /\ j = e + 1
    OBVIOUS
  <2>3. i \in DOMAIN Tables[m] /\ j \in DOMAIN Tables[k] /\ Tables[m][i] = Tables[k][j]
    BY <1>2, <1>3, <1>6, <2>2
  <2> QED
    BY <2>1, <2>2, <2>3
<1> QED
  BY <1>3, <1>7, <1>8
-----------------------------------------------------------------------------
(* The metadata of a batch.                                                *)

(* M is the batch in order, C what its members have in the cache and Q     *)
(* what they compute.                                                      *)
BatchShape(kind, b, n, M, C, Q) ==
  /\ n = Cardinality(DOMAIN b) /\ n \in Nat \ {0}
  /\ M = Enumerate(DOMAIN b, Ascending(DOMAIN b)) /\ M \in [1 .. n -> 1 .. Members]
  /\ DOMAIN b \subseteq 1 .. Members
  /\ \A i \in 1 .. n : M[i] \in DOMAIN b
  /\ \A i, j \in 1 .. n : M[i] = M[j] => i = j
  /\ \A m \in DOMAIN b : \E i \in 1 .. n : M[i] = m
  /\ C = [i \in 1 .. n |-> computed[M[i]]] /\ Q = [i \in 1 .. n |-> b[M[i]]]
  /\ Q \in Seq(Nat) /\ Len(Q) = n
  /\ \A i \in 1 .. n : Q[i] \in Nat \ {0} /\ C[i] \in Nat /\ C[i] + Q[i] <= MaxLen
  /\ kind = "initial" => \A i \in 1 .. n : C[i] = 0
  /\ kind = "decode" => \A i \in 1 .. n : Q[i] = 1

(* Every batch of the scheduler has that shape.                            *)
LEMMA BatchHasShape ==
  ASSUME computed \in [1 .. Members -> 0 .. MaxLen], NEW kind, NEW b \in Batches(kind)
  PROVE  \E n, M, C, Q : BatchShape(kind, b, n, M, C, Q)
<1>1. /\ \E S \in SUBSET (1 .. Members) : S # {} /\ b \in [S -> 1 .. MaxLen]
      /\ \A m \in DOMAIN b : computed[m] + b[m] <= MaxLen
      /\ kind = "initial" => \A m \in DOMAIN b : computed[m] = 0
      /\ kind = "decode" => \A m \in DOMAIN b : computed[m] > 0 /\ b[m] = 1
  <2>1. b \in UNION {[S -> 1 .. MaxLen] : S \in (SUBSET (1 .. Members)) \ {{}}}
    BY Zenon DEF Batches
  <2>2. \E S \in SUBSET (1 .. Members) : S # {} /\ b \in [S -> 1 .. MaxLen]
    <3>1. PICK F \in {[S -> 1 .. MaxLen] : S \in (SUBSET (1 .. Members)) \ {{}}} : b \in F
      BY <2>1, Zenon
    <3>2. PICK S \in (SUBSET (1 .. Members)) \ {{}} : F = [S -> 1 .. MaxLen]
      BY <3>1, Zenon
    <3>3. S \in SUBSET (1 .. Members) /\ S # {} /\ b \in [S -> 1 .. MaxLen]
      BY <3>1, <3>2
    <3> QED
      BY <3>3, Zenon
  <2>3. /\ \A m \in DOMAIN b : computed[m] + b[m] <= MaxLen
        /\ kind = "initial" => \A m \in DOMAIN b : computed[m] = 0
        /\ kind = "decode" => \A m \in DOMAIN b : computed[m] > 0 /\ b[m] = 1
    BY Zenon DEF Batches
  <2> QED
    BY <2>2, <2>3
<1>2. PICK S \in SUBSET (1 .. Members) : S # {} /\ b \in [S -> 1 .. MaxLen]
  BY <1>1
<1>3. DOMAIN b = S /\ \A m \in S : b[m] \in Nat \ {0} /\ computed[m] \in Nat
  <2>1. DOMAIN b = S /\ S \subseteq 1 .. Members
    BY <1>2
  <2>2. \A m \in S : b[m] \in 1 .. MaxLen
    BY <1>2
  <2>3. \A m \in S : computed[m] \in 0 .. MaxLen
    BY <2>1
  <2>4. MaxLen \in Nat
    BY LayoutShape
  <2> QED
    BY <2>1, <2>2, <2>3, <2>4
<1>4. IsFiniteSet(S) /\ S \subseteq Nat
  <2>1. Members \in Nat /\ S \subseteq 1 .. Members
    BY <1>2, LayoutShape
  <2>2. IsFiniteSet(1 .. Members)
    <3>1. Members \in Int /\ 1 \in Int
      BY <2>1
    <3> QED
      BY <3>1, FS_Interval
  <2>3. IsFiniteSet(S)
    BY <2>1, <2>2, FS_Subset
  <2> QED
    BY <2>1, <2>3
<1>5. StrictOrder(Ascending(S), S)
  BY <1>4 DEF StrictOrder, Ascending
<1>6. PICK n, M : n = Cardinality(S) /\ M = Enumerate(S, Ascending(S))
  OBVIOUS
<1>7. /\ n \in Nat /\ M \in [1 .. n -> S]
      /\ \A i, j \in 1 .. n : i # j => M[i] # M[j]
      /\ \A m \in S : \E i \in 1 .. n : M[i] = m
  BY <1>4, <1>5, <1>6, EnumerateBijective
<1>8. n # 0
  <2>1. PICK m \in S : TRUE
    BY <1>2
  <2>2. PICK i \in 1 .. n : M[i] = m
    BY <1>7, <2>1
  <2> QED
    BY <1>7, <2>2
<1>9. PICK C, Q : C = [i \in 1 .. n |-> computed[M[i]]] /\ Q = [i \in 1 .. n |-> b[M[i]]]
  OBVIOUS
<1>10. \A i \in 1 .. n : M[i] \in S /\ C[i] = computed[M[i]] /\ Q[i] = b[M[i]]
  BY <1>7, <1>9
<1>11. \A i \in 1 .. n : Q[i] \in Nat \ {0} /\ C[i] \in Nat /\ C[i] + Q[i] <= MaxLen
  BY <1>1, <1>3, <1>10
<1>12. Q \in Seq(Nat) /\ Len(Q) = n
  <2>1. Q = [i \in 1 .. n |-> Q[i]]
    BY <1>9
  <2>2. n \in Nat /\ \A i \in 1 .. n : Q[i] \in Nat
    BY <1>7, <1>11
  <2> QED
    BY <2>1, <2>2
<1>13. (kind = "initial" => \A i \in 1 .. n : C[i] = 0) /\ (kind = "decode" => \A i \in 1 .. n : Q[i] = 1)
  BY <1>1, <1>3, <1>10
<1>14. M \in [1 .. n -> 1 .. Members]
  BY <1>7
<1>15. BatchShape(kind, b, n, M, C, Q)
  <2>1. \A i, j \in 1 .. n : M[i] = M[j] => i = j
    BY <1>7
  <2>2. n \in Nat \ {0} /\ n = Cardinality(DOMAIN b) /\ M = Enumerate(DOMAIN b, Ascending(DOMAIN b))
    BY <1>3, <1>6, <1>7, <1>8
  <2>3. /\ DOMAIN b \subseteq 1 .. Members
        /\ \A i \in 1 .. n : M[i] \in DOMAIN b
        /\ \A m \in DOMAIN b : \E i \in 1 .. n : M[i] = m
    BY <1>2, <1>3, <1>7, <1>10
  <2> QED
    BY <1>9, <1>11, <1>12, <1>13, <1>14, <2>1, <2>2, <2>3, Zenon DEF BatchShape
<1> QED
  BY <1>15

(* The rows of a batch.                                                    *)
LEMMA BatchRows ==
  ASSUME NEW kind, NEW b, NEW n, NEW M, NEW C, NEW Q, BatchShape(kind, b, n, M, C, Q)
  PROVE  RowsShape(n, RowsOf(M, b), M, C, Q)
<1>1. /\ n \in Nat \ {0} /\ Q \in Seq(Nat) /\ Len(Q) = n /\ DOMAIN M = 1 .. n
      /\ C = [i \in 1 .. n |-> computed[M[i]]] /\ Q = [i \in 1 .. n |-> b[M[i]]]
  BY DEF BatchShape
<1>2. PICK ss : ss = [i \in 1 .. n |-> [r \in 1 .. b[M[i]] |-> <<M[i], computed[M[i]] + r - 1>>]]
  OBVIOUS
<1>3. RowsOf(M, b) = FlattenSeq(ss)
  BY <1>1, <1>2 DEF RowsOf
<1>4. \A i \in 1 .. n : ss[i] = [r \in 1 .. Q[i] |-> <<M[i], C[i] + r - 1>>]
  BY <1>1, <1>2
<1>5. Parts(n, ss, Q)
  <2>1. Indexed(ss, n) /\ \A i \in 1 .. n : Indexed(ss[i], Q[i])
    BY <1>2, <1>4 DEF Indexed
  <2> QED
    BY <1>1, <2>1 DEF Parts
<1>6. Joined(n, ss, Q, RowsOf(M, b))
  BY <1>3, <1>5, FlattenProperties
<1> QED
  BY <1>4, <1>6, ZenonT(40) DEF Joined, RowsShape

(* The longest of some lengths.                                            *)
LEMMA MaxProperties ==
  ASSUME NEW lens \in Seq(Nat), Len(lens) # 0
  PROVE  /\ Max(Range(lens)) \in Nat
         /\ \A i \in 1 .. Len(lens) : lens[i] <= Max(Range(lens))
<1>1. PICK S, n : S = Range(lens) /\ n = Len(lens)
  OBVIOUS
<1>2. n \in Nat \ {0} /\ DOMAIN lens = 1 .. n
  BY <1>1
<1>3. S \in SUBSET Nat /\ S # {} /\ (\A i \in 1 .. n : lens[i] \in S)
      /\ \A x \in S : \E i \in 1 .. n : x = lens[i]
  BY <1>1, <1>2 DEF Range
<1>4. SumTo(lens, n) \in Nat /\ \A x \in S : x <= SumTo(lens, n)
  <2>1. SumTo(lens, n) \in Nat
    BY <1>1, <1>2, SumType
  <2>2. ASSUME NEW i \in 1 .. n PROVE lens[i] <= SumTo(lens, n)
    <3>1. /\ SumTo(lens, i) >= lens[i] /\ SumTo(lens, i) <= SumTo(lens, n)
          /\ SumTo(lens, i) \in Nat /\ lens[i] \in Nat
      <4>1. i \in 0 .. Len(lens) /\ n \in 0 .. Len(lens) /\ i <= n /\ i \in 1 .. Len(lens)
        BY <1>1, <1>2
      <4> QED
        BY <4>1, SumType
    <3> QED
      BY <2>1, <3>1
  <2> QED
    BY <1>3, <2>1, <2>2
<1>5. PICK x \in S : \A y \in S : x >= y
  BY <1>3, <1>4, GreatestNatural
<1>6. Max(S) \in S /\ \A y \in S : Max(S) >= y
  BY <1>5, Zenon DEF Max
<1> QED
  BY <1>1, <1>3, <1>6

(* The prefix sums of some lengths give the lengths back.                  *)
LEMMA CumulativeLengths ==
  ASSUME NEW lens \in Seq(Nat), NEW cu, cu = Cumulative(lens)
  PROVE  /\ DOMAIN cu = 0 .. Len(lens)
         /\ \A i \in 0 .. Len(lens) : cu[i] = SumTo(lens, i)
         /\ \A i \in 1 .. Len(lens) : LenIn(cu, i) = lens[i]
<1>1. DOMAIN cu = 0 .. Len(lens) /\ \A i \in 0 .. Len(lens) : cu[i] = SumTo(lens, i)
  BY DEF Cumulative
<1>2. ASSUME NEW i \in 1 .. Len(lens) PROVE LenIn(cu, i) = lens[i]
  <2>1. i \in 0 .. Len(lens) /\ i - 1 \in 0 .. Len(lens)
    OBVIOUS
  <2>2. SumTo(lens, i) = SumTo(lens, i - 1) + lens[i] /\ SumTo(lens, i - 1) \in Nat /\ lens[i] \in Nat
    BY <2>1, SumFacts
  <2> QED
    BY <1>1, <2>1, <2>2 DEF LenIn
<1> QED
  BY <1>1, <1>2

(* The fields of the metadata of a batch.                                  *)
BatchMeta(kind, b, n, M, C, Q, md) ==
  /\ DOMAIN md.cuQ = 0 .. n /\ DOMAIN md.cuK = 0 .. n
  /\ \A i \in 0 .. n : md.cuQ[i] = SumTo(Q, i)
  /\ md.cuQ[0] = 0 /\ md.cuK[0] = 0
  /\ \A i \in 1 .. n : LenIn(md.cuQ, i) = Q[i] /\ LenIn(md.cuK, i) = C[i] + Q[i]
  /\ md.maxQ \in Nat /\ md.maxK \in Nat
  /\ \A i \in 1 .. n : Q[i] <= md.maxQ /\ C[i] + Q[i] <= md.maxK
  /\ kind = "initial" => md.maxK = md.maxQ
  /\ md.isPrefill = (kind # "decode")
  /\ md.slots = [r \in 1 .. SumTo(Q, n) |->
                  SlotOf(RowsOf(M, b)[r][1], RowsOf(M, b)[r][2])]
  /\ Len(md.slots) = SumTo(Q, n)
  /\ IF kind = "initial" THEN md.table = <<>>
     ELSE Len(md.table) = n /\ md.table = [i \in 1 .. n |-> Tables[M[i]]]

(* What StepMetadata builds for it.                                        *)
LEMMA StepMetadataFields ==
  ASSUME NEW kind, NEW b, NEW n, NEW M, NEW C, NEW Q, BatchShape(kind, b, n, M, C, Q),
         NEW md, md = StepMetadata(kind, M, b)
  PROVE  BatchMeta(kind, b, n, M, C, Q, md)
<1>1. /\ n \in Nat \ {0} /\ Q \in Seq(Nat) /\ Len(Q) = n /\ DOMAIN M = 1 .. n
      /\ C = [i \in 1 .. n |-> computed[M[i]]] /\ Q = [i \in 1 .. n |-> b[M[i]]]
      /\ \A i \in 1 .. n : Q[i] \in Nat \ {0} /\ C[i] \in Nat
      /\ kind = "initial" => \A i \in 1 .. n : C[i] = 0
      /\ kind = "decode" => \A i \in 1 .. n : Q[i] = 1
  BY DEF BatchShape
<1>2. PICK K : K = [i \in 1 .. n |-> C[i] + Q[i]]
  OBVIOUS
<1>3. K \in Seq(Nat) /\ Len(K) = n /\ \A i \in 1 .. n : K[i] = C[i] + Q[i]
  <2>1. \A i \in 1 .. n : K[i] = C[i] + Q[i]
    BY <1>2
  <2>2. \A i \in 1 .. n : K[i] \in Nat
    <3>1. \A i \in 1 .. n : Q[i] \in Nat \ {0} /\ C[i] \in Nat
      BY <1>1
    <3> QED
      BY <2>1, <3>1
  <2>3. K = [i \in 1 .. n |-> K[i]] /\ n \in Nat
    BY <1>1, <1>2
  <2> QED
    BY <2>1, <2>2, <2>3
<1>4. PICK rows : rows = RowsOf(M, b)
  OBVIOUS
<1>5. DOMAIN rows = 1 .. SumTo(Q, n)
  <2>1. RowsShape(n, rows, M, C, Q)
    BY <1>4, BatchRows
  <2> QED
    BY <2>1 DEF RowsShape, Indexed
<1>6. md = Metadata(kind # "decode", Q, K, [r \in 1 .. SumTo(Q, n) |-> SlotOf(rows[r][1], rows[r][2])],
                    IF kind = "initial" THEN <<>> ELSE [i \in 1 .. n |-> Tables[M[i]]])
  <2>1. [i \in DOMAIN M |-> b[M[i]]] = Q
    BY <1>1
  <2>2. [i \in DOMAIN M |-> computed[M[i]] + b[M[i]]] = K
    BY <1>1, <1>2
  <2> QED
    BY <1>1, <1>4, <1>5, <2>1, <2>2 DEF StepMetadata
<1>7. /\ md.isPrefill = (kind # "decode")
      /\ md.cuQ = Cumulative(Q) /\ md.cuK = Cumulative(K)
      /\ md.maxQ = IF kind # "decode" THEN Max(Range(Q)) ELSE 1
      /\ md.maxK = Max(Range(K))
      /\ md.slots = [r \in 1 .. SumTo(Q, n) |-> SlotOf(rows[r][1], rows[r][2])]
      /\ md.table = IF kind = "initial" THEN <<>> ELSE [i \in 1 .. n |-> Tables[M[i]]]
  BY <1>6 DEF Metadata
<1>8. /\ DOMAIN md.cuQ = 0 .. n /\ \A i \in 0 .. n : md.cuQ[i] = SumTo(Q, i)
      /\ \A i \in 1 .. n : LenIn(md.cuQ, i) = Q[i]
  <2>1. PICK cu : cu = md.cuQ
    OBVIOUS
  <2>2. Q \in Seq(Nat) /\ Len(Q) = n /\ cu = Cumulative(Q)
    BY <1>1, <1>7, <2>1
  <2>3. /\ DOMAIN cu = 0 .. n /\ \A i \in 0 .. n : cu[i] = SumTo(Q, i)
        /\ \A i \in 1 .. n : LenIn(cu, i) = Q[i]
    BY <2>2, CumulativeLengths
  <2> QED
    BY <2>1, <2>3
<1>9. /\ DOMAIN md.cuK = 0 .. n /\ \A i \in 0 .. n : md.cuK[i] = SumTo(K, i)
      /\ \A i \in 1 .. n : LenIn(md.cuK, i) = C[i] + Q[i]
  <2>1. PICK cu : cu = md.cuK
    OBVIOUS
  <2>2. K \in Seq(Nat) /\ Len(K) = n /\ cu = Cumulative(K)
    BY <1>3, <1>7, <2>1
  <2>3. /\ DOMAIN cu = 0 .. n /\ \A i \in 0 .. n : cu[i] = SumTo(K, i)
        /\ \A i \in 1 .. n : LenIn(cu, i) = K[i]
    BY <2>2, CumulativeLengths
  <2> QED
    BY <1>3, <2>1, <2>3
<1>10. md.cuQ[0] = 0 /\ md.cuK[0] = 0
  <2>1. SumTo(Q, 0) = 0 /\ SumTo(K, 0) = 0 /\ 0 \in 0 .. n
    BY <1>1, <1>3, SumFacts
  <2> QED
    BY <1>8, <1>9, <2>1
<1>11. md.maxK \in Nat /\ \A i \in 1 .. n : C[i] + Q[i] <= md.maxK
  <2>1. Max(Range(K)) \in Nat /\ \A i \in 1 .. n : K[i] <= Max(Range(K))
    <3>1. K \in Seq(Nat) /\ Len(K) = n /\ n # 0
      BY <1>1, <1>3
    <3> QED
      BY <3>1, MaxProperties
  <2> QED
    BY <1>3, <1>7, <2>1
<1>12. md.maxQ \in Nat /\ \A i \in 1 .. n : Q[i] <= md.maxQ
  <2>1. Max(Range(Q)) \in Nat /\ \A i \in 1 .. n : Q[i] <= Max(Range(Q))
    BY <1>1, MaxProperties
  <2>2. CASE kind = "decode"
    BY <1>1, <1>7, <2>2
  <2>3. CASE kind # "decode"
    BY <1>7, <2>1, <2>3
  <2> QED
    BY <2>2, <2>3
<1>13. kind = "initial" => md.maxK = md.maxQ
  <2> SUFFICES ASSUME kind = "initial" PROVE md.maxK = md.maxQ
    OBVIOUS
  <2>1. \A i \in 1 .. n : K[i] = Q[i]
    BY <1>1, <1>3
  <2>2. K = Q
    BY <1>1, <1>3, <2>1
  <2> QED
    BY <1>7, <2>2
<1>14. Len(md.slots) = SumTo(Q, n)
  <2>1. SumTo(Q, n) \in Nat
    BY <1>1, SumType
  <2> QED
    BY <1>7, <2>1
<1>15. kind # "initial" => Len(md.table) = n
  BY <1>1, <1>7
<1> QED
  BY <1>4, <1>7, <1>8, <1>9, <1>10, <1>11, <1>12, <1>13, <1>14, <1>15 DEF BatchMeta

(* A batch is a step.                                                      *)
LEMMA BatchIsStep ==
  ASSUME NEW kind \in Kinds, NEW b, NEW n, NEW M, NEW C, NEW Q, BatchShape(kind, b, n, M, C, Q),
         NEW md, BatchMeta(kind, b, n, M, C, Q, md)
  PROVE  Shape(n, md, M, C, Q)
<1>1. /\ n \in Nat \ {0} /\ Q \in Seq(Nat) /\ Len(Q) = n
      /\ \A i \in 1 .. n : Q[i] \in Nat \ {0} /\ C[i] \in Nat
      /\ kind = "initial" => \A i \in 1 .. n : C[i] = 0
  BY DEF BatchShape
<1>2. Batch(md) = n
  <2>1. Cardinality(0 .. n) = n + 1
    BY <1>1, FS_Interval
  <2> QED
    BY <1>1, <2>1 DEF Batch, BatchMeta
<1>3. Paged(md) <=> kind # "initial"
  <2>1. CASE kind = "initial"
    BY <2>1 DEF BatchMeta, Paged
  <2>2. CASE kind # "initial"
    <3>1. Len(md.table) = n
      BY <2>2 DEF BatchMeta
    <3>2. md.table # <<>>
      BY <1>1, <3>1
    <3> QED
      BY <2>2, <3>2 DEF Paged
  <2> QED
    BY <2>1, <2>2
<1>4. Paged(md) => \A i \in 1 .. n : md.table[i] = Tables[M[i]]
  BY <1>3 DEF BatchMeta
<1>5. ~Paged(md) => md.maxK = md.maxQ /\ \A i \in 1 .. n : C[i] = 0
  BY <1>1, <1>3 DEF BatchMeta
<1> QED
  BY <1>1, <1>2, <1>4, <1>5 DEF Shape, BatchMeta
-----------------------------------------------------------------------------
(* The cache.                                                              *)

(* The cache has a slot for every row of every block, and holds what was   *)
(* computed.                                                               *)
CacheShape == DOMAIN cache = 0 .. NumBlocks * BlockSize - 1

(* The N rows of a step are tokens of the members, at their slots.         *)
TokenRows(N, md, rows) ==
  /\ \A k \in 1 .. N : /\ rows[k][1] \in 1 .. Members /\ rows[k][2] \in 0 .. MaxLen - 1
                        /\ rows[k] = <<rows[k][1], rows[k][2]>>
  /\ md.slots = [k \in 1 .. N |-> SlotOf(rows[k][1], rows[k][2])]

(* The step writes the token, or the cache has it.                         *)
Provided(N, rows, m, p) ==
  \/ \E k \in 1 .. N : rows[k] = <<m, p>>
  \/ cache[SlotOf(m, p)] = <<m, p>>

(* Writing a step's rows puts each at its slot and leaves the others.      *)
LEMMA WrittenHolds ==
  ASSUME CacheShape, NEW N \in Nat, NEW md, NEW rows, TokenRows(N, md, rows),
         NEW kv, kv = Written(md, rows),
         NEW m \in 1 .. Members, NEW p \in 0 .. MaxLen - 1, Provided(N, rows, m, p)
  PROVE  kv[SlotOf(m, p)] = <<m, p>>
<1> USE DEF TokenRows, Provided
<1>1. PICK s : s = SlotOf(m, p)
  OBVIOUS
<1>2. s \in DOMAIN cache
  BY <1>1, SlotType DEF CacheShape
<1>3. DOMAIN md.slots = 1 .. N /\ \A k \in 1 .. N : md.slots[k] = SlotOf(rows[k][1], rows[k][2])
  OBVIOUS
<1>4. \A k \in 1 .. N : md.slots[k] = s => rows[k] = <<m, p>>
  <2> SUFFICES ASSUME NEW k \in 1 .. N, md.slots[k] = s PROVE rows[k] = <<m, p>>
    OBVIOUS
  <2>1. PICK a, c : a = rows[k][1] /\ c = rows[k][2]
    OBVIOUS
  <2>2. a \in 1 .. Members /\ c \in 0 .. MaxLen - 1 /\ rows[k] = <<a, c>>
    BY <2>1
  <2>3. SlotOf(a, c) = SlotOf(m, p)
    BY <1>1, <1>3, <2>1
  <2>4. a = m /\ c = p
    BY <2>2, <2>3, SlotUnique
  <2> QED
    BY <2>2, <2>4
<1>5. kv[s] = IF \E k \in DOMAIN md.slots : md.slots[k] = s
                THEN rows[CHOOSE k \in DOMAIN md.slots : md.slots[k] = s] ELSE cache[s]
  BY <1>2 DEF Written
<1>6. CASE \E k \in 1 .. N : md.slots[k] = s
  <2> DEFINE at == CHOOSE k \in 1 .. N : md.slots[k] = s
  <2>1. at \in 1 .. N /\ md.slots[at] = s
    BY <1>6
  <2>2. kv[s] = rows[at]
    BY <1>3, <1>5, <1>6
  <2> HIDE DEF at
  <2> QED
    BY <1>1, <1>4, <2>1, <2>2
<1>7. CASE ~\E k \in 1 .. N : md.slots[k] = s
  <2>1. ~\E k \in 1 .. N : rows[k] = <<m, p>>
    <3> SUFFICES ASSUME NEW k \in 1 .. N, rows[k] = <<m, p>> PROVE FALSE
      OBVIOUS
    <3>1. rows[k][1] = m /\ rows[k][2] = p
      OBVIOUS
    <3>2. md.slots[k] = s
      BY <1>1, <1>3, <3>1
    <3> QED
      BY <1>7, <3>2
  <2>2. kv[s] = cache[s]
    BY <1>3, <1>5, <1>7
  <2> QED
    BY <1>1, <2>1, <2>2
<1> QED
  BY <1>6, <1>7

-----------------------------------------------------------------------------
(* The invariant.                                                          *)

(* The prepared step is the one of n members M, each of which has C[i]     *)
(* tokens in the cache and computes Q[i] more, and has a plan.             *)
Ready(n, M, C, Q) ==
  /\ M \in [1 .. n -> 1 .. Members] /\ \A i, j \in 1 .. n : M[i] = M[j] => i = j
  /\ \A i \in 1 .. n : C[i] = computed[M[i]] /\ C[i] + Q[i] <= MaxLen
  /\ Shape(n, step.meta, M, C, Q)
  /\ RowsShape(n, step.rows, M, C, Q)
  /\ Planned(n, step.plan)
  /\ step.meta.slots =
       [k \in 1 .. SumTo(Q, n) |-> SlotOf(step.rows[k][1], step.rows[k][2])]

(* Between steps the cache and the results are those of what was computed; *)
(* a step that is ready is the one of a batch.                             *)
LayoutInv ==
  /\ computed \in [1 .. Members -> 0 .. MaxLen]
  /\ CacheShape
  /\ phase \in {"idle", "ready", "refused"}
  /\ phase = "ready" => \E n, M, C, Q : Ready(n, M, C, Q)
  /\ AttentionIsExact

LEMMA LayoutInvInit == LayoutInit => LayoutInv
<1> SUFFICES ASSUME LayoutInit PROVE LayoutInv
  OBVIOUS
<1>1. computed = [m \in 1 .. Members |-> 0] /\ phase = "idle"
      /\ cache = [s \in 0 .. NumBlocks * BlockSize - 1 |-> Zero]
  BY DEF LayoutInit
<1>2. computed \in [1 .. Members -> 0 .. MaxLen]
  <2>1. 0 \in 0 .. MaxLen
    BY LayoutShape
  <2> QED
    BY <1>1, <2>1
<1>3. \A m \in 1 .. Members : 0 .. computed[m] - 1 = {}
  BY <1>1
<1>4. AttentionIsExact
  BY <1>3 DEF AttentionIsExact, AttendsCausalHistory, CacheHoldsComputed
<1> QED
  BY <1>1, <1>2, <1>4 DEF LayoutInv, CacheShape

LEMMA LayoutInvPrepare ==
  ASSUME LayoutInv, NEW kind \in Kinds, NEW b \in Batches(kind), Prepare(kind, b)
  PROVE  LayoutInv'
<1>1. UNCHANGED <<workspace, computed, cache, result>> /\ phase' \in {"ready", "refused"}
  BY DEF Prepare
<1>2. PICK n, M, C, Q : BatchShape(kind, b, n, M, C, Q)
  BY BatchHasShape DEF LayoutInv
<1>3. PICK md : md = StepMetadata(kind, M, b)
  OBVIOUS
<1>4. step' = [rows |-> RowsOf(M, b), meta |-> md, plan |-> Plan(md)]
  BY <1>2, <1>3 DEF Prepare, BatchShape
<1>5. BatchMeta(kind, b, n, M, C, Q, md)
  BY <1>2, <1>3, StepMetadataFields
<1>6. Shape(n, md, M, C, Q)
  BY <1>2, <1>5, BatchIsStep
<1>7. RowsShape(n, RowsOf(M, b), M, C, Q) /\ Planned(n, Plan(md))
  BY <1>2, <1>6, BatchRows, PlanShape
<1>8. Ready(n, M, C, Q)'
  <2>1. PICK rows, plan : rows = RowsOf(M, b) /\ plan = Plan(md)
    OBVIOUS
  <2>2. step'.rows = rows /\ step'.meta = md /\ step'.plan = plan
    BY <1>4, <2>1
  <2>3. md.slots = [k \in 1 .. SumTo(Q, n) |-> SlotOf(rows[k][1], rows[k][2])]
    BY <1>5, <2>1 DEF BatchMeta
  <2>4. /\ M \in [1 .. n -> 1 .. Members] /\ \A i, j \in 1 .. n : M[i] = M[j] => i = j
        /\ C = [i \in 1 .. n |-> computed[M[i]]] /\ \A i \in 1 .. n : C[i] + Q[i] <= MaxLen
    BY <1>2, Zenon DEF BatchShape
  <2>5. \A i \in 1 .. n : C[i] = computed'[M[i]]
    BY <1>1, <2>4
  <2>6. Shape(n, md, M, C, Q) /\ RowsShape(n, rows, M, C, Q) /\ Planned(n, plan)
    BY <1>6, <1>7, <2>1
  <2> QED
    BY <2>2, <2>3, <2>4, <2>5, <2>6 DEF Ready
<1>9. AttentionIsExact'
  BY <1>1 DEF LayoutInv, AttentionIsExact, AttendsCausalHistory, CacheHoldsComputed
<1>10. CacheShape' /\ computed' \in [1 .. Members -> 0 .. MaxLen]
  BY <1>1 DEF LayoutInv, CacheShape
<1> QED
  BY <1>1, <1>8, <1>9, <1>10 DEF LayoutInv
(* The row of a token is inside the step.                                  *)
LEMMA RowPlace ==
  ASSUME NEW lens \in Seq(Nat), NEW n, n = Len(lens), NEW i \in 1 .. n, NEW r \in 1 .. lens[i]
  PROVE  /\ SumTo(lens, i - 1) \in Nat /\ lens[i] \in Nat
         /\ SumTo(lens, i) = SumTo(lens, i - 1) + lens[i]
         /\ SumTo(lens, i - 1) + r \in 1 .. SumTo(lens, n)
<1>1. n \in Nat /\ i - 1 \in 0 .. n /\ i \in 0 .. n /\ n \in 0 .. n /\ i <= n
  OBVIOUS
<1>2. /\ SumTo(lens, i - 1) \in Nat /\ SumTo(lens, i) = SumTo(lens, i - 1) + lens[i]
      /\ SumTo(lens, i) <= SumTo(lens, n) /\ SumTo(lens, n) \in Nat /\ lens[i] \in Nat
  BY <1>1, SumFacts
<1>3. PICK a, b, x : a = SumTo(lens, i - 1) /\ b = SumTo(lens, n) /\ x = lens[i]
  OBVIOUS
<1>4. a + r \in 1 .. b
  BY <1>2, <1>3
<1> QED
  BY <1>2, <1>3, <1>4

(* The rows of a member.                                                   *)
OwnRows(rows, m) == {k \in DOMAIN rows : rows[k][1] = m}

(* The members of a step are different.                                    *)
Distinct(n, M) == \A i, j \in 1 .. n : M[i] = M[j] => i = j

(* A member has as many rows in a step as it computes tokens.              *)
LEMMA RowsOfMember ==
  ASSUME NEW n, NEW md, NEW M, NEW C, NEW Q, Shape(n, md, M, C, Q),
         NEW rows, RowsShape(n, rows, M, C, Q),
         Distinct(n, M), NEW m
  PROVE  /\ \A i \in 1 .. n : M[i] = m => Cardinality(OwnRows(rows, m)) = Q[i]
         /\ (\A i \in 1 .. n : M[i] # m) => Cardinality(OwnRows(rows, m)) = 0
<1> PICK RR : RR = OwnRows(rows, m)
  OBVIOUS
<1>2. RR = {k \in DOMAIN rows : rows[k][1] = m} /\ \A i, j \in 1 .. n : M[i] = M[j] => i = j
  BY DEF OwnRows, Distinct
<1>1. /\ n \in Nat \ {0} /\ Q \in Seq(Nat) /\ Len(Q) = n
      /\ DOMAIN rows = 1 .. SumTo(Q, n)
      /\ \A i \in 1 .. n : \A r \in 1 .. Q[i] : rows[SumTo(Q, i - 1) + r] = <<M[i], C[i] + r - 1>>
  BY DEF Shape, RowsShape, Indexed
<1>3. ASSUME NEW k \in RR
      PROVE  \E i \in 1 .. n : M[i] = m /\ \E r \in 1 .. Q[i] : k = SumTo(Q, i - 1) + r
  <2>1. k \in 1 .. SumTo(Q, n) /\ rows[k][1] = m
    BY <1>1, <1>2
  <2>2. PICK i \in 1 .. n : \E r \in 1 .. Q[i] : k = SumTo(Q, i - 1) + r
    BY <1>1, <2>1, PartExists
  <2>3. PICK r \in 1 .. Q[i] : k = SumTo(Q, i - 1) + r
    BY <2>2
  <2>4. rows[k] = <<M[i], C[i] + r - 1>>
    BY <1>1, <2>3
  <2> QED
    BY <2>1, <2>3, <2>4
<1>4. ASSUME NEW i \in 1 .. n, M[i] = m PROVE Cardinality(RR) = Q[i]
  <2>1. PICK a, q : a = SumTo(Q, i - 1) /\ q = Q[i]
    OBVIOUS
  <2>2. a \in Nat /\ q \in Nat
    <3>1. i - 1 \in 0 .. n
      BY <1>1
    <3> QED
      BY <1>1, <2>1, <3>1, SumFacts
  <2>3. ASSUME NEW k \in RR PROVE k \in a + 1 .. a + q
    <3>1. PICK j \in 1 .. n : M[j] = m /\ \E r \in 1 .. Q[j] : k = SumTo(Q, j - 1) + r
      BY <1>3
    <3>2. j = i
      BY <1>2, <1>4, <3>1
    <3>3. PICK r \in 1 .. q : k = a + r
      BY <2>1, <3>1, <3>2
    <3> QED
      BY <2>2, <3>3
  <2>4. ASSUME NEW k \in a + 1 .. a + q PROVE k \in RR
    <3>1. PICK r : r = k - a
      OBVIOUS
    <3>2. r \in 1 .. q /\ k = a + r
      BY <2>2, <3>1
    <3>3. a + r \in 1 .. SumTo(Q, n)
      BY <1>1, <2>1, <3>2, RowPlace
    <3>4. rows[k] = <<m, C[i] + r - 1>>
      BY <1>1, <1>4, <2>1, <3>2
    <3> QED
      BY <1>1, <1>2, <3>2, <3>3, <3>4
  <2>5. RR = a + 1 .. a + q
    BY <2>3, <2>4
  <2>6. a + 1 \in Int /\ a + q \in Int
    BY <2>2
  <2>7. Cardinality(RR) = IF a + 1 > a + q THEN 0 ELSE (a + q) - (a + 1) + 1
    BY <2>5, <2>6, FS_Interval
  <2> QED
    BY <2>1, <2>2, <2>7
<1>5. ASSUME \A i \in 1 .. n : M[i] # m PROVE Cardinality(RR) = 0
  <2>1. RR = {}
    BY <1>3, <1>5
  <2> QED
    BY <2>1, FS_EmptySet
<1> QED
  BY <1>4, <1>5

(* Forward computes the rows of the step exactly and caches them.          *)
LEMMA LayoutInvForward ==
  ASSUME LayoutInv, Forward
  PROVE  LayoutInv'
<1>1. PICK n, M, C, Q : Ready(n, M, C, Q)
  BY DEF LayoutInv, Forward
<1>2. PICK md, plan, rows : md = step.meta /\ plan = step.plan /\ rows = step.rows
  OBVIOUS
<1>3. /\ M \in [1 .. n -> 1 .. Members] /\ \A i, j \in 1 .. n : M[i] = M[j] => i = j
      /\ \A i \in 1 .. n : C[i] = computed[M[i]] /\ C[i] + Q[i] <= MaxLen
      /\ Shape(n, md, M, C, Q) /\ RowsShape(n, rows, M, C, Q) /\ Planned(n, plan)
      /\ md.slots = [k \in 1 .. SumTo(Q, n) |-> SlotOf(rows[k][1], rows[k][2])]
  BY <1>1, <1>2, Zenon DEF Ready
<1>4. /\ n \in Nat \ {0} /\ Q \in Seq(Nat) /\ Len(Q) = n /\ SumTo(Q, n) \in Nat
      /\ \A i \in 1 .. n : Q[i] \in Nat \ {0} /\ C[i] \in Nat
      /\ DOMAIN rows = 1 .. SumTo(Q, n)
      /\ \A i \in 1 .. n : \A r \in 1 .. Q[i] : rows[SumTo(Q, i - 1) + r] = <<M[i], C[i] + r - 1>>
  <2>1. n \in Nat \ {0} /\ Q \in Seq(Nat) /\ Len(Q) = n
        /\ \A i \in 1 .. n : Q[i] \in Nat \ {0} /\ C[i] \in Nat
    BY <1>3 DEF Shape
  <2>2. SumTo(Q, n) \in Nat
    BY <2>1, SumType
  <2> QED
    BY <1>3, <2>1, <2>2 DEF RowsShape, Indexed
<1>5. PICK PQ, kv, out : /\ PQ = PadQueries(md, plan, rows)
                        /\ kv = Written(md, UnpadQueries(md, plan, PQ))
                        /\ out = UnpadQueries(md, plan, Attention(md, plan, PQ, PQ, kv))
  OBVIOUS
<1>6. kv = Written(md, rows)
  <2>1. UnpadQueries(md, plan, PadQueries(md, plan, rows)) = rows
    BY <1>3, UnpadPad
  <2> QED
    BY <1>5, <2>1
<1>7. /\ cache' = kv /\ phase' = "idle"
      /\ computed' = [m \in 1 .. Members |->
           computed[m] + Cardinality({k \in DOMAIN rows : rows[k][1] = m})]
      /\ result' = [m \in 1 .. Members |-> [p \in 0 .. MaxLen - 1 |->
           IF \E k \in DOMAIN rows : rows[k] = <<m, p>>
             THEN out[CHOOSE k \in DOMAIN rows : rows[k] = <<m, p>>] ELSE result[m][p]]]
  BY <1>2, <1>5, Zenon DEF Forward
<1>8. computed \in [1 .. Members -> 0 .. MaxLen] /\ CacheShape /\ AttentionIsExact
      /\ MaxLen \in Nat
  BY LayoutShape DEF LayoutInv
(* Each row is that of a token of a member ...                             *)
<1>9. ASSUME NEW k \in DOMAIN rows
      PROVE  \E i \in 1 .. n : \E r \in 1 .. Q[i] :
               k = SumTo(Q, i - 1) + r /\ rows[k] = <<M[i], C[i] + r - 1>>
  <2>1. k \in 1 .. SumTo(Q, n)
    BY <1>4
  <2>2. PICK i \in 1 .. n : \E r \in 1 .. Q[i] : k = SumTo(Q, i - 1) + r
    BY <1>4, <2>1, PartExists
  <2> QED
    BY <1>4, <2>2, ZenonT(40)
<1>10. ASSUME NEW k \in 1 .. SumTo(Q, n)
       PROVE  /\ rows[k][1] \in 1 .. Members /\ rows[k][2] \in 0 .. MaxLen - 1
              /\ rows[k] = <<rows[k][1], rows[k][2]>>
  <2>1. k \in DOMAIN rows
    BY <1>4
  <2>2a. PICK i \in 1 .. n : \E r \in 1 .. Q[i] : rows[k] = <<M[i], C[i] + r - 1>>
    BY <1>9, <2>1
  <2>2. PICK r \in 1 .. Q[i] : rows[k] = <<M[i], C[i] + r - 1>>
    BY <2>2a
  <2>3. M[i] \in 1 .. Members
    BY <1>3
  <2>4. C[i] + r - 1 \in 0 .. MaxLen - 1
    <3>1. C[i] \in Nat /\ Q[i] \in Nat /\ C[i] + Q[i] <= MaxLen /\ MaxLen \in Nat
      BY <1>3, <1>4, <1>8
    <3>2. PICK c, q : c = C[i] /\ q = Q[i]
      OBVIOUS
    <3>3. c \in Nat /\ q \in Nat /\ c + q <= MaxLen /\ r \in 1 .. q
      BY <3>1, <3>2
    <3>4. c + r - 1 \in 0 .. MaxLen - 1
      BY <1>8, <3>3
    <3> QED
      BY <3>2, <3>4
  <2> QED
    BY <2>2, <2>3, <2>4
(* ... and every token it computes has one.                                *)
<1>11. ASSUME NEW i \in 1 .. n, NEW p \in C[i] .. C[i] + Q[i] - 1
       PROVE  \E k \in DOMAIN rows : rows[k] = <<M[i], p>>
  <2>1. PICK r : r = p - C[i] + 1
    OBVIOUS
  <2>2. r \in 1 .. Q[i] /\ C[i] + r - 1 = p
    <3>1. C[i] \in Nat /\ Q[i] \in Nat
      BY <1>4
    <3> QED
      BY <2>1, <3>1
  <2>3. SumTo(Q, i - 1) + r \in 1 .. SumTo(Q, n)
    BY <1>4, <2>2, RowPlace
  <2>4. rows[SumTo(Q, i - 1) + r] = <<M[i], p>>
    BY <1>4, <2>2
  <2> QED
    BY <1>4, <2>3, <2>4
<1>12. ASSUME NEW m \in 1 .. Members, NEW p \in 0 .. MaxLen - 1,
              (\E k \in DOMAIN rows : rows[k] = <<m, p>>) \/ p < computed[m]
       PROVE  kv[SlotOf(m, p)] = <<m, p>>
  <2>1. (\E k \in 1 .. SumTo(Q, n) : rows[k] = <<m, p>>) \/ cache[SlotOf(m, p)] = <<m, p>>
    <3>0. DOMAIN rows = 1 .. SumTo(Q, n)
      BY <1>4
    <3>1. CASE p < computed[m]
      <4>1. computed[m] \in 0 .. MaxLen
        BY <1>8
      <4>2. p \in 0 .. computed[m] - 1
        BY <1>8, <3>1, <4>1
      <4> QED
        BY <1>8, <4>2 DEF AttentionIsExact, CacheHoldsComputed
    <3>2. CASE \E k \in DOMAIN rows : rows[k] = <<m, p>>
      BY <3>0, <3>2
    <3> QED
      BY <1>12, <3>1, <3>2
  <2> QED
    <3>1. PICK N : N = SumTo(Q, n)
      OBVIOUS
    <3>2. /\ N \in Nat /\ CacheShape /\ kv = Written(md, rows)
          /\ md.slots = [k \in 1 .. N |-> SlotOf(rows[k][1], rows[k][2])]
      BY <1>3, <1>4, <1>6, <1>8, <3>1
    <3>3. \A k \in 1 .. N : /\ rows[k][1] \in 1 .. Members /\ rows[k][2] \in 0 .. MaxLen - 1
                            /\ rows[k] = <<rows[k][1], rows[k][2]>>
      BY <1>10, <3>1
    <3>4. Provided(N, rows, m, p)
      BY <2>1, <3>1 DEF Provided
    <3>5. TokenRows(N, md, rows)
      BY <3>2, <3>3, Zenon DEF TokenRows
    <3> QED
      BY <1>12, <3>2, <3>4, <3>5, WrittenHolds
<1>13. Holds(n, kv, M, C, Q)
  <2> SUFFICES ASSUME NEW i \in 1 .. n, NEW p \in 0 .. C[i] + Q[i] - 1
               PROVE  kv[SlotOf(M[i], p)] = <<M[i], p>>
    BY DEF Holds
  <2>1. M[i] \in 1 .. Members /\ C[i] = computed[M[i]] /\ C[i] \in Nat /\ Q[i] \in Nat
        /\ C[i] + Q[i] <= MaxLen
    BY <1>3, <1>4
  <2>2. p \in 0 .. MaxLen - 1
    <3>1. PICK x : x = C[i] + Q[i]
      OBVIOUS
    <3>2. x \in Nat /\ x <= MaxLen /\ p \in 0 .. x - 1
      BY <2>1, <3>1
    <3> QED
      BY <1>8, <3>2
  <2>3. p < computed[M[i]] \/ p \in C[i] .. C[i] + Q[i] - 1
    BY <2>1
  <2>4. (\E k \in DOMAIN rows : rows[k] = <<M[i], p>>) \/ p < computed[M[i]]
    BY <1>11, <2>3
  <2> QED
    BY <1>12, <2>1, <2>2, <2>4
<1>14. ASSUME NEW k \in DOMAIN rows, NEW m, NEW p, rows[k] = <<m, p>>
       PROVE  out[k] = Exact(m, p)
  <2>1a. PICK i \in 1 .. n : \E r \in 1 .. Q[i] :
           k = SumTo(Q, i - 1) + r /\ rows[k] = <<M[i], C[i] + r - 1>>
    BY <1>9
  <2>1. PICK r \in 1 .. Q[i] : k = SumTo(Q, i - 1) + r /\ rows[k] = <<M[i], C[i] + r - 1>>
    BY <2>1a
  <2>2. out[SumTo(Q, i - 1) + r] = Exact(M[i], C[i] + r - 1)
    <3>1. Shape(n, md, M, C, Q) /\ RowsShape(n, rows, M, C, Q) /\ Planned(n, plan)
      BY <1>3
    <3>2. PQ = PadQueries(md, plan, rows)
          /\ out = UnpadQueries(md, plan, Attention(md, plan, PQ, PQ, kv))
      BY <1>5
    <3> QED
      BY <1>13, <3>1, <3>2, AttentionShape
  <2>3. m = M[i] /\ p = C[i] + r - 1
    BY <1>14, <2>1
  <2> QED
    BY <2>1, <2>2, <2>3
<1>15. ASSUME NEW m \in 1 .. Members
       PROVE  /\ computed'[m] \in 0 .. MaxLen
              /\ \A p \in 0 .. computed'[m] - 1 :
                   p < computed[m] \/ \E k \in DOMAIN rows : rows[k] = <<m, p>>
  <2>0. PICK RR : RR = OwnRows(rows, m)
    OBVIOUS
  <2>1. computed'[m] = computed[m] + Cardinality(RR)
    BY <1>7, <2>0 DEF OwnRows
  <2>2. computed[m] \in 0 .. MaxLen
    BY <1>8
  <2>a. /\ \A i \in 1 .. n : M[i] = m => Cardinality(RR) = Q[i]
        /\ (\A i \in 1 .. n : M[i] # m) => Cardinality(RR) = 0
    <3>1. /\ Shape(n, md, M, C, Q) /\ RowsShape(n, rows, M, C, Q)
          /\ Distinct(n, M)
      BY <1>3 DEF Distinct
    <3> QED
      BY <2>0, <3>1, RowsOfMember
  <2>3. CASE \A i \in 1 .. n : M[i] # m
    <3>1. Cardinality(RR) = 0
      BY <2>3, <2>a
    <3>2. PICK x, y : x = computed'[m] /\ y = computed[m]
      OBVIOUS
    <3>3. x = y /\ y \in 0 .. MaxLen
      BY <1>8, <2>1, <2>2, <3>1, <3>2
    <3>4. \A p \in 0 .. x - 1 : p < y
      BY <3>3
    <3> QED
      BY <3>2, <3>3, <3>4
  <2>4. ASSUME NEW i \in 1 .. n, M[i] = m
        PROVE  /\ computed'[m] \in 0 .. MaxLen
               /\ \A p \in 0 .. computed'[m] - 1 :
                    p < computed[m] \/ \E k \in DOMAIN rows : rows[k] = <<m, p>>
    <3>1. Cardinality(RR) = Q[i]
      BY <2>4, <2>a
    <3>2. C[i] = computed[m] /\ C[i] + Q[i] <= MaxLen /\ C[i] \in Nat /\ Q[i] \in Nat
      BY <1>3, <1>4, <2>4
    <3>3. computed'[m] = C[i] + Q[i]
      BY <2>1, <3>1, <3>2
    <3>4. computed'[m] \in 0 .. MaxLen
      BY <1>8, <3>2, <3>3
    <3>5. ASSUME NEW p \in 0 .. computed'[m] - 1, ~(p < computed[m])
          PROVE  \E k \in DOMAIN rows : rows[k] = <<m, p>>
      <4>1. p \in C[i] .. C[i] + Q[i] - 1
        BY <3>2, <3>3, <3>5
      <4> QED
        BY <1>11, <2>4, <4>1
    <3> QED
      BY <3>4, <3>5
  <2> QED
    BY <2>3, <2>4
<1>16. computed' \in [1 .. Members -> 0 .. MaxLen]
  BY <1>7, <1>15
<1>17. CacheShape'
  <2>1. DOMAIN kv = DOMAIN cache
    BY <1>6 DEF Written
  <2> QED
    BY <1>7, <1>8, <2>1 DEF CacheShape
<1>18. ASSUME NEW m \in 1 .. Members, NEW p \in 0 .. computed'[m] - 1
       PROVE  result'[m][p] = Exact(m, p) /\ cache'[SlotOf(m, p)] = <<m, p>>
  <2>1. computed'[m] \in 0 .. MaxLen
        /\ (p < computed[m] \/ \E k \in DOMAIN rows : rows[k] = <<m, p>>)
    BY <1>15
  <2>2. p \in 0 .. MaxLen - 1
    BY <1>8, <2>1
  <2>3. cache'[SlotOf(m, p)] = <<m, p>>
    BY <1>7, <1>12, <2>1, <2>2
  <2>4. result'[m][p] = IF \E k \in DOMAIN rows : rows[k] = <<m, p>>
                          THEN out[CHOOSE k \in DOMAIN rows : rows[k] = <<m, p>>]
                          ELSE result[m][p]
    BY <1>7, <2>2
  <2>5. CASE \E k \in DOMAIN rows : rows[k] = <<m, p>>
    <3> DEFINE at == CHOOSE k \in DOMAIN rows : rows[k] = <<m, p>>
    <3>1. at \in DOMAIN rows /\ rows[at] = <<m, p>>
      BY <2>5
    <3>2. result'[m][p] = out[at]
      BY <2>4, <2>5
    <3> HIDE DEF at
    <3> QED
      BY <1>14, <2>3, <3>1, <3>2
  <2>6. CASE ~\E k \in DOMAIN rows : rows[k] = <<m, p>>
    <3>1. p \in 0 .. computed[m] - 1
      <4>1. computed[m] \in 0 .. MaxLen /\ p < computed[m]
        BY <1>8, <2>1, <2>6
      <4> QED
        BY <1>8, <2>2, <4>1
    <3>2. result[m][p] = Exact(m, p)
      BY <1>8, <3>1 DEF AttentionIsExact, AttendsCausalHistory, Exact
    <3> QED
      BY <2>3, <2>4, <2>6, <3>2
  <2> QED
    BY <2>5, <2>6
<1>19. AttentionIsExact'
  BY <1>18 DEF AttentionIsExact, AttendsCausalHistory, CacheHoldsComputed, Exact
<1> QED
  BY <1>7, <1>16, <1>17, <1>19 DEF LayoutInv

(* Every step keeps the invariant.                                         *)
LEMMA LayoutInvStep ==
  ASSUME LayoutInv, [LayoutNext]_layoutVars
  PROVE  LayoutInv'
<1>1. CASE Forward
  BY <1>1, LayoutInvForward
<1>2. ASSUME NEW kind \in Kinds, NEW b \in Batches(kind), Prepare(kind, b) PROVE LayoutInv'
  BY <1>2, LayoutInvPrepare
<1>3. CASE UNCHANGED layoutVars
  <2>1. UNCHANGED <<computed, cache, step, result, phase>>
    BY <1>3 DEF layoutVars
  <2>2. \A n, M, C, Q : Ready(n, M, C, Q)' <=> Ready(n, M, C, Q)
    BY <2>1 DEF Ready
  <2> QED
    BY <2>1, <2>2 DEF LayoutInv, CacheShape, AttentionIsExact, AttendsCausalHistory,
                      CacheHoldsComputed
<1> QED
  BY <1>1, <1>2, <1>3 DEF LayoutNext

(* However the prompts were chunked and whatever layout each step took,    *)
(* every computed row attended to exactly the causal history of its own    *)
(* request, and left its key and value at its slot of the cache.           *)
THEOREM LayoutAttentionIsExact == LayoutSpec => []AttentionIsExact
<1>1. LayoutInv => AttentionIsExact
  BY DEF LayoutInv
<1> QED
  BY <1>1, LayoutInvInit, LayoutInvStep, PTL DEF LayoutSpec
-----------------------------------------------------------------------------
(* Refusals.                                                               *)

LEMMA ProductType ==
  ASSUME NEW a \in Nat, NEW b \in Nat
  PROVE  a * b \in Nat
OBVIOUS

(* The sizes of layouts are numbers.                                       *)
LEMMA SplitBytesType ==
  ASSUME NEW q \in Nat, NEW k \in Nat, NEW c \in Nat
  PROVE  SplitBytes(q, k, c) \in Nat
<1>1. PICK rows, wide : rows = ScoreRows(q, k, c) /\ wide = Larger(q, rows)
  OBVIOUS
<1>2. rows \in Nat
  <2>1. ScoreTile \in Nat
    BY LayoutShape
  <2> QED
    BY <1>1, <2>1 DEF ScoreRows
<1>3. wide \in Nat
  BY <1>1, <1>2 DEF Larger
<1>4. QueryHeads \in Nat /\ KvHeads \in Nat /\ HeadDim \in Nat
  BY LayoutShape
<1>5. wide * QueryHeads \in Nat /\ k * KvHeads \in Nat /\ k * HeadDim \in Nat
      /\ q * HeadDim \in Nat /\ rows * k \in Nat
  BY <1>2, <1>3, <1>4, ProductType
<1>6. wide * QueryHeads * HeadDim \in Nat /\ k * KvHeads * HeadDim \in Nat
  BY <1>4, <1>5, ProductType
<1>7. PICK x1, x2, x3, x4, x5 :
        x1 = wide * QueryHeads * HeadDim /\ x2 = k * KvHeads * HeadDim /\ x3 = k * HeadDim
        /\ x4 = q * HeadDim /\ x5 = rows * k
  OBVIOUS
<1>8. x1 \in Nat /\ x2 \in Nat /\ x3 \in Nat /\ x4 \in Nat /\ x5 \in Nat
  BY <1>5, <1>6, <1>7
<1>9. x1 * 8 + x2 * 4 + x3 * 16 + x4 * 16 + x5 * 24 \in Nat
  BY <1>8
<1>10. SplitBytes(q, k, c) = x1 * 8 + x2 * 4 + x3 * 16 + x4 * 16 + x5 * 24
  BY <1>1, <1>7, Zenon DEF SplitBytes
<1> QED
  BY <1>9, <1>10

LEMMA MemberRoomType ==
  ASSUME workspace \in Nat, NEW md, Len(md.slots) \in Nat
  PROVE  MemberRoom(md) \in Int
<1>1. QueryHeads \in Nat /\ HeadDim \in Nat
  BY LayoutShape
<1>2. PICK x : x = Len(md.slots) * QueryHeads * HeadDim
  OBVIOUS
<1>3. x \in Nat
  <2>1. Len(md.slots) * QueryHeads \in Nat
    BY <1>1, ProductType
  <2> QED
    BY <1>1, <1>2, <2>1, ProductType
<1>4. MemberRoom(md) = workspace - x * 8
  BY <1>2 DEF MemberRoom
<1> QED
  BY <1>3, <1>4

(* The metadata of a batch are well-formed ...                             *)
LEMMA BatchIsLogical ==
  ASSUME NEW kind, NEW b, NEW n, NEW M, NEW C, NEW Q, BatchShape(kind, b, n, M, C, Q),
         NEW md, BatchMeta(kind, b, n, M, C, Q, md), Batch(md) = n
  PROVE  LogicalOK(md)
<1>1. /\ n \in Nat \ {0} /\ Q \in Seq(Nat) /\ Len(Q) = n
      /\ \A i \in 1 .. n : Q[i] \in Nat \ {0} /\ C[i] \in Nat
  BY DEF BatchShape
<1>2. /\ DOMAIN md.cuQ = DOMAIN md.cuK /\ md.cuQ[0] = 0 /\ md.cuK[0] = 0
      /\ \A i \in 1 .. n : LenIn(md.cuQ, i) = Q[i] /\ LenIn(md.cuK, i) = C[i] + Q[i]
      /\ \A i \in 1 .. n : Q[i] <= md.maxQ /\ C[i] + Q[i] <= md.maxK
      /\ Len(md.slots) = md.cuQ[n]
      /\ md.table = <<>> \/ Len(md.table) = n
  <2>1. n \in 0 .. n
    BY <1>1
  <2> QED
    BY <2>1 DEF BatchMeta
<1>3. \A i \in 1 .. n : /\ 0 <= LenIn(md.cuQ, i) /\ 0 <= LenIn(md.cuK, i)
                        /\ LenIn(md.cuQ, i) <= md.maxQ /\ LenIn(md.cuK, i) <= md.maxK
                        /\ LenIn(md.cuQ, i) <= LenIn(md.cuK, i)
  <2> SUFFICES ASSUME NEW i \in 1 .. n
               PROVE  /\ 0 <= LenIn(md.cuQ, i) /\ 0 <= LenIn(md.cuK, i)
                      /\ LenIn(md.cuQ, i) <= md.maxQ /\ LenIn(md.cuK, i) <= md.maxK
                      /\ LenIn(md.cuQ, i) <= LenIn(md.cuK, i)
    OBVIOUS
  <2>1. PICK c, q : c = C[i] /\ q = Q[i]
    OBVIOUS
  <2>2. c \in Nat /\ q \in Nat /\ LenIn(md.cuQ, i) = q /\ LenIn(md.cuK, i) = c + q
        /\ q <= md.maxQ /\ c + q <= md.maxK
    BY <1>1, <1>2, <2>1
  <2> QED
    BY <2>2
<1> QED
  BY <1>2, <1>3 DEF LogicalOK

(* ... and address blocks of its members, all of them in the cache.        *)
LEMMA BatchIsAddressed ==
  ASSUME NEW kind, NEW b, NEW n, NEW M, NEW C, NEW Q, BatchShape(kind, b, n, M, C, Q),
         NEW md, BatchMeta(kind, b, n, M, C, Q, md)
  PROVE  AddressesOK(md)
<1>1. /\ n \in Nat \ {0} /\ Q \in Seq(Nat) /\ Len(Q) = n
      /\ M \in [1 .. n -> 1 .. Members]
      /\ \A i \in 1 .. n : Q[i] \in Nat \ {0} /\ C[i] \in Nat /\ C[i] + Q[i] <= MaxLen
  BY DEF BatchShape
<1>2. PICK rows, N : rows = RowsOf(M, b) /\ N = SumTo(Q, n)
  OBVIOUS
<1>3. /\ md.slots = [r \in 1 .. N |-> SlotOf(rows[r][1], rows[r][2])]
      /\ \A i \in 1 .. n : LenIn(md.cuK, i) = C[i] + Q[i]
      /\ md.table = <<>> \/ md.table = [i \in 1 .. n |-> Tables[M[i]]]
  BY <1>2 DEF BatchMeta
<1>4. /\ MaxLen \in Nat /\ BlockSize \in Nat \ {0}
      /\ \A m \in 1 .. Members : /\ Tables[m] \in Seq(0 .. NumBlocks - 1)
                                 /\ Len(Tables[m]) * BlockSize >= MaxLen
  BY LayoutShape
<1>5. ASSUME NEW r \in DOMAIN md.slots PROVE md.slots[r] < NumBlocks * BlockSize
  <2>1. r \in 1 .. N /\ md.slots[r] = SlotOf(rows[r][1], rows[r][2])
    BY <1>3
  <2>2. PICK i \in 1 .. n : \E x \in 1 .. Q[i] : r = SumTo(Q, i - 1) + x
    BY <1>1, <1>2, <2>1, PartExists
  <2>3. PICK x \in 1 .. Q[i] : r = SumTo(Q, i - 1) + x
    BY <2>2
  <2>4. rows[r] = <<M[i], C[i] + x - 1>>
    <3>1. RowsShape(n, rows, M, C, Q)
      BY <1>2, BatchRows
    <3> QED
      BY <2>3, <3>1 DEF RowsShape
  <2>5. M[i] \in 1 .. Members /\ C[i] + x - 1 \in 0 .. MaxLen - 1
    <3>1. PICK c, q : c = C[i] /\ q = Q[i]
      OBVIOUS
    <3>2. c \in Nat /\ q \in Nat /\ c + q <= MaxLen /\ x \in 1 .. q
      BY <1>1, <3>1
    <3>3. c + x - 1 \in 0 .. MaxLen - 1
      BY <1>4, <3>2
    <3> QED
      BY <1>1, <3>1, <3>3
  <2>6. SlotOf(M[i], C[i] + x - 1) \in 0 .. NumBlocks * BlockSize - 1
    BY <2>5, SlotType
  <2>7. PICK y : y = NumBlocks * BlockSize
    OBVIOUS
  <2>8. y \in Nat
    BY <2>7, LayoutShape, ProductType
  <2>9. md.slots[r] \in 0 .. y - 1
    BY <2>1, <2>4, <2>6, <2>7
  <2> QED
    BY <2>7, <2>8, <2>9
<1>6. ASSUME NEW i \in DOMAIN md.table
      PROVE  /\ Len(md.table[i]) >= DivCeil(LenIn(md.cuK, i), BlockSize)
             /\ \A x \in Range(md.table[i]) : x \in 0 .. NumBlocks - 1
  <2>1. i \in 1 .. n /\ md.table[i] = Tables[M[i]]
    <3>1. PICK table : table = md.table
      OBVIOUS
    <3>2. CASE table = <<>>
      <4>1. DOMAIN table = {}
        BY <3>2
      <4> QED
        BY <3>1, <4>1
    <3>3. CASE table = [j \in 1 .. n |-> Tables[M[j]]]
      <4>1. i \in DOMAIN table
        BY <3>1
      <4> QED
        BY <3>1, <3>3, <4>1
    <3> QED
      BY <1>3, <3>1, <3>2, <3>3
  <2>2. PICK T, X : T = Tables[M[i]] /\ X = 0 .. NumBlocks - 1
    OBVIOUS
  <2>3. T \in Seq(X) /\ Len(T) * BlockSize >= MaxLen
    BY <1>1, <1>4, <2>1, <2>2
  <2>4. PICK k : k = C[i] + Q[i]
    OBVIOUS
  <2>5. k \in Nat \ {0} /\ k <= MaxLen /\ LenIn(md.cuK, i) = k
    BY <1>1, <1>3, <2>1, <2>4
  <2>6. PICK L, B, d : L = Len(T) /\ B = BlockSize /\ d = DivCeil(k, B)
    OBVIOUS
  <2>7. L \in Nat /\ B \in Nat \ {0} /\ L * B >= MaxLen
    BY <1>4, <2>3, <2>6
  <2>8. d \in Nat \ {0} /\ (d - 1) * B < k
    BY <2>5, <2>6, <2>7, ChunkCount
  <2>9. d - 1 \in Nat /\ ~(L <= d - 1)
    <3>1. d - 1 \in Nat
      BY <2>8
    <3>2. ASSUME L <= d - 1 PROVE FALSE
      <4>1. L < d - 1 => L * B + B <= (d - 1) * B
        BY <2>7, <3>1, ProductMonotone
      <4>2. L = d - 1 => L * B = (d - 1) * B
        OBVIOUS
      <4>3. PICK x, y : x = L * B /\ y = (d - 1) * B
        OBVIOUS
      <4>4. x \in Nat /\ y \in Nat /\ x >= MaxLen /\ y < k /\ (L < d - 1 => x + B <= y)
            /\ (L = d - 1 => x = y)
        BY <2>7, <2>8, <3>1, <4>1, <4>2, <4>3
      <4>5. L < d - 1 \/ L = d - 1
        BY <2>7, <3>1, <3>2
      <4> QED
        BY <1>4, <2>5, <2>7, <4>4, <4>5
    <3> QED
      BY <3>1, <3>2
  <2>10. L >= d
    BY <2>7, <2>8, <2>9
  <2>11. \A x \in Range(T) : x \in X
    BY <2>3 DEF Range
  <2> QED
    BY <2>1, <2>2, <2>5, <2>6, <2>10, <2>11
<1> QED
  BY <1>5, <1>6 DEF AddressesOK

(* A step that does not fit has a member that does not fit row by row.     *)
LEMMA RefusalIsForWorkspace ==
  ASSUME workspace \in Nat,
         NEW n, NEW md, NEW M, NEW C, NEW Q, Shape(n, md, M, C, Q), ~Fits(md)
  PROVE  \/ MemberRoom(md) < 0
         \/ \E i \in 1 .. Batch(md) :
              SplitBytes(LenIn(md.cuQ, i), LenIn(md.cuK, i), 1) > MemberRoom(md)
<1>1. /\ n \in Nat \ {0} /\ Batch(md) = n /\ Q \in Seq(Nat) /\ Len(Q) = n
      /\ \A i \in 1 .. n : Q[i] \in Nat \ {0} /\ C[i] \in Nat
      /\ \A i \in 1 .. n : LenIn(md.cuK, i) = C[i] + Q[i]
      /\ Len(md.slots) = SumTo(Q, n)
  BY DEF Shape
<1>2. PICK room : room = MemberRoom(md)
  OBVIOUS
<1>3. room \in Int
  <2>1. Len(md.slots) \in Nat
    BY <1>1, SumType
  <2> QED
    BY <1>2, <2>1, MemberRoomType
<1>4. \/ ~(room >= 0)
      \/ \E i \in 1 .. n : LET w == MemberWork(md, i) IN
           w.split /\ ~(SplitBytes(LenIn(md.cuQ, i), LenIn(md.cuK, i), w.chunk) <= room)
  BY <1>1, <1>2, Zenon DEF Fits
<1>5. CASE ~(room >= 0)
  BY <1>2, <1>3, <1>5
<1>6. ASSUME NEW i \in 1 .. n, MemberWork(md, i).split,
             ~(SplitBytes(LenIn(md.cuQ, i), LenIn(md.cuK, i), MemberWork(md, i).chunk) <= room)
      PROVE  SplitBytes(LenIn(md.cuQ, i), LenIn(md.cuK, i), 1) > room
  <2>1. PICK q, k : q = LenIn(md.cuQ, i) /\ k = LenIn(md.cuK, i)
    OBVIOUS
  <2>2. q \in Nat \ {0} /\ k \in Nat
    <3>1. LenIn(md.cuQ, i) = Q[i]
      BY QueryLengths
    <3> QED
      BY <1>1, <2>1, <3>1
  <2>3. PICK c : c = SplitChunk(q, k, room)
    OBVIOUS
  <2>4. MemberWork(md, i) =
          IF FullBytes(1, q, k, StandardChunk(q)) <= room
            THEN [chunk |-> StandardChunk(q), split |-> FALSE]
            ELSE [chunk |-> c, split |-> TRUE]
    BY <1>2, <2>1, <2>3, Zenon DEF MemberWork
  <2>5. MemberWork(md, i).chunk = c
    BY <1>6, <2>4
  <2>6. c \in Nat \ {0} /\ (c = 1 \/ ~(SplitBytes(q, k, c) > room))
    BY <2>2, <2>3, SplitChunkProperties
  <2>7. SplitBytes(q, k, c) \in Nat /\ ~(SplitBytes(q, k, c) <= room)
    <3>1. c \in Nat /\ q \in Nat /\ k \in Nat
      BY <2>2, <2>6
    <3>2. SplitBytes(q, k, c) \in Nat
      BY <3>1, SplitBytesType
    <3> QED
      BY <1>6, <2>1, <2>5, <3>2
  <2>8. SplitBytes(q, k, c) > room
    BY <1>3, <2>7
  <2> QED
    BY <2>1, <2>6, <2>8
<1> QED
  BY <1>1, <1>2, <1>4, <1>5, <1>6

(* A step is refused only when some member's smallest layout is too big.   *)
RefusalInv == LayoutInv /\ workspace \in Workspaces /\ RefusedOnlyForWorkspace

LEMMA RefusalInvPrepare ==
  ASSUME RefusalInv, NEW kind \in Kinds, NEW b \in Batches(kind), Prepare(kind, b)
  PROVE  RefusedOnlyForWorkspace'
<1> SUFFICES ASSUME phase' = "refused" PROVE RefusedOnlyForWorkspace'
  BY DEF RefusedOnlyForWorkspace
<1>1. PICK n, M, C, Q : BatchShape(kind, b, n, M, C, Q)
  BY BatchHasShape DEF RefusalInv, LayoutInv
<1>2. PICK md : md = StepMetadata(kind, M, b)
  OBVIOUS
<1>3. /\ workspace' = workspace /\ step'.meta = md
      /\ phase' = IF LogicalOK(md) /\ AddressesOK(md) /\ Fits(md) THEN "ready" ELSE "refused"
  BY <1>1, <1>2 DEF Prepare, BatchShape
<1>4. BatchMeta(kind, b, n, M, C, Q, md)
  BY <1>1, <1>2, StepMetadataFields
<1>5. Shape(n, md, M, C, Q)
  BY <1>1, <1>4, BatchIsStep
<1>6. LogicalOK(md) /\ AddressesOK(md)
  <2>1. Batch(md) = n
    BY <1>5 DEF Shape
  <2> QED
    BY <1>1, <1>4, <2>1, BatchIsLogical, BatchIsAddressed
<1>7. ~Fits(md)
  BY <1>3, <1>6
<1>8. workspace \in Nat
  BY LayoutShape DEF RefusalInv
<1>9. \/ MemberRoom(md) < 0
      \/ \E i \in 1 .. Batch(md) :
           SplitBytes(LenIn(md.cuQ, i), LenIn(md.cuK, i), 1) > MemberRoom(md)
  BY <1>5, <1>7, <1>8, RefusalIsForWorkspace
<1>10. MemberRoom(step.meta)' = MemberRoom(md)
  BY <1>3 DEF MemberRoom
<1> QED
  BY <1>3, <1>9, <1>10 DEF RefusedOnlyForWorkspace

LEMMA RefusalInvStep ==
  ASSUME RefusalInv, [LayoutNext]_layoutVars
  PROVE  RefusalInv'
<1>1. LayoutInv'
  BY LayoutInvStep DEF RefusalInv
<1>2. (workspace \in Workspaces)'
  BY DEF RefusalInv, LayoutNext, Forward, Prepare, layoutVars
<1>3. RefusedOnlyForWorkspace'
  <2>1. CASE Forward
    <3>1. phase' = "idle"
      BY <2>1 DEF Forward
    <3> QED
      BY <3>1 DEF RefusedOnlyForWorkspace
  <2>2. ASSUME NEW kind \in Kinds, NEW b \in Batches(kind), Prepare(kind, b)
        PROVE  RefusedOnlyForWorkspace'
    BY <2>2, RefusalInvPrepare
  <2>3. CASE UNCHANGED layoutVars
    <3>1. workspace' = workspace /\ step' = step /\ phase' = phase
      BY <2>3 DEF layoutVars
    <3>2. MemberRoom(step.meta)' = MemberRoom(step.meta)
      BY <3>1 DEF MemberRoom
    <3> QED
      BY <3>1, <3>2 DEF RefusalInv, RefusedOnlyForWorkspace
  <2> QED
    BY <2>1, <2>2, <2>3 DEF LayoutNext
<1> QED
  BY <1>1, <1>2, <1>3 DEF RefusalInv

(* Metadata built from a plan are never refused as malformed; a step is    *)
(* refused only if some member, split and run one row at a time, does not  *)
(* fit next to the outputs.                                                *)
THEOREM LayoutRefusedOnlyForWorkspace == LayoutSpec => []RefusedOnlyForWorkspace
<1>1. LayoutInit => RefusalInv
  BY LayoutInvInit DEF LayoutInit, RefusalInv, RefusedOnlyForWorkspace
<1>2. RefusalInv => RefusedOnlyForWorkspace
  BY DEF RefusalInv
<1> QED
  BY <1>1, <1>2, RefusalInvStep, PTL DEF LayoutSpec

-----------------------------------------------------------------------------
(* The capacity of the history buffers.                                    *)

(* g satisfies the recursive equation of the powers of NextCapacity.       *)
IsPower(g, n) == g = [k \in 0 .. n |-> IF k = 0 THEN 1 ELSE 2 * g[k - 1]]

(* The recursion defines a function ...                                    *)
LEMMA PowerExists ==
  \A n \in Nat : \E g : IsPower(g, n)
<1> DEFINE S == {n \in Nat : \E g : IsPower(g, n)}
<1>1. 0 \in S
  <2> DEFINE g == [k \in 0 .. 0 |-> 1]
  <2>1. IsPower(g, 0)
    BY DEF IsPower
  <2> QED
    BY <2>1
<1>2. ASSUME NEW n \in Nat, n \in S PROVE n + 1 \in S
  <2>1. PICK g : IsPower(g, n)
    BY <1>2
  <2> DEFINE g2 == [k \in 0 .. n + 1 |-> IF k <= n THEN g[k] ELSE 2 * g[n]]
  <2>2. \A k \in 0 .. n + 1 : g2[k] = IF k = 0 THEN 1 ELSE 2 * g2[k - 1]
    <3> SUFFICES ASSUME NEW k \in 0 .. n + 1
                 PROVE  g2[k] = IF k = 0 THEN 1 ELSE 2 * g2[k - 1]
      OBVIOUS
    <3>1. CASE k <= n
      <4>1. g2[k] = g[k] /\ (k # 0 => g2[k - 1] = g[k - 1])
        BY <3>1
      <4>2. g[k] = IF k = 0 THEN 1 ELSE 2 * g[k - 1]
        BY <2>1, <3>1 DEF IsPower
      <4> QED
        BY <4>1, <4>2
    <3>2. CASE k = n + 1
      <4>1. g2[k - 1] = g[n] /\ k # 0 /\ g2[k] = 2 * g[n]
        BY <3>2
      <4> QED
        BY <4>1
    <3> QED
      BY <3>1, <3>2
  <2>3. IsPower(g2, n + 1)
    BY <2>2 DEF IsPower
  <2> HIDE DEF g2
  <2> QED
    BY <2>3
<1>3. S = Nat
  <2>1. S \in SUBSET Nat
    OBVIOUS
  <2> HIDE DEF S
  <2> QED
    BY <1>1, <1>2, <2>1, SetInduction
<1> QED
  BY <1>3

(* ... whose values outgrow their index.                                   *)
LEMMA PowerGrows ==
  ASSUME NEW n \in Nat, NEW g, IsPower(g, n)
  PROVE  \A k \in 0 .. n : g[k] \in Nat /\ g[k] >= k + 1
<1> DEFINE S == {k \in Nat : k <= n => g[k] \in Nat /\ g[k] >= k + 1}
<1>1. \A k \in 0 .. n : g[k] = IF k = 0 THEN 1 ELSE 2 * g[k - 1]
  BY DEF IsPower
<1>2. 0 \in S
  BY <1>1
<1>3. ASSUME NEW k \in Nat, k \in S PROVE k + 1 \in S
  <2>1. CASE k + 1 <= n
    <3>1. g[k + 1] = 2 * g[k]
      <4>1. g[k + 1] = IF k + 1 = 0 THEN 1 ELSE 2 * g[k + 1 - 1]
        BY <1>1, <2>1
      <4> QED
        BY <4>1
    <3>2. g[k] \in Nat /\ g[k] >= k + 1
      BY <1>3, <2>1
    <3> QED
      BY <3>1, <3>2
  <2>2. CASE ~(k + 1 <= n)
    BY <2>2
  <2> QED
    BY <2>1, <2>2
<1>4. S = Nat
  <2>1. S \in SUBSET Nat
    OBVIOUS
  <2> HIDE DEF S
  <2> QED
    BY <1>2, <1>3, <2>1, SetInduction
<1> QED
  BY <1>4

(* The next capacity holds the tokens it was asked for.                    *)
LEMMA CapacityFits ==
  ASSUME NEW n \in Nat
  PROVE  NextCapacity(n) \in Nat /\ NextCapacity(n) >= n
<1> DEFINE power == CHOOSE g : IsPower(g, n)
           Enough(k) == power[k] >= n
           K == {k \in 0 .. n : Enough(k)}
           least == CHOOSE k \in 0 .. n : Enough(k) /\ \A j \in 0 .. n : Enough(j) => k <= j
<1>1. IsPower(power, n)
  BY PowerExists, Zenon
<1>2. NextCapacity(n) = power[least]
  BY Zenon DEF NextCapacity, IsPower
<1> HIDE DEF power
<1>3. \A k \in 0 .. n : power[k] \in Nat /\ power[k] >= k + 1
  BY <1>1, PowerGrows
<1>4. n \in K
  BY <1>3
<1>5. \E k \in 0 .. n : Enough(k) /\ \A j \in 0 .. n : Enough(j) => k <= j
  <2>1. K \in SUBSET Nat /\ K # {}
    BY <1>4
  <2>2. PICK m \in K : \A j \in K : m <= j
    <3> HIDE DEF K
    <3> QED
      BY <2>1, LeastNatural
  <2> QED
    BY <2>2
<1>6. least \in 0 .. n /\ Enough(least)
  BY <1>5
<1> HIDE DEF least
<1> QED
  BY <1>2, <1>3, <1>6

-----------------------------------------------------------------------------
(* The histories of a batch.                                               *)

(* A finite sequence of whatever values.                                   *)
IsSequence(s) == s \in Seq(Range(s))

LEMMA IndexedIsSequence ==
  ASSUME NEW f, NEW n \in Nat, Indexed(f, n)
  PROVE  IsSequence(f) /\ Len(f) = n
<1>1. f \in [1 .. n -> Range(f)] /\ DOMAIN f = 1 .. n
  BY DEF Indexed, Range
<1> QED
  BY <1>1 DEF IsSequence

LEMMA SequenceOfAny ==
  ASSUME NEW T, NEW s \in Seq(T)
  PROVE  IsSequence(s)
BY DEF IsSequence, Range

(* A row's unique tokens are a sequence.                                   *)
LEMMA UniqueHistoryLength ==
  ASSUME NEW r
  PROVE  \E n \in Nat : Indexed(UniqueHistory(r), n) /\ Len(UniqueHistory(r)) = n
<1> DEFINE seen == {t \in Token : Count(r.history, t) > 0}
           Nth(i) == CHOOSE t \in seen : Cardinality({v \in seen : v < t}) = i - 1
           u == [i \in 1 .. Cardinality(seen) |-> Nth(i)]
<1>1. CASE ~Penalised(r)
  <2>1. UniqueHistory(r) = <<>>
    BY <1>1 DEF UniqueHistory
  <2>2. Indexed(<<>>, 0) /\ Len(<<>>) = 0
    BY DEF Indexed
  <2> QED
    BY <2>1, <2>2
<1>2. CASE Penalised(r)
  <2>1. UniqueHistory(r) = u
    BY <1>2, Zenon DEF UniqueHistory
  <2>2. Cardinality(seen) \in Nat
    <3>1. IsFiniteSet(Token)
      BY SamplerShape, FS_Interval DEF Token
    <3> QED
      BY <3>1, FS_Subset, FS_CardinalityType
  <2> DEFINE n == Cardinality(seen)
  <2>3. Indexed(u, n)
    <3> HIDE DEF Nth, n, seen
    <3> QED
      BY DEF Indexed, n
  <2>4. Len(u) = n
    <3> HIDE DEF u, n
    <3> QED
      BY <2>2, <2>3, IndexedIsSequence DEF n
  <2> QED
    BY <2>1, <2>2, <2>3, <2>4
<1> QED
  BY <1>1, <1>2

(* What a prepared batch has: as many counts as tokens.                    *)
PairedHistory(p) ==
  /\ IsSequence(p.tokens) /\ IsSequence(p.counts)
  /\ Len(p.counts) = Len(p.tokens)

LEMMA PreparedIsPaired ==
  ASSUME NEW batch, IsSequence(batch)
  PROVE  PairedHistory(PrepareBatch(batch))
<1> DEFINE n == Len(batch)
           unique == [i \in DOMAIN batch |-> UniqueHistory(batch[i])]
           lens == [i \in DOMAIN batch |-> Len(unique[i])]
           counts == [i \in DOMAIN batch |->
                        [k \in DOMAIN unique[i] |-> Count(batch[i].history, unique[i][k])]]
           p == PrepareBatch(batch)
<1> SUFFICES PairedHistory(p)
  OBVIOUS
<1>1. n \in Nat /\ DOMAIN batch = 1 .. n
  BY DEF IsSequence
<1>2. p.tokens = FlattenSeq(unique) /\ p.counts = FlattenSeq(counts)
  BY DEF PrepareBatch
<1>3. \A i \in 1 .. n : lens[i] \in Nat /\ Indexed(unique[i], lens[i])
  <2> TAKE i \in 1 .. n
  <2>1. unique[i] = UniqueHistory(batch[i]) /\ lens[i] = Len(unique[i])
    BY <1>1
  <2>2. PICK m \in Nat : Indexed(UniqueHistory(batch[i]), m) /\ Len(UniqueHistory(batch[i])) = m
    BY UniqueHistoryLength
  <2> HIDE DEF unique, lens
  <2> QED
    BY <2>1, <2>2
<1>4. \A i \in 1 .. n : Indexed(counts[i], lens[i])
  <2> TAKE i \in 1 .. n
  <2>1. counts[i] = [k \in DOMAIN unique[i] |-> Count(batch[i].history, unique[i][k])]
    BY <1>1
  <2>2. DOMAIN unique[i] = 1 .. lens[i]
    <3> HIDE DEF unique, lens
    <3> QED
      BY <1>3 DEF Indexed
  <2> HIDE DEF unique, lens, counts
  <2> QED
    BY <2>1, <2>2 DEF Indexed
<1>5. lens \in Seq(Nat) /\ Len(lens) = n
  <2>1. lens \in [1 .. n -> Nat]
    <3>1. lens = [i \in 1 .. n |-> lens[i]]
      BY <1>1
    <3> HIDE DEF lens
    <3> QED
      BY <1>3, <3>1
  <2> HIDE DEF lens
  <2> QED
    BY <1>1, <2>1
<1>6. Indexed(unique, n) /\ Indexed(counts, n)
  BY <1>1 DEF Indexed
<1>7. CASE n = 0
  <2>1. unique = <<>> /\ counts = <<>>
    BY <1>1, <1>7
  <2>2. FlattenSeq(<<>>) = <<>>
    BY DEF FlattenSeq
  <2>3. p.tokens = <<>> /\ p.counts = <<>>
    <3> HIDE DEF unique, counts, p
    <3> QED
      BY <1>2, <2>1, <2>2
  <2> HIDE DEF p, unique, counts
  <2> QED
    <3>1. <<>> \in Seq(Range(<<>>))
      OBVIOUS
    <3> QED
      BY <2>3, <3>1 DEF PairedHistory, IsSequence
<1>8. CASE n # 0
  <2> HIDE DEF n, unique, counts, lens, p
  <2>1. Parts(n, unique, lens) /\ Parts(n, counts, lens)
    BY <1>1, <1>3, <1>4, <1>5, <1>6, <1>8 DEF Parts
  <2>2. Joined(n, unique, lens, FlattenSeq(unique)) /\ Joined(n, counts, lens, FlattenSeq(counts))
    BY <2>1, FlattenProperties
  <2>3. SumTo(lens, n) \in Nat
    BY <1>1, <1>5, SumType
  <2>4. Indexed(p.tokens, SumTo(lens, n)) /\ Indexed(p.counts, SumTo(lens, n))
    BY <1>2, <2>2 DEF Joined
  <2> QED
    BY <2>3, <2>4, IndexedIsSequence DEF PairedHistory
<1> QED
  BY <1>7, <1>8
-----------------------------------------------------------------------------
(* The inductive invariant.                                                *)

Buffers == {"capacity", "tokens", "counts"}

(* Both history buffers are as long as the workspace records.              *)
SoundWorkspace(w) ==
  /\ Buffers \subseteq DOMAIN w
  /\ w.capacity \in Nat
  /\ IsSequence(w.tokens) /\ Len(w.tokens) = w.capacity
  /\ IsSequence(w.counts) /\ Len(w.counts) = w.capacity

(* Where a launched batch reads the history buffers, or will.              *)
Launched == {"launch", "row", "greedy", "categorical", "scale", "sort", "limit", "select"}

(* Rows of a call under way passed validate.                               *)
ValidCall ==
  /\ IsSequence(call)
  /\ \A i \in DOMAIN call : /\ Valid(call[i].params)
                            /\ call[i].params.topK \in Nat \cup {NoTopK}

(* Between calls and during a device call, the generator is where the      *)
(* calls that returned left it.                                            *)
GeneratorInStep ==
  /\ rng \in Nat /\ drawn \in Nat
  /\ pc = "host" => ~cuda
  /\ cuda => rng = drawn

SamplerInv ==
  /\ ValidCall
  /\ GeneratorInStep
  /\ FailureKeepsSeeds
  /\ PairedHistory(prep)
  /\ SoundWorkspace(ws)
  /\ pc \in Launched => Len(prep.tokens) <= ws.capacity
  /\ pc # "refused"

LEMMA SamplerInvImplies ==
  SamplerInv => DeviceCallsAreSafe
BY DEF SamplerInv, DeviceCallsAreSafe, HistoryFits, AdmittedParamsRun, SoundWorkspace, Launched

(* Params that passed validate pass the check of the kernel's entry.       *)
LEMMA ValidIsAccepted ==
  ASSUME NEW p, Valid(p), p.topK \in Nat \cup {NoTopK}
  PROVE  KernelAccepts(p)
<1>1. Vocab \in Nat \ {0} /\ p.topK # 0 /\ p.temp >= 0 /\ p.topP \in 1 .. PUnit
  BY SamplerShape DEF Valid
<1>2. PreparedTopK(p) \in 1 .. Vocab
  BY <1>1 DEF PreparedTopK, NoTopK
<1> QED
  BY <1>1, <1>2 DEF KernelAccepts

LEMMA EmptyIsSequence ==
  IsSequence(<<>>) /\ DOMAIN <<>> = {}
BY DEF IsSequence

(* Buffers of n zeros.                                                     *)
LEMMA ZerosLength ==
  ASSUME NEW n \in Nat
  PROVE  IsSequence(Zeros(n)) /\ Len(Zeros(n)) = n
<1>1. Indexed(Zeros(n), n)
  BY DEF Indexed, Zeros
<1> QED
  BY <1>1, IndexedIsSequence

(* Overwriting the head of a buffer keeps its length.                      *)
LEMMA OverwriteHead ==
  ASSUME NEW s, NEW u, IsSequence(s), IsSequence(u), Len(s) <= Len(u)
  PROVE  /\ IsSequence(s \o SubSeq(u, Len(s) + 1, Len(u)))
         /\ Len(s \o SubSeq(u, Len(s) + 1, Len(u))) = Len(u)
<1> DEFINE T == Range(s) \cup Range(u)
           rest == SubSeq(u, Len(s) + 1, Len(u))
<1>1. s \in Seq(T) /\ u \in Seq(T)
  BY DEF IsSequence
<1> HIDE DEF T
<1>2. rest \in Seq(T) /\ Len(rest) = Len(u) - Len(s)
  BY <1>1
<1> HIDE DEF rest
<1>3. s \o rest \in Seq(T) /\ Len(s \o rest) = Len(u)
  BY <1>1, <1>2
<1> QED
  BY <1>3, SequenceOfAny DEF rest

(* The other device memory does not matter to the history buffers.         *)
SameBuffers(w, w2) ==
  /\ DOMAIN w2 = DOMAIN w
  /\ w2.capacity = w.capacity /\ w2.tokens = w.tokens /\ w2.counts = w.counts

LEMMA SameBuffersSound ==
  ASSUME NEW w, SoundWorkspace(w), NEW w2, SameBuffers(w, w2)
  PROVE  SoundWorkspace(w2)
BY DEF SoundWorkspace, SameBuffers

LEMMA SamplerInit ==
  Init => SamplerInv
<1> SUFFICES ASSUME Init PROVE SamplerInv
  OBVIOUS
<1>1. ValidCall
  BY EmptyIsSequence DEF Init, ValidCall
<1>2. GeneratorInStep /\ pc \notin Launched /\ pc # "refused"
  BY DEF Init, GeneratorInStep, Launched
<1>3. FailureKeepsSeeds
  BY EmptyIsSequence DEF Init, FailureKeepsSeeds
<1>4. PairedHistory(prep)
  BY EmptyIsSequence DEF Init, NoPrep, PairedHistory
<1>5. SoundWorkspace(ws)
  <2>1. Buffers \subseteq DOMAIN ws
    BY DEF Init, Fresh, Buffers
  <2>2. ws.capacity = 0 /\ ws.tokens = <<>> /\ ws.counts = <<>>
    BY DEF Init, Fresh
  <2> QED
    BY <2>1, <2>2, EmptyIsSequence DEF SoundWorkspace
<1> QED
  BY <1>1, <1>2, <1>3, <1>4, <1>5 DEF SamplerInv

(* A stage that keeps the call's rows and its seeds and moves no history   *)
(* buffer.                                                                 *)
LEMMA QuietStage ==
  ASSUME SamplerInv, UNCHANGED <<cuda, rng, call, prep, origin, drawn>>,
         ws' = ws \/ SameBuffers(ws, ws'),
         pc # "returned",
         pc' \notin {"host", "refused"},
         pc' \in Launched => pc \in Launched
  PROVE  SamplerInv'
<1>1. ValidCall' /\ GeneratorInStep' /\ FailureKeepsSeeds'
  BY DEF SamplerInv, ValidCall, GeneratorInStep, FailureKeepsSeeds
<1>2. PairedHistory(prep)' /\ pc' # "refused"
  BY DEF SamplerInv
<1>3. SoundWorkspace(ws)' /\ ws'.capacity = ws.capacity
  BY SameBuffersSound DEF SamplerInv, SameBuffers
<1>4. (pc \in Launched => Len(prep.tokens) <= ws.capacity)'
  BY <1>3 DEF SamplerInv
<1> QED
  BY <1>1, <1>2, <1>3, <1>4 DEF SamplerInv

(* The stages of a row write the sort buffers, the flag, the limits and    *)
(* the maximum of the workspace.                                           *)
LEMMA StageWrites ==
  ASSUME SamplerInv, StartRow \/ CategoricalRow \/ ScaleRow \/ SortRow \/ LimitRow
  PROVE  SameBuffers(ws, ws')
<1>1. CASE StartRow
  <2>1. PICK a, b : ws' = [ws EXCEPT !.keysIn = a, !.wide = b]
    BY <1>1, Zenon DEF StartRow
  <2> QED
    BY <2>1 DEF SameBuffers
<1>2. CASE CategoricalRow
  <2>1. PICK b : ws' = [ws EXCEPT !.wide = b]
    BY <1>2, Zenon DEF CategoricalRow
  <2> QED
    BY <2>1 DEF SameBuffers
<1>3. CASE ScaleRow
  <2>1. PICK a, b, c : ws' = [ws EXCEPT !.wide = b, !.maximum = c, !.keysIn = a]
    BY <1>3, Zenon DEF ScaleRow
  <2> QED
    BY <2>1 DEF SameBuffers
<1>4. CASE SortRow
  <2>1. PICK a, b : ws' = [ws EXCEPT !.idsOut = a, !.keysOut = b]
    BY <1>4, Zenon DEF SortRow
  <2> QED
    BY <2>1 DEF SameBuffers
<1>5. CASE LimitRow
  <2>1. PICK a : ws' = [ws EXCEPT !.limits = a]
    BY <1>5, Zenon DEF LimitRow
  <2> QED
    BY <2>1 DEF SameBuffers
<1> QED
  BY <1>1, <1>2, <1>3, <1>4, <1>5

LEMMA RowStages ==
  ASSUME SamplerInv,
         StartRow \/ GreedyRow \/ CategoricalRow \/ ScaleRow \/ SortRow \/ LimitRow
           \/ SelectRow \/ LastRow
  PROVE  SamplerInv'
<1>1. CASE StartRow
  <2>1. pc = "row" /\ pc' \in Launched /\ UNCHANGED <<cuda, rng, call, prep, origin, drawn>>
    BY <1>1 DEF StartRow, Launched
  <2>2. SameBuffers(ws, ws')
    BY <1>1, StageWrites
  <2> QED
    BY <2>1, <2>2, QuietStage DEF Launched
<1>2. CASE GreedyRow
  <2>1. pc = "greedy" /\ pc' = "row" /\ UNCHANGED <<cuda, rng, call, prep, origin, drawn, ws>>
    BY <1>2 DEF GreedyRow, RowDone
  <2> QED
    BY <2>1, QuietStage DEF Launched
<1>3. CASE CategoricalRow
  <2>1. pc = "categorical" /\ pc' = "row" /\ UNCHANGED <<cuda, rng, call, prep, origin, drawn>>
    BY <1>3 DEF CategoricalRow, RowDone
  <2>2. SameBuffers(ws, ws')
    BY <1>3, StageWrites
  <2> QED
    BY <2>1, <2>2, QuietStage DEF Launched
<1>4. CASE ScaleRow
  <2>1. pc = "scale" /\ pc' = "sort" /\ UNCHANGED <<cuda, rng, call, prep, origin, drawn>>
    BY <1>4 DEF ScaleRow
  <2>2. SameBuffers(ws, ws')
    BY <1>4, StageWrites
  <2> QED
    BY <2>1, <2>2, QuietStage DEF Launched
<1>5. CASE SortRow
  <2>1. pc = "sort" /\ pc' = "limit" /\ UNCHANGED <<cuda, rng, call, prep, origin, drawn>>
    BY <1>5 DEF SortRow
  <2>2. SameBuffers(ws, ws')
    BY <1>5, StageWrites
  <2> QED
    BY <2>1, <2>2, QuietStage DEF Launched
<1>6. CASE LimitRow
  <2>1. pc = "limit" /\ pc' = "select" /\ UNCHANGED <<cuda, rng, call, prep, origin, drawn>>
    BY <1>6 DEF LimitRow
  <2>2. SameBuffers(ws, ws')
    BY <1>6, StageWrites
  <2> QED
    BY <2>1, <2>2, QuietStage DEF Launched
<1>7. CASE SelectRow
  <2>1. pc = "select" /\ pc' = "row" /\ UNCHANGED <<cuda, rng, call, prep, origin, drawn, ws>>
    BY <1>7 DEF SelectRow, RowDone
  <2> QED
    BY <2>1, QuietStage DEF Launched
<1>8. CASE LastRow
  <2>1. pc = "row" /\ pc' = "finish" /\ UNCHANGED <<cuda, rng, call, prep, origin, drawn, ws>>
    BY <1>8 DEF LastRow
  <2> QED
    BY <2>1, QuietStage DEF Launched
<1> QED
  BY <1>1, <1>2, <1>3, <1>4, <1>5, <1>6, <1>7, <1>8

LEMMA ForwardKeepsInv ==
  ASSUME SamplerInv, NEW batch \in SampledBatches, SamplerForward(batch)
  PROVE  SamplerInv'
<1>1. ValidCall'
  BY BatchTypes DEF SamplerForward, ValidCall, IsSequence
<1>2. GeneratorInStep' /\ pc' \notin Launched /\ pc' # "refused"
  BY DEF SamplerInv, SamplerForward, GeneratorInStep, Launched
<1>3. FailureKeepsSeeds'
  BY EmptyIsSequence DEF SamplerForward, FailureKeepsSeeds
<1>4. PairedHistory(prep)' /\ SoundWorkspace(ws)'
  BY DEF SamplerInv, SamplerForward
<1> QED
  BY <1>1, <1>2, <1>3, <1>4 DEF SamplerInv

LEMMA HostKeepsInv ==
  ASSUME SamplerInv, ForwardHostRow \/ ForwardHostReturns \/ ForwardHostFails
  PROVE  SamplerInv'
<1>1. pc = "host" /\ ~cuda /\ UNCHANGED <<cuda, ws, call, prep>>
  BY DEF SamplerInv, GeneratorInStep, ForwardHostRow, ForwardHostReturns, ForwardHostFails
<1>2. pc' \in {"host", "returned", "failed"} /\ rng' \in Nat /\ drawn' \in Nat
  <2>1. Vocab \in Nat
    BY SamplerShape
  <2> QED
    BY <1>1, <2>1 DEF SamplerInv, GeneratorInStep, ForwardHostRow, ForwardHostReturns,
                      ForwardHostFails
<1>3. ValidCall' /\ PairedHistory(prep)' /\ SoundWorkspace(ws)'
  BY <1>1 DEF SamplerInv, ValidCall
<1>4. GeneratorInStep' /\ FailureKeepsSeeds' /\ pc' \notin Launched /\ pc' # "refused"
  BY <1>1, <1>2 DEF GeneratorInStep, FailureKeepsSeeds, Launched
<1> QED
  BY <1>3, <1>4 DEF SamplerInv

LEMMA PrepareKeepsInv ==
  ASSUME SamplerInv, PrepareRows
  PROVE  SamplerInv'
<1>1. /\ prep' = PrepareBatch(call) /\ pc' = "workspace"
      /\ origin' = [i \in DOMAIN call |-> rng + i - 1]
      /\ UNCHANGED <<cuda, rng, ws, call, drawn>>
  BY DEF PrepareRows
<1>2. ValidCall' /\ GeneratorInStep' /\ SoundWorkspace(ws)' /\ pc' \notin Launched /\ pc' # "refused"
  BY <1>1 DEF SamplerInv, ValidCall, GeneratorInStep, Launched
<1>3. FailureKeepsSeeds'
  BY <1>1 DEF SamplerInv, GeneratorInStep, FailureKeepsSeeds
<1>4. PairedHistory(prep)'
  BY <1>1, PreparedIsPaired DEF SamplerInv, ValidCall
<1> QED
  BY <1>2, <1>3, <1>4 DEF SamplerInv

LEMMA WorkspaceKeepsInv ==
  ASSUME SamplerInv, EnsureWorkspace
  PROVE  SamplerInv'
<1> DEFINE required == Len(prep.tokens)
           next == NextCapacity(required)
<1>1. pc = "workspace" /\ UNCHANGED <<cuda, rng, call, prep, origin, drawn>>
  BY DEF EnsureWorkspace
<1>2. ValidCall' /\ PairedHistory(prep)'
  BY <1>1 DEF SamplerInv, ValidCall
<1>3. pc' \in {"launch", "failed"}
  BY DEF EnsureWorkspace
<1>4. GeneratorInStep' /\ FailureKeepsSeeds' /\ pc' # "refused"
  BY <1>1, <1>3 DEF SamplerInv, GeneratorInStep, FailureKeepsSeeds
<1>5. required \in Nat
  BY DEF SamplerInv, PairedHistory, IsSequence
<1>6. next \in Nat /\ next >= required
  BY <1>5, CapacityFits
<1>7. SoundWorkspace(ws)' /\ (pc' = "launch" => required <= ws'.capacity)
  <2>1. CASE ws' = [ws EXCEPT !.capacity = next, !.tokens = Zeros(next), !.counts = Zeros(next)]
    <3>1. Buffers \subseteq DOMAIN ws
      BY DEF SamplerInv, SoundWorkspace
    <3>2. /\ Buffers \subseteq DOMAIN ws'
          /\ ws'.capacity = next /\ ws'.tokens = Zeros(next) /\ ws'.counts = Zeros(next)
      <4> HIDE DEF next
      <4> QED
        BY <2>1, <3>1 DEF Buffers
    <3> HIDE DEF next
    <3> QED
      BY <1>6, <3>2, ZerosLength DEF SoundWorkspace
  <2>2. CASE UNCHANGED ws /\ pc' = "failed"
    BY <2>2 DEF SamplerInv
  <2>3. CASE UNCHANGED ws /\ ~Short(required)
    BY <1>5, <2>3 DEF SamplerInv, SoundWorkspace, Short
  <2> QED
    BY <2>1, <2>2, <2>3, Zenon DEF EnsureWorkspace
<1>8. (pc \in Launched => Len(prep.tokens) <= ws.capacity)'
  BY <1>1, <1>3, <1>7 DEF Launched
<1> QED
  BY <1>2, <1>4, <1>7, <1>8 DEF SamplerInv

LEMMA LaunchKeepsInv ==
  ASSUME SamplerInv, Launch
  PROVE  SamplerInv'
<1> DEFINE Overwrite(s, u) == s \o SubSeq(u, Len(s) + 1, Len(u))
<1>1. pc = "launch" /\ UNCHANGED <<cuda, rng, call, prep, origin, drawn>>
  BY DEF Launch
<1>2. \A i \in DOMAIN call : KernelAccepts(call[i].params)
  BY ValidIsAccepted DEF SamplerInv, ValidCall
<1>3. \/ pc' = "finish" /\ UNCHANGED ws
      \/ /\ pc' = "row"
         /\ ws' = [ws EXCEPT !.tokens = Overwrite(prep.tokens, @), !.counts = Overwrite(prep.counts, @)]
  BY <1>2, Zenon DEF Launch
<1>4. CASE pc' = "finish" /\ UNCHANGED ws
  BY <1>1, <1>4, QuietStage DEF Launched
<1>5. CASE /\ pc' = "row"
           /\ ws' = [ws EXCEPT !.tokens = Overwrite(prep.tokens, @), !.counts = Overwrite(prep.counts, @)]
  <2>1. /\ Buffers \subseteq DOMAIN ws /\ ws.capacity \in Nat
        /\ IsSequence(ws.tokens) /\ Len(ws.tokens) = ws.capacity
        /\ IsSequence(ws.counts) /\ Len(ws.counts) = ws.capacity
        /\ IsSequence(prep.tokens) /\ IsSequence(prep.counts)
        /\ Len(prep.counts) = Len(prep.tokens) /\ Len(prep.tokens) <= ws.capacity
    BY <1>1 DEF SamplerInv, SoundWorkspace, PairedHistory, Launched
  <2>2. /\ IsSequence(Overwrite(prep.tokens, ws.tokens)) /\ Len(Overwrite(prep.tokens, ws.tokens)) = ws.capacity
        /\ IsSequence(Overwrite(prep.counts, ws.counts)) /\ Len(Overwrite(prep.counts, ws.counts)) = ws.capacity
    BY <2>1, OverwriteHead
  <2> HIDE DEF Overwrite
  <2>3. /\ Buffers \subseteq DOMAIN ws' /\ ws'.capacity = ws.capacity
        /\ ws'.tokens = Overwrite(prep.tokens, ws.tokens) /\ ws'.counts = Overwrite(prep.counts, ws.counts)
    BY <1>5, <2>1 DEF Buffers
  <2>4. SoundWorkspace(ws)'
    BY <2>1, <2>2, <2>3 DEF SoundWorkspace
  <2>5. ValidCall' /\ GeneratorInStep' /\ FailureKeepsSeeds' /\ PairedHistory(prep)' /\ pc' # "refused"
    BY <1>1, <1>5 DEF SamplerInv, ValidCall, GeneratorInStep, FailureKeepsSeeds
  <2> QED
    BY <1>1, <2>1, <2>3, <2>4, <2>5 DEF SamplerInv
<1> QED
  BY <1>3, <1>4, <1>5

LEMMA FinishKeepsInv ==
  ASSUME SamplerInv, Finish
  PROVE  SamplerInv'
<1>1. Len(call) \in Nat
  BY DEF SamplerInv, ValidCall, IsSequence
<1>2. /\ pc' = "returned" /\ rng' = rng + Len(call) /\ drawn' = drawn + Len(call)
      /\ UNCHANGED <<cuda, ws, call, prep>>
  BY DEF Finish
<1>3. GeneratorInStep' /\ FailureKeepsSeeds' /\ pc' \notin Launched /\ pc' # "refused"
  BY <1>1, <1>2 DEF SamplerInv, GeneratorInStep, FailureKeepsSeeds, Launched
<1>4. ValidCall' /\ PairedHistory(prep)' /\ SoundWorkspace(ws)'
  BY <1>2 DEF SamplerInv, ValidCall
<1> QED
  BY <1>3, <1>4 DEF SamplerInv

(* Whatever a failed kernel left in it, a buffer has its length.           *)
LEMMA OverwrittenLength ==
  ASSUME NEW s, IsSequence(s), NEW v
  PROVE  IsSequence([i \in DOMAIN s |-> v]) /\ Len([i \in DOMAIN s |-> v]) = Len(s)
<1> DEFINE f == [i \in DOMAIN s |-> v]
<1>1. DOMAIN s = 1 .. Len(s) /\ Len(s) \in Nat
  BY DEF IsSequence
<1>2. Indexed(f, Len(s))
  BY <1>1 DEF Indexed
<1> HIDE DEF f
<1>3. IsSequence(f) /\ Len(f) = Len(s)
  BY <1>1, <1>2, IndexedIsSequence
<1> QED
  BY <1>3 DEF f

LEMMA GarbageIsSound ==
  ASSUME SoundWorkspace(ws)
  PROVE  SoundWorkspace(Garbage) /\ Garbage.capacity = ws.capacity
<1> DEFINE a == [i \in DOMAIN ws.tokens |-> 0]
           b == [i \in DOMAIN ws.counts |-> 1]
<1>1. /\ IsSequence(a) /\ Len(a) = Len(ws.tokens)
      /\ IsSequence(b) /\ Len(b) = Len(ws.counts)
  BY OverwrittenLength DEF SoundWorkspace
<1>2. Garbage.tokens = a /\ Garbage.counts = b
  BY DEF Garbage, SoundWorkspace, Buffers
<1>3. Garbage.capacity = ws.capacity /\ Buffers \subseteq DOMAIN Garbage
  BY DEF Garbage, SoundWorkspace, Buffers
<1> HIDE DEF a, b
<1> QED
  BY <1>1, <1>2, <1>3 DEF SoundWorkspace

LEMMA FailureKeepsInv ==
  ASSUME SamplerInv, StageFails
  PROVE  SamplerInv'
<1>1. /\ pc # "returned" /\ pc' = "failed" /\ ws' \in {ws, Garbage}
      /\ UNCHANGED <<cuda, rng, call, prep, origin, drawn>>
  <2>1. pc # "returned" /\ pc' = "failed" /\ UNCHANGED <<cuda, rng, call, prep, origin, drawn>>
    BY DEF StageFails
  <2>2. ws' \in {ws, Garbage}
    BY Zenon DEF StageFails
  <2> QED
    BY <2>1, <2>2
<1>2. SoundWorkspace(ws)'
  BY <1>1, GarbageIsSound DEF SamplerInv
<1>3. ValidCall' /\ GeneratorInStep' /\ FailureKeepsSeeds' /\ PairedHistory(prep)'
  BY <1>1 DEF SamplerInv, ValidCall, GeneratorInStep, FailureKeepsSeeds
<1> QED
  BY <1>1, <1>2, <1>3 DEF SamplerInv, Launched

LEMMA ReturnKeepsInv ==
  ASSUME SamplerInv, Return
  PROVE  SamplerInv'
<1>1. /\ pc' = "idle" /\ call' = <<>> /\ prep' = NoPrep /\ origin' = <<>>
      /\ UNCHANGED <<cuda, rng, ws, drawn>>
  BY DEF Return
<1>2. ValidCall' /\ FailureKeepsSeeds' /\ PairedHistory(prep)'
  BY <1>1, EmptyIsSequence DEF ValidCall, FailureKeepsSeeds, PairedHistory, NoPrep
<1>3. GeneratorInStep' /\ SoundWorkspace(ws)' /\ pc' \notin Launched /\ pc' # "refused"
  BY <1>1 DEF SamplerInv, GeneratorInStep, Launched
<1> QED
  BY <1>2, <1>3 DEF SamplerInv

LEMMA SamplerNext ==
  ASSUME SamplerInv, [Next]_vars
  PROVE  SamplerInv'
<1>1. CASE UNCHANGED vars
  BY <1>1 DEF vars, SamplerInv, ValidCall, GeneratorInStep, FailureKeepsSeeds
<1>2. CASE Next
  <2>1. ASSUME NEW batch \in SampledBatches, SamplerForward(batch) PROVE SamplerInv'
    BY <2>1, ForwardKeepsInv
  <2>2. CASE ForwardHostRow \/ ForwardHostReturns \/ ForwardHostFails
    BY <2>2, HostKeepsInv, Zenon
  <2>3. CASE StartRow \/ GreedyRow \/ CategoricalRow \/ ScaleRow \/ SortRow \/ LimitRow
               \/ SelectRow \/ LastRow
    BY <2>3, RowStages, Zenon
  <2> QED
    BY <1>2, <2>1, <2>2, <2>3, PrepareKeepsInv, WorkspaceKeepsInv, LaunchKeepsInv,
       FinishKeepsInv, FailureKeepsInv, ReturnKeepsInv, Zenon DEF Next
<1> QED
  BY <1>1, <1>2

(* Whatever the vocabulary, the block, the batches and their histories:    *)
(* every admitted batch is run, a launched batch fits both history         *)
(* buffers, and no failed device call moves the generator.                 *)
THEOREM SamplerDeviceCallsAreSafe ==
  Spec => []DeviceCallsAreSafe
<1>1. Spec => []SamplerInv
  BY SamplerInit, SamplerNext, PTL DEF Spec
<1> QED
  BY <1>1, SamplerInvImplies, PTL
=============================================================================
