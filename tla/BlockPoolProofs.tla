-------------------------- MODULE BlockPoolProofs --------------------------
(***************************************************************************)
(* Ownership of blocks is an invariant of BlockPool, for pools, blocks and *)
(* vocabularies of every size, any finite number of sequences and every    *)
(* hash function.                                                          *)
(***************************************************************************)
EXTENDS BlockPool, SeqOrderProofs

-----------------------------------------------------------------------------
(* The fields of a sequence.                                               *)

(* The fields of a sequence that the lemmas below use.                     *)
LEMMA SequenceTypes ==
  ASSUME PoolTypeOK, NEW s \in SeqId
  PROVE  /\ BlockSize \in Nat \ {0}
         /\ tokens[s] \in Seq(Token) /\ Len(tokens[s]) \in Nat
         /\ table[s] \in Seq(Block) /\ Len(table[s]) \in Nat
         /\ numCached[s] \in Nat
BY PoolSizes DEF PoolTypeOK

(* A nonempty history needs at least one block, and all but the last of    *)
(* its blocks are full.                                                    *)
LEMMA BlocksNeededProperties ==
  ASSUME PoolTypeOK, NEW s \in SeqId, tokens[s] # <<>>
  PROVE  /\ BlocksNeeded(s) \in Nat \ {0}
         /\ Len(tokens[s]) \div BlockSize \in Nat
         /\ BlocksNeeded(s) - 1 <= Len(tokens[s]) \div BlockSize
<1> DEFINE L == Len(tokens[s])
           B == BlockSize
<1>1. L \in Nat \ {0} /\ B \in Nat \ {0}
  BY PoolSizes DEF PoolTypeOK
<1> HIDE DEF L, B
<1>2. BlocksNeeded(s) = (L + B - 1) \div B
  BY DEF BlocksNeeded, L, B
<1>3. L + B - 1 \in Nat /\ 1 * B <= L + B - 1
  BY <1>1
<1>4. (L + B - 1) \div B \in Nat /\ L \div B \in Nat
  BY <1>1, <1>3, DivProperties
<1>5. 1 <= (L + B - 1) \div B
  BY <1>1, <1>3, DivBound
<1> DEFINE k == (L + B - 1) \div B - 1
<1>6. k \in Nat /\ (k + 1) * B <= L + B - 1
  BY <1>1, <1>3, <1>4, <1>5, DivProperties
<1> HIDE DEF k
<1>7. (k + 1) * B = k * B + B /\ k * B \in Int
  BY <1>1, <1>6
<1>8. k <= L \div B
  BY <1>1, <1>6, <1>7, DivBound
<1> QED
  BY <1>2, <1>4, <1>5, <1>8 DEF k, L, B

(* What the first i full blocks of a history spell, and the i-th of them.  *)
LEMMA BlockTokensProperties ==
  ASSUME PoolTypeOK, NEW s \in SeqId, NEW i \in Nat, i * BlockSize <= Len(tokens[s])
  PROVE  /\ PrefixTokens(s, i) \in Seq(Token)
         /\ Len(PrefixTokens(s, i)) = i * BlockSize
         /\ i # 0 => BlockTokens(s, i) \in [1 .. BlockSize -> Token]
<1> DEFINE ts == tokens[s]
           B == BlockSize
           m == i * B
<1>1. ts \in Seq(Token) /\ B \in Nat \ {0} /\ Len(ts) \in Nat
  BY PoolSizes DEF PoolTypeOK
<1>2. m \in Nat /\ m <= Len(ts)
  BY <1>1
<1> HIDE DEF m
<1>3. \A j \in 1 .. m : ts[j] \in Token
  BY <1>1, <1>2
<1>4. SubSeq(ts, 1, m) \in Seq(Token) /\ Len(SubSeq(ts, 1, m)) = m
  BY <1>1, <1>2, <1>3, SubSeqProperties
<1>5. ASSUME i # 0 PROVE BlockTokens(s, i) \in [1 .. B -> Token]
  <2> DEFINE k == (i - 1) * B
  <2>1. k \in Nat /\ m = k + B
    BY <1>1, <1>5 DEF m
  <2> HIDE DEF k
  <2>2. \A j \in k + 1 .. m : ts[j] \in Token
    BY <1>1, <1>2, <2>1
  <2>3. /\ SubSeq(ts, k + 1, m) \in Seq(Token)
        /\ Len(SubSeq(ts, k + 1, m)) = IF k + 1 <= m THEN m - (k + 1) + 1 ELSE 0
    BY <1>1, <1>2, <2>1, <2>2, SubSeqProperties
  <2>4. Len(SubSeq(ts, k + 1, m)) = B
    BY <1>1, <2>1, <2>3
  <2>5. SubSeq(ts, k + 1, m) \in [1 .. B -> Token]
    BY <2>3, <2>4, LenProperties
  <2> QED
    BY <2>5 DEF BlockTokens, k, m
<1> QED
  BY <1>4, <1>5 DEF PrefixTokens, m
-----------------------------------------------------------------------------
(* Chained hashes.                                                         *)

(* g satisfies the recursive equation of ChainHash.                        *)
IsChain(g, s, start, seed, end) ==
  g = [i \in start .. end |->
         IF i = start THEN seed ELSE XxHash(g[i - 1], BlockTokens(s, i))]

(* The recursion of compute_hash defines a function ...                    *)
LEMMA ChainHashExists ==
  ASSUME NEW s, NEW start \in Nat, NEW seed
  PROVE  \A n \in Nat : \E g : IsChain(g, s, start, seed, start + n)
<1> DEFINE Is(g, n) == IsChain(g, s, start, seed, start + n)
           S == {n \in Nat : \E g : Is(g, n)}
<1>1. 0 \in S
  <2> DEFINE g == [i \in start .. start |-> seed]
  <2>1. Is(g, 0)
    BY DEF IsChain
  <2> QED
    BY <2>1
<1>2. ASSUME NEW n \in Nat, n \in S PROVE n + 1 \in S
  <2>1. PICK g : Is(g, n)
    BY <1>2
  <2> DEFINE g2 == [i \in start .. start + (n + 1) |->
                      IF i <= start + n THEN g[i]
                      ELSE XxHash(g[start + n], BlockTokens(s, i))]
  <2>2. \A i \in start .. start + (n + 1) :
          g2[i] = IF i = start THEN seed ELSE XxHash(g2[i - 1], BlockTokens(s, i))
    <3> SUFFICES ASSUME NEW i \in start .. start + (n + 1)
                 PROVE  g2[i] = IF i = start THEN seed
                                ELSE XxHash(g2[i - 1], BlockTokens(s, i))
      OBVIOUS
    <3>1. CASE i <= start + n
      <4>1. g2[i] = g[i]
        BY <3>1
      <4>2. i # start => g2[i - 1] = g[i - 1]
        BY <3>1
      <4>3. g[i] = IF i = start THEN seed ELSE XxHash(g[i - 1], BlockTokens(s, i))
        BY <2>1, <3>1 DEF IsChain
      <4> QED
        BY <4>1, <4>2, <4>3
    <3>2. CASE i = start + n + 1
      <4>1. g2[i - 1] = g[start + n] /\ i # start
        BY <3>2
      <4> QED
        BY <3>2, <4>1
    <3> QED
      BY <3>1, <3>2
  <2>3. Is(g2, n + 1)
    BY <2>2 DEF IsChain
  <2> HIDE DEF g2, Is
  <2>4. \E f : Is(f, n + 1)
    BY <2>3
  <2> QED
    BY <2>4
<1> HIDE DEF S
<1>3. S \in SUBSET Nat
  BY DEF S
<1>4. S = Nat
  BY <1>1, <1>2, <1>3, SetInduction
<1> QED
  BY <1>4 DEF S

(* ... whose values are hashes.                                            *)
LEMMA ChainHashProperties ==
  ASSUME PoolTypeOK, NEW s \in SeqId, NEW start \in Nat, NEW end \in Nat, start <= end,
         end * BlockSize <= Len(tokens[s]), NEW seed \in HashVal \cup {NoHash}
  PROVE  \A i \in start + 1 .. end : ChainHash(s, start, seed, end)[i] \in HashVal
<1> DEFINE n == end - start
           h == ChainHash(s, start, seed, end)
<1>1. n \in Nat /\ end = start + n
  OBVIOUS
<1> HIDE DEF n
<1>2. IsChain(h, s, start, seed, end)
  <2>1. \E g : IsChain(g, s, start, seed, end)
    BY <1>1, ChainHashExists
  <2> QED
    BY <2>1, Zenon DEF ChainHash, IsChain
<1> HIDE DEF h
<1>3. \A i \in start .. end :
        h[i] = IF i = start THEN seed ELSE XxHash(h[i - 1], BlockTokens(s, i))
  BY <1>2 DEF IsChain
<1> DEFINE S == {k \in Nat : k <= n => h[start + k] \in HashVal \cup {NoHash}
                                /\ (k # 0 => h[start + k] \in HashVal)}
<1>4. 0 \in S
  BY <1>1, <1>3
<1>5. ASSUME NEW k \in Nat, k \in S PROVE k + 1 \in S
  <2> SUFFICES ASSUME k + 1 <= n PROVE h[start + (k + 1)] \in HashVal
    OBVIOUS
  <2> DEFINE i == start + (k + 1)
  <2>1. i \in start .. end /\ i # start /\ i - 1 = start + k /\ i \in Nat /\ i <= end
    BY <1>1
  <2>2. h[i - 1] \in HashVal \cup {NoHash}
    BY <1>5, <2>1, <1>1
  <2>3. i * BlockSize <= Len(tokens[s])
    <3>1. BlockSize \in Nat \ {0} /\ Len(tokens[s]) \in Nat
      BY PoolSizes DEF PoolTypeOK
    <3>2. CASE i = end
      BY <3>2
    <3>3. CASE i < end
      <4> HIDE DEF i
      <4>1. i * BlockSize \in Nat /\ end * BlockSize \in Nat
            /\ i * BlockSize + BlockSize <= end * BlockSize
        BY <2>1, <3>1, <3>3, ProductMonotone
      <4> QED
        BY <3>1, <4>1
    <3> QED
      BY <2>1, <3>2, <3>3
  <2>4. BlockTokens(s, i) \in [1 .. BlockSize -> Token]
    BY <2>1, <2>3, BlockTokensProperties
  <2>5. h[i] = XxHash(h[i - 1], BlockTokens(s, i))
    BY <1>3, <2>1
  <2> QED
    BY <2>2, <2>4, <2>5, HashDomain
<1>6. S = Nat
  <2>1. S \in SUBSET Nat
    OBVIOUS
  <2> HIDE DEF S
  <2> QED
    BY <1>4, <1>5, <2>1, SetInduction
<1>7. ASSUME NEW i \in start + 1 .. end PROVE h[i] \in HashVal
  <2>1. i - start \in Nat /\ i - start # 0 /\ i - start <= n /\ start + (i - start) = i
    BY <1>1
  <2>2. i - start \in S
    BY <1>6, <2>1
  <2> QED
    BY <2>1, <2>2
<1> QED
  BY <1>7 DEF h
-----------------------------------------------------------------------------
(* Prefix lookups.                                                         *)

(* A hit returns a block of the pool that carries the hash and the         *)
(* identity asked for and stands in the bucket of that hash.               *)
LEMMA CachedBlockIdProperties ==
  ASSUME PoolTypeOK, NEW h \in HashVal, NEW id, BucketHits(h, id) # {}
  PROVE  LET b == CachedBlockId(h, id)
         IN  /\ b \in Block /\ b \in Range(index[h])
             /\ identity[b] = id /\ hash[b] = h
<1> DEFINE hits == BucketHits(h, id)
           usedHits == {k \in hits : index[h][k] \in used}
           C == IF usedHits # {} THEN usedHits ELSE hits
<1>1. index[h] \in Seq(Block)
  BY DEF PoolTypeOK
<1>2. hits \in SUBSET (1 .. Len(index[h])) /\ Len(index[h]) \in Nat
  BY <1>1 DEF BucketHits
<1>3. C # {} /\ C \subseteq hits
  OBVIOUS
<1> HIDE DEF C, hits
<1>4. C \in SUBSET Nat /\ \A k \in C : k <= Len(index[h])
  BY <1>2, <1>3
<1>5. \E m \in C : \A n \in C : m >= n
  BY <1>2, <1>3, <1>4, GreatestNatural
<1>6. Max(C) \in C
  BY <1>5 DEF Max
<1>7. /\ index[h][Max(C)] \in Block /\ index[h][Max(C)] \in Range(index[h])
      /\ identity[index[h][Max(C)]] = id /\ hash[index[h][Max(C)]] = h
  BY <1>1, <1>2, <1>3, <1>6 DEF hits, BucketHits, Range
<1> QED
  BY <1>7 DEF CachedBlockId, C, hits

(* The hashes of all full blocks of s, as CachedPrefix looks them up.      *)
FullChain(s) == ChainHash(s, 0, NoHash, Len(tokens[s]) \div BlockSize)

(* The cached prefix of s consists of distinct blocks, each a hit for the  *)
(* tokens of s up to its end; it is cut short by the limit or the first    *)
(* miss only, and looking for as many blocks as were found finds the same  *)
(* ones again.                                                             *)
LEMMA CachedPrefixProperties ==
  ASSUME PoolTypeOK, NEW s \in SeqId, NEW n \in Nat, n <= Len(tokens[s]) \div BlockSize
  PROVE  LET c == CachedPrefix(s, n)
         IN  /\ c \in Seq(Block)
             /\ Len(c) \in 0 .. n
             /\ NoDuplicates(c)
             /\ CachedPrefix(s, Len(c)) = c
             /\ \A i \in 1 .. Len(c) :
                  /\ BucketHits(FullChain(s)[i], PrefixTokens(s, i)) # {}
                  /\ c[i] = CachedBlockId(FullChain(s)[i], PrefixTokens(s, i))
             /\ (\A i \in 1 .. n : BucketHits(FullChain(s)[i], PrefixTokens(s, i)) # {})
                  => Len(c) = n
<1> DEFINE full == Len(tokens[s]) \div BlockSize
           h == ChainHash(s, 0, NoHash, full)
           Hit(i) == BucketHits(h[i], PrefixTokens(s, i)) # {}
           K(m) == {k \in 0 .. m : \A i \in 1 .. k : Hit(i)}
           Found(i) == CachedBlockId(h[i], PrefixTokens(s, i))
<1>1. \A m : CachedPrefix(s, m) = [i \in 1 .. Max(K(m)) |-> Found(i)]
  BY DEF CachedPrefix
<1> HIDE DEF h, Hit, K, Found
<1>2. /\ BlockSize \in Nat \ {0}
      /\ Len(tokens[s]) \in Nat
      /\ full \in Nat
      /\ full * BlockSize <= Len(tokens[s])
  <2>1. BlockSize \in Nat \ {0} /\ Len(tokens[s]) \in Nat
    BY SequenceTypes, Zenon
  <2> QED
    BY <2>1, DivProperties
<1>3. \A i \in 1 .. n : h[i] \in HashVal
  <2>1. n <= full
    OBVIOUS
  <2> HIDE DEF full
  <2>2. \A i \in 0 + 1 .. full : h[i] \in HashVal
    BY <1>2, ChainHashProperties DEF h
  <2> QED
    BY <1>2, <2>1, <2>2
<1>4. \A i \in 1 .. n : /\ Len(PrefixTokens(s, i)) = i * BlockSize
                        /\ i * BlockSize \in Nat
  <2> SUFFICES ASSUME NEW i \in 1 .. n
               PROVE  Len(PrefixTokens(s, i)) = i * BlockSize /\ i * BlockSize \in Nat
    OBVIOUS
  <2>1. i \in Nat /\ i <= full
    <3>1. n <= full
      OBVIOUS
    <3> HIDE DEF full
    <3> QED
      BY <1>2, <3>1
  <2>2. i * BlockSize <= Len(tokens[s])
    BY <1>2, <2>1, DivBound
  <2> QED
    BY <1>2, <2>1, <2>2, BlockTokensProperties
<1> HIDE DEF full
<1>5. \A m \in 0 .. n : Max(K(m)) \in K(m) /\ \A k \in K(m) : k <= Max(K(m))
  <2> SUFFICES ASSUME NEW m \in 0 .. n
               PROVE  Max(K(m)) \in K(m) /\ \A k \in K(m) : k <= Max(K(m))
    OBVIOUS
  <2> DEFINE C == K(m)
  <2>1. C \in SUBSET Nat /\ C # {} /\ \A k \in C : k <= m
    <3>1. 0 \in C
      BY DEF K
    <3>2. C \subseteq 0 .. m
      BY DEF K
    <3> QED
      BY <3>1, <3>2
  <2> HIDE DEF C
  <2>0. m \in Nat
    OBVIOUS
  <2>2. \E x \in C : \A y \in C : x >= y
    BY <2>0, <2>1, GreatestNatural
  <2>3. Max(C) \in C /\ \A y \in C : Max(C) >= y
    BY <2>2 DEF Max
  <2>4. \A y \in C : y <= Max(C)
    BY <2>1, <2>3
  <2> QED
    BY <2>3, <2>4 DEF C
<1> DEFINE l == Max(K(n))
           c == CachedPrefix(s, n)
<1>6. l \in 0 .. n /\ \A i \in 1 .. l : Hit(i)
  <2>1. n \in 0 .. n
    OBVIOUS
  <2> QED
    BY <1>5, <2>1 DEF K
<1> HIDE DEF l
<1>7. c = [i \in 1 .. l |-> Found(i)]
  BY <1>1 DEF l
<1>8. \A i \in 1 .. l : Found(i) \in Block /\ identity[Found(i)] = PrefixTokens(s, i)
  BY <1>3, <1>6, CachedBlockIdProperties DEF Hit, Found
<1> HIDE DEF c
<1>9. c \in Seq(Block) /\ Len(c) = l
  <2>1. c \in [1 .. l -> Block]
    BY <1>7, <1>8
  <2> QED
    BY <1>6, <2>1
<1>10. NoDuplicates(c)
  <2> SUFFICES ASSUME NEW i \in 1 .. l, NEW j \in 1 .. l, i # j PROVE c[i] # c[j]
    BY <1>7 DEF NoDuplicates
  <2>1. i * BlockSize # j * BlockSize
    <3>1. CASE i < j
      BY <1>2, <1>6, <3>1, ProductMonotone
    <3>2. CASE j < i
      BY <1>2, <1>6, <3>2, ProductMonotone
    <3> QED
      BY <3>1, <3>2
  <2>2. PrefixTokens(s, i) # PrefixTokens(s, j)
    BY <1>4, <1>6, <2>1
  <2> QED
    BY <1>7, <1>8, <2>2
<1>11. CachedPrefix(s, l) = c
  <2>1. l \in K(l) /\ K(l) \subseteq 0 .. l
    BY <1>6 DEF K
  <2>2. Max(K(l)) \in K(l) /\ l <= Max(K(l))
    BY <1>5, <1>6, <2>1
  <2>3. Max(K(l)) = l
    BY <1>6, <2>1, <2>2
  <2> QED
    BY <1>1, <1>7, <2>3
<1>12. h = FullChain(s)
  BY DEF h, full, FullChain
<1>13. \A i \in 1 .. l : Hit(i) /\ c[i] = Found(i)
  BY <1>6, <1>7
<1>14. (\A i \in 1 .. n : Hit(i)) => l = n
  <2> SUFFICES ASSUME \A i \in 1 .. n : Hit(i) PROVE l = n
    OBVIOUS
  <2>1. n \in K(n) /\ n \in 0 .. n
    BY DEF K
  <2>2. n <= l
    BY <1>5, <2>1 DEF l
  <2> QED
    BY <1>6, <2>2
<1> QED
  BY <1>6, <1>9, <1>10, <1>11, <1>12, <1>13, <1>14 DEF c, Hit, Found
-----------------------------------------------------------------------------
(* The inductive invariant.                                                *)

(* The inductive invariant of the ownership of blocks.                     *)
PoolInv == PoolTypeOK /\ Ownership

(* A sequence that can_allocate accepts gets what it needs: removing the   *)
(* cached blocks from the free list leaves enough for the others, because  *)
(* the cached blocks that are free are distinct and were not counted as    *)
(* shared.                                                                 *)
LEMMA AdmitPlan ==
  ASSUME PoolInv, NEW s \in SeqId, tokens[s] # <<>>, CanAllocate(s) # NoRoom
  PROVE  LET n == CanAllocate(s)
             cached == CachedPrefix(s, n)
             rest == Retain(free, Block \ Range(cached))
             need == BlocksNeeded(s) - n
             fresh == SubSeq(rest, 1, need)
             left == SubSeq(rest, need + 1, Len(rest))
         IN  /\ n \in Nat /\ need \in Nat /\ need <= Len(rest)
             /\ n <= BlocksNeeded(s) - 1 /\ n <= Len(tokens[s]) \div BlockSize
             /\ Len(cached) = n /\ Len(fresh) = need
             /\ cached \in Seq(Block) /\ fresh \in Seq(Block) /\ left \in Seq(Block)
             /\ NoDuplicates(cached) /\ NoDuplicates(fresh) /\ NoDuplicates(left)
             /\ Range(fresh) \cap Range(left) = {}
             /\ Range(fresh) \cup Range(left) = Range(free) \ Range(cached)
<1> DEFINE N == BlocksNeeded(s)
           full == Len(tokens[s]) \div BlockSize
           cached == CachedPrefix(s, N - 1)
           shared == {i \in DOMAIN cached : cached[i] \in used}
           n == CanAllocate(s)
           rest == Retain(free, Block \ Range(cached))
<1>0. PoolTypeOK /\ Ownership
  BY DEF PoolInv
<1>1. N \in Nat \ {0} /\ full \in Nat /\ N - 1 <= full
  BY <1>0, BlocksNeededProperties
<1>2. N - 1 \in Nat
  BY <1>1
<1>3. /\ cached \in Seq(Block)
      /\ Len(cached) \in 0 .. N - 1
      /\ NoDuplicates(cached)
      /\ CachedPrefix(s, Len(cached)) = cached
  BY <1>0, <1>1, <1>2, CachedPrefixProperties
<1>4. n = Len(cached) /\ ~(Len(free) < N - Cardinality(shared))
  BY <1>1 DEF CanAllocate
<1>5. free \in Seq(Block) /\ NoDuplicates(free) /\ Range(free) = Block \ used
  BY <1>0 DEF PoolTypeOK, Ownership, FreeListExact
<1> HIDE DEF N, full, cached, n
<1>6. IsFiniteSet(Range(cached)) /\ Cardinality(Range(cached)) = Len(cached)
  BY <1>3, LenIsCardinality
<1>7. IsFiniteSet(Range(free)) /\ Cardinality(Range(free)) = Len(free)
  BY <1>5, LenIsCardinality
<1>8. Cardinality(Range(cached) \cap used) = Cardinality(shared)
  <2> DEFINE q == Retain(cached, used)
  <2>1. /\ q \in Seq(Block) /\ NoDuplicates(q) /\ Range(q) = Range(cached) \cap used
        /\ Len(q) = Cardinality({i \in 1 .. Len(cached) : cached[i] \in used})
    BY <1>3, RetainProperties
  <2> HIDE DEF q
  <2>2. Cardinality(Range(q)) = Len(q)
    BY <2>1, LenIsCardinality
  <2>3. {i \in 1 .. Len(cached) : cached[i] \in used} = shared
    BY <1>3
  <2> QED
    BY <2>1, <2>2, <2>3
<1> HIDE DEF shared
<1>9. Range(cached) \subseteq Block
  BY <1>3 DEF Range
<1>10. Cardinality(Range(cached) \ used) = Len(cached) - Cardinality(shared)
  <2>1. Cardinality(Range(cached) \ used) =
          Cardinality(Range(cached)) - Cardinality(Range(cached) \cap used)
    BY <1>6, FS_Difference, Zenon
  <2> QED
    BY <1>6, <1>8, <2>1
<1>11. Range(free) \cap Range(cached) = Range(cached) \ used
  BY <1>5, <1>9
<1>12. /\ rest \in Seq(Block) /\ NoDuplicates(rest) /\ Len(rest) \in Nat
       /\ Range(rest) = Range(free) \cap (Block \ Range(cached))
  BY <1>5, RetainProperties
<1>13. Range(rest) = Range(free) \ Range(cached)
  BY <1>5, <1>12
<1>14. Len(rest) = Len(free) - (Len(cached) - Cardinality(shared))
  <2>1. Cardinality(Range(rest)) = Len(rest)
    BY <1>12, LenIsCardinality
  <2>2. Cardinality(Range(free) \ Range(cached)) =
          Cardinality(Range(free)) - Cardinality(Range(free) \cap Range(cached))
    BY <1>7, FS_Difference
  <2> QED
    BY <1>7, <1>10, <1>11, <1>13, <2>1, <2>2
<1>15. Cardinality(shared) \in Nat
  <2>1. IsFiniteSet(Range(cached) \cap used)
    BY <1>6, FS_Intersection
  <2> QED
    BY <1>8, <2>1, FS_CardinalityType
<1> HIDE DEF rest
<1>16. N - n \in 0 .. Len(rest)
  <2>1. Len(free) \in Nat /\ Len(cached) \in Nat /\ Len(cached) <= N - 1
    BY <1>1, <1>3, <1>5
  <2> QED
    BY <1>1, <1>4, <1>12, <1>14, <1>15, <2>1
<1> DEFINE fresh == SubSeq(rest, 1, N - n)
           left == SubSeq(rest, N - n + 1, Len(rest))
<1>17. /\ fresh \in Seq(Block) /\ left \in Seq(Block) /\ Len(fresh) = N - n
       /\ NoDuplicates(fresh) /\ NoDuplicates(left)
       /\ Range(fresh) \cap Range(left) = {}
       /\ Range(fresh) \cup Range(left) = Range(rest)
  BY <1>12, <1>16, SplitProperties
<1>18. /\ n \in Nat /\ N - n \in Nat /\ N - n <= Len(rest)
       /\ n <= N - 1 /\ n <= full /\ Len(cached) = n
       /\ CachedPrefix(s, n) = cached
  BY <1>1, <1>3, <1>4, <1>12, <1>16
<1> QED
  BY <1>3, <1>13, <1>17, <1>18 DEF N, n, rest, full
-----------------------------------------------------------------------------
(* Each operation preserves the invariant.                                 *)

(* A block has finitely many owners, so counting them makes sense.         *)
LEMMA OwnersFinite ==
  \A b : IsFiniteSet(Owners(b)) /\ Cardinality(Owners(b)) \in Nat
<1> TAKE b
<1>1. Owners(b) \in SUBSET SeqId
  BY DEF Owners
<1>2. IsFiniteSet(Owners(b))
  BY <1>1, PoolSizes, FS_Subset
<1> QED
  BY <1>2, FS_CardinalityType

(* Resetting blocks (allocate_block_private) keeps hashes, identities and  *)
(* buckets well typed.                                                     *)
LEMMA ResetBlocksType ==
  ASSUME PoolTypeOK, NEW F \in SUBSET Block, ResetBlocks(F)
  PROVE  /\ hash' \in [Block -> HashVal \cup {NoHash}]
         /\ identity' \in [Block -> Seq(Token)]
         /\ index' \in [HashVal -> Seq(Block)]
<1>1. hash' \in [Block -> HashVal \cup {NoHash}] /\ identity' \in [Block -> Seq(Token)]
  BY DEF PoolTypeOK, ResetBlocks
<1>2. \A h \in HashVal : \A S : Retain(index[h], S) \in Seq(Block)
  BY RetainProperties DEF PoolTypeOK
<1>3. index' \in [HashVal -> Seq(Block)]
  BY <1>2 DEF PoolTypeOK, ResetBlocks
<1> QED
  BY <1>1, <1>3

(* A new pool (BlockPool::new) satisfies the invariant.                    *)
LEMMA InitPreserves == PoolInit => PoolInv
<1> SUFFICES ASSUME PoolInit PROVE PoolInv
  OBVIOUS
<1> USE PoolSizes DEF PoolInit
<1>1. free \in [1 .. NumBlocks -> Block] /\ NumBlocks \in Nat
  BY DEF Block
<1>2. free \in Seq(Block) /\ Range(free) = Block /\ NoDuplicates(free)
  <2>1. free \in Seq(Block) /\ DOMAIN free = 1 .. NumBlocks
    BY <1>1
  <2>2. NoDuplicates(free)
    BY <1>1, <2>1 DEF NoDuplicates
  <2>3. \A b \in Block : b + 1 \in 1 .. NumBlocks /\ free[b + 1] = b
    BY <1>1 DEF Block
  <2>4. \A b \in Block : b \in Range(free)
    BY <2>1, <2>3 DEF Range
  <2>5. \A b \in Range(free) : b \in Block
    BY <1>1, <2>1 DEF Range
  <2> QED
    BY <2>1, <2>2, <2>4, <2>5
<1>3. PoolTypeOK
  BY <1>2 DEF PoolTypeOK
<1>4. \A b : Owners(b) = {}
  BY DEF Owners, Range
<1>5. Ownership
  <2>1. FreeListExact
    BY <1>2 DEF FreeListExact
  <2>2. RefCountExact
    BY <1>4, FS_EmptySet DEF RefCountExact
  <2>3. UsedExact
    BY <1>4 DEF UsedExact
  <2>4. TablesInjective
    BY DEF TablesInjective, NoDuplicates
  <2> QED
    BY <2>1, <2>2, <2>3, <2>4 DEF Ownership
<1> QED
  BY <1>3, <1>5 DEF PoolInv

(* Sequence::new does not touch the pool.                                  *)
LEMMA NewSequencePreserves ==
  ASSUME PoolInv, NEW s \in SeqId, NEW p \in Prompt, NewSequence(s, p)
  PROVE  PoolInv'
<1>1. p \in Seq(Token)
  BY PoolSizes
<1>2. PoolTypeOK'
  BY <1>1 DEF PoolInv, PoolTypeOK, NewSequence
<1>3. Ownership'
  BY DEF PoolInv, NewSequence, Ownership, FreeListExact, RefCountExact, UsedExact,
         TablesInjective, Owners
<1> QED
  BY <1>2, <1>3 DEF PoolInv

(* allocate after can_allocate: shared blocks gain one owner, free ones,   *)
(* cached or fresh, get their first.                                       *)
LEMMA AdmitPreserves ==
  ASSUME PoolInv, NEW s \in SeqId, Admit(s)
  PROVE  PoolInv'
<1> DEFINE n == CanAllocate(s)
           cached == CachedPrefix(s, n)
           rest == Retain(free, Block \ Range(cached))
           need == BlocksNeeded(s) - n
           fresh == SubSeq(rest, 1, need)
           left == SubSeq(rest, need + 1, Len(rest))
           C == Range(cached)
           F == Range(fresh)
<1>0. PoolTypeOK /\ Ownership
  BY DEF PoolInv
<1>1. tokens[s] # <<>> /\ table[s] = <<>> /\ CanAllocate(s) # NoRoom
  BY DEF Admit
<1>2. /\ n \in Nat /\ need \in Nat
      /\ cached \in Seq(Block) /\ fresh \in Seq(Block) /\ left \in Seq(Block)
      /\ NoDuplicates(cached) /\ NoDuplicates(fresh) /\ NoDuplicates(left)
      /\ F \cap Range(left) = {}
      /\ F \cup Range(left) = Range(free) \ C
  BY <1>1, AdmitPlan, Zenon
<1>3. /\ free' = left
      /\ used' = used \cup C \cup F
      /\ refCount' = [b \in Block |->
                        IF b \in F THEN 1
                        ELSE IF b \notin C THEN refCount[b]
                        ELSE IF b \in used THEN refCount[b] + 1 ELSE 1]
      /\ ResetBlocks(F)
      /\ table' = [table EXCEPT ![s] = cached \o fresh]
      /\ numCached' = [numCached EXCEPT ![s] = n * BlockSize]
      /\ UNCHANGED tokens
  BY DEF Admit, Allocate
<1> HIDE DEF n, cached, rest, need, fresh, left
<1>4. C \subseteq Block /\ F \subseteq Block /\ Range(left) \subseteq Block
  BY <1>2 DEF Range
<1>5. cached \o fresh \in Seq(Block) /\ Range(cached \o fresh) = C \cup F
  BY <1>2, ConcatProperties, RangeConcatenation
<1>6. F \cap C = {}
  BY <1>2
<1>7. NoDuplicates(cached \o fresh)
  BY <1>2, <1>6, ConcatNoDuplicates
<1> HIDE DEF C, F
<1>8. n * BlockSize \in Nat
  BY <1>2, PoolSizes
<1>9. PoolTypeOK'
  <2>1. /\ hash' \in [Block -> HashVal \cup {NoHash}]
        /\ identity' \in [Block -> Seq(Token)]
        /\ index' \in [HashVal -> Seq(Block)]
    BY <1>0, <1>3, <1>4, ResetBlocksType
  <2>2. free' \in Seq(Block) /\ used' \in SUBSET Block /\ refCount' \in [Block -> Nat]
    BY <1>0, <1>2, <1>3, <1>4 DEF PoolTypeOK
  <2>3. /\ tokens' \in [SeqId -> Seq(Token)]
        /\ table' \in [SeqId -> Seq(Block)]
        /\ numCached' \in [SeqId -> Nat]
    BY <1>0, <1>3, <1>5, <1>8 DEF PoolTypeOK
  <2> QED
    BY <2>1, <2>2, <2>3 DEF PoolTypeOK
<1>10. FreeListExact'
  BY <1>0, <1>2, <1>3, <1>4 DEF Ownership, FreeListExact
<1>11. \A b : Owners(b)' = Owners(b) \cup {r \in {s} : b \in C \cup F}
  <2>1. \A r \in SeqId : Range(table'[r]) = IF r = s THEN C \cup F ELSE Range(table[r])
    BY <1>0, <1>3, <1>5 DEF PoolTypeOK
  <2>2. Range(table[s]) = {}
    BY <1>1 DEF Range
  <2> QED
    BY <2>1, <2>2 DEF Owners
<1>12. \A b : s \notin Owners(b)
  BY <1>1 DEF Owners, Range
<1>13. RefCountExact'
  <2> SUFFICES ASSUME NEW b \in Block PROVE refCount'[b] = Cardinality(Owners(b)')
    BY DEF RefCountExact
  <2>1. refCount[b] = Cardinality(Owners(b)) /\ (b \in used <=> Owners(b) # {})
    BY <1>0 DEF Ownership, RefCountExact, UsedExact
  <2>2. IsFiniteSet(Owners(b)) /\ Cardinality(Owners(b)) \in Nat
    BY OwnersFinite
  <2>3. CASE b \notin C \cup F
    <3>1. Owners(b)' = Owners(b)
      BY <1>11, <2>3
    <3> QED
      BY <1>3, <2>1, <2>3, <3>1
  <2>4. CASE b \in C \cup F
    <3>1. Owners(b)' = Owners(b) \cup {s}
      BY <1>11, <2>4
    <3>2. Cardinality(Owners(b) \cup {s}) = Cardinality(Owners(b)) + 1
      BY <1>12, <2>2, FS_AddElement
    <3>3. b \notin used => refCount[b] = 0
      BY <2>1, FS_EmptySet
    <3>4. b \in F => b \notin used
      BY <1>0, <1>2 DEF Ownership, FreeListExact, F
    <3> QED
      BY <1>3, <2>1, <2>2, <2>4, <3>1, <3>2, <3>3, <3>4
  <2> QED
    BY <2>3, <2>4
<1>14. UsedExact'
  BY <1>0, <1>3, <1>4, <1>11 DEF Ownership, UsedExact
<1>15. TablesInjective'
  BY <1>0, <1>3, <1>7 DEF Ownership, TablesInjective, PoolTypeOK
<1> QED
  BY <1>9, <1>10, <1>13, <1>14, <1>15 DEF PoolInv, Ownership

(* may_append_batch: each sequence short of a block gets another one of    *)
(* the first free blocks.                                                  *)
LEMMA ReservePreserves ==
  ASSUME PoolInv, NEW batch \in Batches, Reserve(batch)
  PROVE  PoolInv'
<1> DEFINE S == {s \in SeqId : MissingBlocks(s) = 1}
           short == Retain(batch, S)
           m == Len(short)
           fresh == SubSeq(free, 1, m)
           left == SubSeq(free, m + 1, Len(free))
           F == Range(fresh)
           At(s) == PositionIn(short, s)
<1>0. PoolTypeOK /\ Ownership
  BY DEF PoolInv
<1>1. batch \in Seq(SeqId) /\ NoDuplicates(batch) /\ CanAppendBatch(batch)
  BY DEF Batches, Reserve
<1>2. /\ free' = left
      /\ used' = used \cup F
      /\ refCount' = [b \in Block |-> IF b \in F THEN 1 ELSE refCount[b]]
      /\ ResetBlocks(F)
      /\ table' = [s \in SeqId |-> IF s \in Range(short)
                                   THEN Append(table[s], fresh[At(s)]) ELSE table[s]]
      /\ UNCHANGED <<tokens, numCached>>
  BY DEF Reserve, MayAppendBatch
<1>3. free \in Seq(Block) /\ NoDuplicates(free) /\ Range(free) = Block \ used
  BY <1>0 DEF PoolTypeOK, Ownership, FreeListExact
<1>4. /\ short \in Seq(SeqId) /\ NoDuplicates(short)
      /\ m = Cardinality({i \in 1 .. Len(batch) : batch[i] \in S})
      /\ m \in Nat /\ Range(short) \subseteq SeqId
  <2>1. /\ short \in Seq(SeqId) /\ NoDuplicates(short) /\ m \in Nat
        /\ m = Cardinality({i \in 1 .. Len(batch) : batch[i] \in S})
    BY <1>1, RetainProperties
  <2> HIDE DEF short
  <2> QED
    BY <2>1 DEF Range
<1>5. m <= Len(free)
  <2>1. {i \in 1 .. Len(batch) : batch[i] \in S} =
          {i \in DOMAIN batch : MissingBlocks(batch[i]) = 1}
    BY <1>1
  <2> QED
    BY <1>1, <1>4, <2>1 DEF CanAppendBatch
<1> HIDE DEF S, short
<1>6. m \in 0 .. Len(free)
  BY <1>3, <1>4, <1>5
<1>7. /\ fresh \in Seq(Block) /\ left \in Seq(Block) /\ Len(fresh) = m
      /\ NoDuplicates(fresh) /\ NoDuplicates(left)
      /\ F \cap Range(left) = {}
      /\ F \cup Range(left) = Range(free)
  BY <1>3, <1>6, SplitProperties
<1> HIDE DEF fresh, left
<1>8. \A s \in Range(short) : /\ At(s) \in 1 .. m /\ short[At(s)] = s
                              /\ fresh[At(s)] \in F /\ fresh[At(s)] \in Block
  <2> SUFFICES ASSUME NEW s \in Range(short)
               PROVE  /\ At(s) \in 1 .. m /\ short[At(s)] = s
                      /\ fresh[At(s)] \in F /\ fresh[At(s)] \in Block
    OBVIOUS
  <2>1. At(s) \in DOMAIN short /\ short[At(s)] = s
    BY PositionProperties
  <2>2. At(s) \in 1 .. m
    BY <1>4, <2>1
  <2> QED
    BY <1>7, <2>1, <2>2 DEF Range
<1> HIDE DEF At, m
<1>9. F \subseteq Block /\ F \cap used = {} /\ Range(left) = Block \ (used \cup F)
  BY <1>3, <1>7
<1> HIDE DEF F
<1>10. PoolTypeOK'
  <2>1. /\ hash' \in [Block -> HashVal \cup {NoHash}]
        /\ identity' \in [Block -> Seq(Token)]
        /\ index' \in [HashVal -> Seq(Block)]
    BY <1>0, <1>2, <1>9, ResetBlocksType
  <2>2. free' \in Seq(Block) /\ used' \in SUBSET Block /\ refCount' \in [Block -> Nat]
    BY <1>0, <1>2, <1>7, <1>9 DEF PoolTypeOK
  <2>3. \A s \in Range(short) : Append(table[s], fresh[At(s)]) \in Seq(Block)
    BY <1>0, <1>4, <1>8 DEF PoolTypeOK
  <2>4. table' \in [SeqId -> Seq(Block)]
    BY <1>0, <1>2, <2>3 DEF PoolTypeOK
  <2> QED
    BY <1>0, <1>2, <2>1, <2>2, <2>4 DEF PoolTypeOK
<1>11. FreeListExact'
  BY <1>2, <1>7, <1>9 DEF FreeListExact
<1>12. \A s \in SeqId : Range(table'[s]) = Range(table[s]) \cup
                          {fresh[At(r)] : r \in {r \in {s} : r \in Range(short)}}
  <2> SUFFICES ASSUME NEW s \in SeqId
               PROVE  Range(table'[s]) = Range(table[s]) \cup
                        {fresh[At(r)] : r \in {r \in {s} : r \in Range(short)}}
    OBVIOUS
  <2>1. CASE s \in Range(short)
    <3> DEFINE x == fresh[At(s)]
               t == table[s]
    <3>1. t \in Seq(Block) /\ x \in Block
      BY <1>0, <1>8, <2>1 DEF PoolTypeOK
    <3> HIDE DEF x, t
    <3>2. /\ Append(t, x) \in Seq(Block)
          /\ Len(Append(t, x)) = Len(t) + 1
          /\ \A i \in 1 .. Len(t) : Append(t, x)[i] = t[i]
          /\ Append(t, x)[Len(t) + 1] = x
      BY <3>1, AppendProperties
    <3>3. Range(Append(t, x)) = Range(t) \cup {x}
      <4>1. Len(t) \in Nat /\ DOMAIN t = 1 .. Len(t)
            /\ DOMAIN Append(t, x) = 1 .. Len(t) + 1
        BY <3>1, <3>2
      <4>2. \A y \in Range(Append(t, x)) : y \in Range(t) \cup {x}
        BY <3>2, <4>1 DEF Range
      <4>3. \A y \in Range(t) \cup {x} : y \in Range(Append(t, x))
        BY <3>2, <4>1 DEF Range
      <4> QED
        BY <4>2, <4>3
    <3>4. table'[s] = Append(t, x)
      BY <1>2, <2>1 DEF t, x
    <3> QED
      BY <2>1, <3>3, <3>4 DEF t, x
  <2>2. CASE s \notin Range(short)
    BY <1>2, <2>2
  <2> QED
    BY <2>1, <2>2
<1>13. \A r, s \in Range(short) : r # s => fresh[At(r)] # fresh[At(s)]
  <2> SUFFICES ASSUME NEW r \in Range(short), NEW s \in Range(short), r # s
               PROVE  fresh[At(r)] # fresh[At(s)]
    OBVIOUS
  <2>1. At(r) \in 1 .. m /\ At(s) \in 1 .. m /\ At(r) # At(s)
    BY <1>8
  <2>2. DOMAIN fresh = 1 .. m
    BY <1>4, <1>7
  <2> QED
    BY <1>7, <2>1, <2>2 DEF NoDuplicates
<1>14. \A b \in F : \E s \in Range(short) : fresh[At(s)] = b
  <2> SUFFICES ASSUME NEW b \in F PROVE \E s \in Range(short) : fresh[At(s)] = b
    OBVIOUS
  <2>1. PICK k \in DOMAIN fresh : fresh[k] = b
    BY DEF F, Range
  <2>2. k \in 1 .. m /\ DOMAIN short = 1 .. m
    BY <1>4, <1>7, <2>1 DEF m
  <2> DEFINE s == short[k]
  <2>3. s \in Range(short)
    BY <2>2 DEF Range
  <2>4. At(s) \in 1 .. m /\ short[At(s)] = short[k]
    BY <1>8, <2>3
  <2>5. At(s) = k
    BY <1>4, <2>2, <2>4 DEF NoDuplicates
  <2> QED
    BY <2>1, <2>3, <2>5
<1>15. \A b \in F : Owners(b) = {} /\ \E s : Owners(b)' = {s}
  <2> SUFFICES ASSUME NEW b \in F PROVE Owners(b) = {} /\ \E s : Owners(b)' = {s}
    OBVIOUS
  <2>1. Owners(b) = {}
    BY <1>0, <1>9 DEF Ownership, UsedExact
  <2>2. PICK s \in Range(short) : fresh[At(s)] = b
    BY <1>14
  <2>3. \A r \in SeqId : b \in Range(table'[r]) <=> r = s
    BY <1>4, <1>12, <1>13, <2>1, <2>2 DEF Owners
  <2>4. Owners(b)' = {s}
    BY <1>4, <2>2, <2>3 DEF Owners
  <2> QED
    BY <2>1, <2>4
<1>16. \A b : b \notin F => Owners(b)' = Owners(b)
  BY <1>8, <1>12 DEF Owners
<1>17. RefCountExact'
  <2> SUFFICES ASSUME NEW b \in Block PROVE refCount'[b] = Cardinality(Owners(b)')
    BY DEF RefCountExact
  <2>1. CASE b \in F
    <3>1. PICK s : Owners(b)' = {s}
      BY <1>15, <2>1
    <3>2. Cardinality({s}) = 1
      BY FS_Singleton
    <3> QED
      BY <1>2, <2>1, <3>1, <3>2
  <2>2. CASE b \notin F
    BY <1>0, <1>2, <1>16, <2>2 DEF Ownership, RefCountExact
  <2> QED
    BY <2>1, <2>2
<1>18. UsedExact'
  <2>1. \A b \in Block : b \in used' <=> Owners(b)' # {}
    BY <1>0, <1>2, <1>15, <1>16 DEF Ownership, UsedExact
  <2> QED
    BY <1>10, <2>1 DEF UsedExact, PoolTypeOK
<1>19. TablesInjective'
  <2> SUFFICES ASSUME NEW s \in SeqId PROVE NoDuplicates(table'[s])
    BY DEF TablesInjective
  <2>1. NoDuplicates(table[s])
    BY <1>0 DEF Ownership, TablesInjective
  <2>2. CASE s \in Range(short)
    <3> DEFINE x == fresh[At(s)]
               t == table[s]
    <3>1. t \in Seq(Block) /\ x \in Block /\ x \in F
      BY <1>0, <1>8, <2>2 DEF PoolTypeOK
    <3>2. x \notin Range(t)
      BY <1>15, <3>1 DEF Owners
    <3>3. table'[s] = Append(t, x)
      BY <1>2, <2>2
    <3> HIDE DEF x, t
    <3>4. Append(t, x) = t \o <<x>> /\ <<x>> \in Seq(Block)
      BY <3>1, AppendIsConcat
    <3>5. NoDuplicates(<<x>>) /\ Range(<<x>>) = {x}
      BY DEF NoDuplicates, Range
    <3>6. NoDuplicates(t \o <<x>>)
      BY <2>1, <3>1, <3>2, <3>4, <3>5, ConcatNoDuplicates DEF t
    <3> QED
      BY <3>3, <3>4, <3>6
  <2>3. CASE s \notin Range(short)
    BY <1>2, <2>1, <2>3
  <2> QED
    BY <2>2, <2>3
<1> QED
  BY <1>10, <1>11, <1>17, <1>18, <1>19 DEF PoolInv, Ownership

(* The blocks a result fills lie in the table and in the history.          *)
LEMMA CommitShape ==
  ASSUME PoolTypeOK, NEW s \in SeqId, NEW n \in 1 .. MaxModelLen, NEW t, Commit(s, n, t)
  PROVE  LET done == numCached[s] + n
             start == numCached[s] \div BlockSize
             end == done \div BlockSize
         IN  /\ done \in Nat /\ done <= Len(tokens[s]) /\ done <= Len(table[s]) * BlockSize
             /\ start \in Nat /\ end \in Nat /\ start <= end
             /\ end <= Len(table[s])
             /\ end * BlockSize \in Nat /\ end * BlockSize <= Len(tokens[s])
<1> DEFINE B == BlockSize
           done == numCached[s] + n
           start == numCached[s] \div B
           end == done \div B
<1>1. /\ B \in Nat \ {0} /\ n \in Nat /\ numCached[s] \in Nat
      /\ Len(tokens[s]) \in Nat /\ Len(table[s]) \in Nat
  <2>1. n \in Nat
    BY PoolSizes
  <2> QED
    BY <2>1, SequenceTypes
<1>2. done \in Nat /\ done <= Len(tokens[s]) /\ done <= Len(table[s]) * B
  BY <1>1 DEF Commit
<1>3. start \in Nat /\ end \in Nat /\ end * B <= done /\ start * B <= numCached[s]
  BY <1>1, <1>2, DivProperties
<1>4. start <= end
  <2>1. start * B <= done
    <3>1. start * B \in Nat
      BY <1>1, <1>3
    <3> QED
      BY <1>1, <1>3, <3>1
  <2> QED
    BY <1>1, <1>2, <1>3, <2>1, DivBound
<1>5. end <= Len(table[s])
  <2> HIDE DEF end, done
  <2> SUFFICES ASSUME Len(table[s]) < end PROVE FALSE
    BY <1>1, <1>3
  <2>1. /\ Len(table[s]) * B \in Nat /\ end * B \in Nat
        /\ Len(table[s]) * B + B <= end * B
    BY <1>1, <1>3, ProductMonotone
  <2> QED
    BY <1>1, <1>2, <1>3, <2>1
<1> HIDE DEF start, end
<1>6. end * B \in Nat /\ end * B <= Len(tokens[s])
  <2>1. end * B \in Nat
    BY <1>1, <1>3
  <2> HIDE DEF done
  <2> QED
    BY <1>1, <1>2, <1>3, <2>1
<1> QED
  BY <1>2, <1>3, <1>4, <1>5, <1>6 DEF start, end

(* hash_blocks and the new token change what blocks are known for, never   *)
(* who holds them.                                                         *)
LEMMA CommitPreserves ==
  ASSUME PoolInv, NEW s \in SeqId, NEW n \in 1 .. MaxModelLen, NEW t \in Sampled,
         Commit(s, n, t)
  PROVE  PoolInv'
<1> DEFINE B == BlockSize
           done == numCached[s] + n
           start == numCached[s] \div B
           end == done \div B
           seed == IF start = 0 THEN NoHash ELSE hash[table[s][start]]
           h == ChainHash(s, start, seed, end)
           parent == IF start = 0 THEN <<>> ELSE identity[table[s][start]]
           filled == SubSeq(table[s], start + 1, end)
           at(b) == start + PositionIn(filled, b)
           moved(x) == {b \in Range(filled) : h[at(b)] = x \/ (x # NoHash /\ hash[b] = x)}
<1>0. PoolTypeOK /\ Ownership
  BY DEF PoolInv
<1>1. /\ B \in Nat \ {0} /\ n \in Nat /\ numCached[s] \in Nat
      /\ tokens[s] \in Seq(Token) /\ Len(tokens[s]) \in Nat
      /\ table[s] \in Seq(Block) /\ Len(table[s]) \in Nat
  <2>1. n \in Nat
    BY PoolSizes
  <2> QED
    BY <1>0, <2>1, SequenceTypes
<1>2. done \in Nat /\ done <= Len(tokens[s]) /\ done <= Len(table[s]) * B
  BY <1>1 DEF Commit
<1>3. /\ hash' = [b \in Block |-> IF b \in Range(filled) THEN h[at(b)] ELSE hash[b]]
      /\ identity' = [b \in Block |->
           IF b \in Range(filled)
           THEN parent \o SubSeq(tokens[s], start * B + 1, at(b) * B)
           ELSE identity[b]]
      /\ index' = [x \in HashVal |->
           Retain(index[x], Block \ moved(x))
             \o Retain(filled, {b \in Range(filled) : h[at(b)] = x})]
  BY DEF Commit, HashBlocks
<1>4. /\ numCached' = [numCached EXCEPT ![s] = @ + n]
      /\ tokens' = [tokens EXCEPT ![s] = @ \o t]
      /\ UNCHANGED <<free, used, refCount, table>>
  BY DEF Commit
<1> HIDE DEF h, seed, parent, filled, moved
<1>5. start \in Nat /\ end \in Nat
  BY <1>0, CommitShape
<1>6. start <= end
  BY <1>0, CommitShape
<1>7. end <= Len(table[s])
  BY <1>0, CommitShape
<1>8. end * B \in Nat /\ end * B <= Len(tokens[s])
  BY <1>0, CommitShape
<1> HIDE DEF start, end
<1>9. start # 0 => table[s][start] \in Block
  BY <1>1, <1>5, <1>6, <1>7
<1>10. seed \in HashVal \cup {NoHash} /\ parent \in Seq(Token)
  BY <1>0, <1>9 DEF seed, parent, PoolTypeOK
<1>11. \A i \in start + 1 .. end : h[i] \in HashVal
  BY <1>0, <1>5, <1>6, <1>8, <1>10, ChainHashProperties DEF h
<1>12. filled \in Seq(Block) /\ Len(filled) = end - start
  <2>1. \A i \in start + 1 .. end : table[s][i] \in Block
    BY <1>1, <1>5, <1>7
  <2>2. /\ filled \in Seq(Block)
        /\ Len(filled) = IF start + 1 <= end THEN end - (start + 1) + 1 ELSE 0
    BY <1>5, <2>1, SubSeqProperties DEF filled
  <2> QED
    BY <1>5, <1>6, <2>2
<1>13. \A b \in Range(filled) : at(b) \in start + 1 .. end
  <2> SUFFICES ASSUME NEW b \in Range(filled) PROVE at(b) \in start + 1 .. end
    OBVIOUS
  <2>1. PositionIn(filled, b) \in DOMAIN filled
    BY PositionProperties
  <2>2. PositionIn(filled, b) \in 1 .. end - start
    BY <1>12, <2>1
  <2> QED
    BY <1>5, <1>6, <2>2
<1> HIDE DEF at
<1>14. hash' \in [Block -> HashVal \cup {NoHash}]
  BY <1>0, <1>3, <1>11, <1>13 DEF PoolTypeOK
<1>15. identity' \in [Block -> Seq(Token)]
  <2>1. ASSUME NEW i \in start + 1 .. end
        PROVE  parent \o SubSeq(tokens[s], start * B + 1, i * B) \in Seq(Token)
    <3> DEFINE u == start * B + 1
               v == i * B
    <3>1. u \in Nat \ {0} /\ v \in Nat
      BY <1>1, <1>5
    <3>2. v <= Len(tokens[s])
      <4>1. CASE i = end
        BY <1>8, <4>1
      <4>2. CASE i < end
        <5>1. i * B \in Nat /\ end * B \in Nat /\ i * B + B <= end * B
          BY <1>1, <1>5, <4>2, ProductMonotone
        <5> QED
          BY <1>1, <1>8, <5>1
      <4> QED
        BY <1>5, <4>1, <4>2
    <3> HIDE DEF u, v
    <3>3. \A j \in u .. v : tokens[s][j] \in Token
      BY <1>1, <3>1, <3>2
    <3>4. SubSeq(tokens[s], u, v) \in Seq(Token)
      BY <3>1, <3>3, SubSeqProperties
    <3> QED
      BY <1>10, <3>4, ConcatProperties DEF u, v
  <2> QED
    BY <1>0, <1>3, <1>13, <2>1 DEF PoolTypeOK
<1>16. index' \in [HashVal -> Seq(Block)]
  <2>1. \A x \in HashVal : \A S1, S2 :
          Retain(index[x], S1) \in Seq(Block) /\ Retain(filled, S2) \in Seq(Block)
    BY <1>0, <1>12, RetainProperties DEF PoolTypeOK
  <2>2. \A x \in HashVal : \A S1, S2 :
          Retain(index[x], S1) \o Retain(filled, S2) \in Seq(Block)
    BY <2>1, ConcatProperties
  <2> QED
    BY <1>3, <2>2
<1>17. tokens' \in [SeqId -> Seq(Token)] /\ numCached' \in [SeqId -> Nat]
  <2>1. t \in Seq(Token)
    <3>1. CASE t = <<>>
      BY <3>1
    <3>2. ASSUME NEW x \in Token, t = <<x>> PROVE t \in Seq(Token)
      BY <3>2
    <3> QED
      BY <3>1, <3>2 DEF Sampled
  <2>2. tokens[s] \o t \in Seq(Token)
    BY <1>1, <2>1, ConcatProperties
  <2> QED
    BY <1>0, <1>1, <1>4, <2>2 DEF PoolTypeOK
<1>18. PoolTypeOK'
  BY <1>0, <1>4, <1>14, <1>15, <1>16, <1>17 DEF PoolTypeOK
<1>19. Ownership'
  BY <1>0, <1>4 DEF Ownership, FreeListExact, RefCountExact, UsedExact, TablesInjective,
                    Owners
<1> QED
  BY <1>18, <1>19 DEF PoolInv

(* deallocate_batch: a block returns to the free list exactly if every one *)
(* of its owners is in the batch.                                          *)
LEMMA ReleasePreserves ==
  ASSUME PoolInv, NEW batch \in Batches, Release(batch)
  PROVE  PoolInv'
<1> DEFINE Q == Range(batch)
           freed == Freed(batch)
           tables == [i \in DOMAIN batch |-> table[batch[i]]]
           back == WalkOrder(tables, freed)
<1>0. PoolTypeOK /\ Ownership
  BY DEF PoolInv
<1>1. batch \in Seq(SeqId)
  BY DEF Batches
<1>2. Q \subseteq SeqId /\ Len(batch) \in Nat /\ DOMAIN batch = 1 .. Len(batch)
  BY <1>1 DEF Range
<1>3. /\ free' = free \o back
      /\ used' = used \ freed
      /\ refCount' = [b \in Block |-> refCount[b] - ReleaseCount(batch, b)]
      /\ table' = [s \in SeqId |-> IF s \in Q THEN <<>> ELSE table[s]]
      /\ numCached' = [s \in SeqId |-> IF s \in Q THEN 0 ELSE numCached[s]]
      /\ UNCHANGED <<hash, identity, index, tokens>>
  BY DEF Release, DeallocateBatch
<1>4. \A b : ReleaseCount(batch, b) = Cardinality(Owners(b) \cap Q)
  <2> TAKE b
  <2>1. {s \in Q : b \in Range(table[s])} = Owners(b) \cap Q
    BY <1>2 DEF Owners
  <2> QED
    BY <2>1 DEF ReleaseCount
<1>5. \A b : Owners(b)' = Owners(b) \ Q
  <2>1. Range(<<>>) = {}
    BY DEF Range
  <2> QED
    BY <1>3, <2>1 DEF Owners
<1>6. \A b \in Block :
        /\ ReleaseCount(batch, b) \in Nat /\ ReleaseCount(batch, b) <= refCount[b]
        /\ Cardinality(Owners(b) \ Q) = refCount[b] - ReleaseCount(batch, b)
        /\ ReleaseCount(batch, b) = 0 <=> Owners(b) \cap Q = {}
        /\ refCount[b] = ReleaseCount(batch, b) <=> Owners(b) \ Q = {}
  <2> SUFFICES ASSUME NEW b \in Block
               PROVE  /\ ReleaseCount(batch, b) \in Nat
                      /\ ReleaseCount(batch, b) <= refCount[b]
                      /\ Cardinality(Owners(b) \ Q) = refCount[b] - ReleaseCount(batch, b)
                      /\ ReleaseCount(batch, b) = 0 <=> Owners(b) \cap Q = {}
                      /\ refCount[b] = ReleaseCount(batch, b) <=> Owners(b) \ Q = {}
    OBVIOUS
  <2> DEFINE O == Owners(b)
  <2>1. IsFiniteSet(O) /\ Cardinality(O) \in Nat /\ refCount[b] = Cardinality(O)
    BY <1>0, OwnersFinite DEF Ownership, RefCountExact
  <2> HIDE DEF O
  <2>2. /\ IsFiniteSet(O \cap Q) /\ Cardinality(O \cap Q) <= Cardinality(O)
        /\ Cardinality(O \cap Q) \in Nat
    BY <2>1, FS_Intersection, FS_CardinalityType
  <2>3. IsFiniteSet(O \ Q) /\ Cardinality(O \ Q) = Cardinality(O) - Cardinality(O \cap Q)
    BY <2>1, FS_Difference
  <2>4. (Cardinality(O \cap Q) = 0 <=> O \cap Q = {}) /\ (Cardinality(O \ Q) = 0 <=> O \ Q = {})
    BY <2>2, <2>3, FS_EmptySet
  <2>5. ReleaseCount(batch, b) = Cardinality(O \cap Q)
    BY <1>4 DEF O
  <2>6. refCount[b] = ReleaseCount(batch, b) <=> Cardinality(O \ Q) = 0
    BY <2>1, <2>2, <2>3, <2>5
  <2> QED
    BY <2>1, <2>2, <2>3, <2>4, <2>5, <2>6 DEF O
<1>7. \A b \in Block : b \in freed <=> Owners(b) \cap Q # {} /\ Owners(b) \ Q = {}
  <2> TAKE b \in Block
  <2>1. /\ ReleaseCount(batch, b) \in Nat
        /\ ReleaseCount(batch, b) = 0 <=> Owners(b) \cap Q = {}
        /\ refCount[b] = ReleaseCount(batch, b) <=> Owners(b) \ Q = {}
    BY <1>6
  <2>2. ReleaseCount(batch, b) > 0 <=> ReleaseCount(batch, b) # 0
    BY <2>1
  <2> HIDE DEF Q
  <2> QED
    BY <2>1, <2>2 DEF Freed
<1>8. freed \in SUBSET Block /\ IsFiniteSet(freed)
  <2>1. IsFiniteSet(Block)
    BY PoolSizes, FS_Interval DEF Block
  <2>2. freed \in SUBSET Block
    BY DEF Freed
  <2> QED
    BY <2>1, <2>2, FS_Subset
<1> HIDE DEF freed, Q
<1>9. tables \in Seq(Seq(Block)) /\ DOMAIN tables = DOMAIN batch
  <2>1. \A i \in DOMAIN batch : table[batch[i]] \in Seq(Block)
    BY <1>0, <1>1 DEF PoolTypeOK
  <2>2. tables \in [1 .. Len(batch) -> Seq(Block)]
    BY <1>2, <2>1
  <2> QED
    BY <1>2, <2>2
<1>10. \A b \in freed : \E i \in DOMAIN tables : b \in Range(tables[i])
  <2> SUFFICES ASSUME NEW b \in freed PROVE \E i \in DOMAIN batch : b \in Range(table[batch[i]])
    OBVIOUS
  <2>1. PICK s \in Q : s \in Owners(b)
    BY <1>7, <1>8
  <2>2. PICK i \in DOMAIN batch : batch[i] = s
    BY DEF Q, Range
  <2> QED
    BY <2>1, <2>2 DEF Owners
<1> HIDE DEF tables
<1>11. back \in Seq(Block) /\ Range(back) = freed /\ NoDuplicates(back)
  BY <1>8, <1>9, <1>10, WalkOrderProperties
<1> HIDE DEF back
<1>12. freed \subseteq used
  BY <1>0, <1>7, <1>8 DEF Ownership, UsedExact
<1>13. free \in Seq(Block) /\ NoDuplicates(free) /\ Range(free) = Block \ used
  BY <1>0 DEF PoolTypeOK, Ownership, FreeListExact
<1>14. /\ free \o back \in Seq(Block)
       /\ Range(free \o back) = Range(free) \cup Range(back)
       /\ NoDuplicates(free \o back)
  BY <1>11, <1>12, <1>13, ConcatProperties, RangeConcatenation, ConcatNoDuplicates
<1>15. PoolTypeOK'
  <2>1. refCount' \in [Block -> Nat]
    <3>1. \A b \in Block : refCount[b] \in Nat
      BY <1>0 DEF PoolTypeOK
    <3>2. ASSUME NEW b \in Block PROVE refCount[b] - ReleaseCount(batch, b) \in Nat
      <4>1. ReleaseCount(batch, b) \in Nat /\ ReleaseCount(batch, b) <= refCount[b]
        BY <1>6
      <4> QED
        BY <3>1, <4>1
    <3> QED
      BY <1>3, <3>2
  <2>2. table' \in [SeqId -> Seq(Block)] /\ numCached' \in [SeqId -> Nat]
    BY <1>0, <1>3 DEF PoolTypeOK
  <2> QED
    BY <1>0, <1>3, <1>14, <2>1, <2>2 DEF PoolTypeOK
<1>16. FreeListExact'
  <2>1. Range(free \o back) = Block \ (used \ freed)
    BY <1>8, <1>11, <1>13, <1>14
  <2> QED
    BY <1>3, <1>14, <2>1 DEF FreeListExact
<1>17. RefCountExact'
  BY <1>3, <1>5, <1>6 DEF RefCountExact
<1>18. UsedExact'
  <2>1. \A b \in Block : b \in used' <=> Owners(b)' # {}
    BY <1>0, <1>3, <1>5, <1>7 DEF Ownership, UsedExact
  <2> QED
    BY <1>15, <2>1 DEF UsedExact, PoolTypeOK
<1>19. TablesInjective'
  BY <1>0, <1>3 DEF Ownership, TablesInjective, NoDuplicates
<1> QED
  BY <1>15, <1>16, <1>17, <1>18, <1>19 DEF PoolInv, Ownership
-----------------------------------------------------------------------------
(* Every step of a client preserves the invariant.                         *)
LEMMA StepPreserves == PoolInv /\ [PoolNext]_poolVars => PoolInv'
<1> SUFFICES ASSUME PoolInv, [PoolNext]_poolVars PROVE PoolInv'
  OBVIOUS
<1>1. ASSUME NEW s \in SeqId, NEW p \in Prompt, NewSequence(s, p) PROVE PoolInv'
  BY <1>1, NewSequencePreserves
<1>2. ASSUME NEW s \in SeqId, Admit(s) PROVE PoolInv'
  BY <1>2, AdmitPreserves
<1>3. ASSUME NEW q \in Batches, Reserve(q) PROVE PoolInv'
  BY <1>3, ReservePreserves
<1>4. ASSUME NEW s \in SeqId, NEW n \in 1 .. MaxModelLen, NEW t \in Sampled,
             Commit(s, n, t)
      PROVE  PoolInv'
  BY <1>4, CommitPreserves
<1>5. ASSUME NEW q \in Batches, Release(q) PROVE PoolInv'
  BY <1>5, ReleasePreserves
<1>6. CASE UNCHANGED poolVars
  BY <1>6 DEF poolVars, PoolInv, PoolTypeOK, Ownership, FreeListExact, RefCountExact,
              UsedExact, TablesInjective, Owners
<1> QED
  BY <1>1, <1>2, <1>3, <1>4, <1>5, <1>6 DEF PoolNext

(* For every pool size, block size, vocabulary, number of sequences and    *)
(* hash function, the fields of the pool keep their types, whatever        *)
(* sequence of admissions, reservations, results and releases callers of   *)
(* block_pool.rs go through.                                               *)
THEOREM PoolTypeCorrect == PoolSpec => []PoolTypeOK
<1>1. PoolInv => PoolTypeOK
  BY DEF PoolInv
<1> QED
  BY <1>1, InitPreserves, StepPreserves, PTL DEF PoolSpec

(* No block is ever leaked, freed twice or freed while a sequence holds    *)
(* it: the free list is exactly the blocks without owner, each once, and   *)
(* every reference count is the number of block tables that hold the block *)
(* (allocate, may_append_batch, deallocate_batch).                         *)
THEOREM PoolOwnership == PoolSpec => []Ownership
<1>1. PoolInv => Ownership
  BY DEF PoolInv
<1> QED
  BY <1>1, InitPreserves, StepPreserves, PTL DEF PoolSpec
-----------------------------------------------------------------------------
(***************************************************************************)
(* The prefix cache of BlockPool is sound, stable and complete, for every  *)
(* pool, block size, vocabulary and hash function, colliding ones and ones *)
(* that return the sentinel -1 included; and the validations of the        *)
(* transactions never fail.                                                *)
(***************************************************************************)

(* The inductive invariant, for one sequence.                              *)

(* The full blocks a sequence counts as cached.                            *)
CachedBlocks(s) == numCached[s] \div BlockSize

(* Cached tokens exist and have slots.                                     *)
WithinBlocks(s) ==
  numCached[s] <= Len(tokens[s]) /\ numCached[s] <= Len(table[s]) * BlockSize

(* A block that is not full of cached tokens belongs to s alone, and no    *)
(* lookup can hit it.                                                      *)
PendingPrivate(s) ==
  \A i \in DOMAIN table[s] : i > CachedBlocks(s) =>
    refCount[table[s][i]] = 1 /\ identity[table[s][i]] = <<>>

(* Cached blocks were published for the history of the sequence.           *)
PublishedFor(s) ==
  \A i \in 1 .. CachedBlocks(s) : identity[table[s][i]] = PrefixTokens(s, i)

(* The hashes of the cached blocks form the chain of compute_hash, and     *)
(* each block stands in the bucket of its hash.                            *)
HashBefore(s, i) == IF i = 1 THEN NoHash ELSE hash[table[s][i - 1]]

(* Cached blocks carry the chained hash of that history, and its bucket    *)
(* has them.                                                               *)
Indexed(s) ==
  \A i \in 1 .. CachedBlocks(s) :
    /\ hash[table[s][i]] = XxHash(HashBefore(s, i), BlockTokens(s, i))
    /\ hash[table[s][i]] \in HashVal
    /\ table[s][i] \in Range(index[hash[table[s][i]]])

(* The invariant of one sequence.                                          *)
CacheOK(s) == WithinBlocks(s) /\ PendingPrivate(s) /\ PublishedFor(s) /\ Indexed(s)

(* The inductive invariant of the pool with its prefix cache.              *)
CacheInv == PoolInv /\ \A s \in SeqId : CacheOK(s)

(* What a step may not do to the cached blocks of s.                       *)
KeepsCached(s) ==
  table'[s] # <<>> =>
    \A i \in 1 .. CachedBlocks(s) :
      LET b == table[s][i]
      IN  table'[s][i] = b /\ identity'[b] = identity[b] /\ hash'[b] = hash[b]
-----------------------------------------------------------------------------
(* Facts about the definitions.                                            *)

(* Dividing a multiple is exact.                                           *)
LEMMA MultipleDiv ==
  ASSUME NEW n \in Nat, NEW b \in Nat \ {0}
  PROVE  (n * b) \div b = n
<1> DEFINE m == n * b
           q == m \div b
<1>1. m \in Nat
  OBVIOUS
<1>2. q \in Nat /\ q * b <= m /\ m < (q + 1) * b
  BY <1>1, DivProperties
<1>3. n <= q
  BY <1>1, DivBound
<1> HIDE DEF q
<1>4. ~(n < q)
  <2> SUFFICES ASSUME n < q PROVE FALSE
    OBVIOUS
  <2>1. n * b + b <= q * b /\ q * b \in Nat
    BY <1>2, ProductMonotone
  <2> QED
    BY <1>1, <1>2, <2>1
<1> QED
  BY <1>2, <1>3, <1>4 DEF q

(* The places of the cached blocks of s lie in its table and its history.  *)
LEMMA CachedBlocksProperties ==
  ASSUME PoolTypeOK, NEW s \in SeqId, WithinBlocks(s)
  PROVE  /\ CachedBlocks(s) \in 0 .. Len(table[s])
         /\ CachedBlocks(s) <= Len(tokens[s]) \div BlockSize
         /\ \A i \in 1 .. CachedBlocks(s) :
              i * BlockSize \in Nat /\ i * BlockSize <= Len(tokens[s])
<1> DEFINE k == CachedBlocks(s)
           m == Len(table[s])
           L == Len(tokens[s])
<1>1. /\ BlockSize \in Nat \ {0} /\ m \in Nat /\ numCached[s] \in Nat
      /\ L \in Nat
  BY SequenceTypes
<1>2. k \in Nat /\ k * BlockSize <= numCached[s]
  BY <1>1, DivProperties DEF CachedBlocks
<1>3. numCached[s] <= L /\ numCached[s] <= m * BlockSize
  BY DEF WithinBlocks
<1> HIDE DEF k, m, L
<1>4. k * BlockSize \in Nat /\ m * BlockSize \in Nat
  BY <1>1, <1>2
<1>5. k <= m
  <2> SUFFICES ASSUME m < k PROVE FALSE
    BY <1>1, <1>2
  <2>1. m * BlockSize + BlockSize <= k * BlockSize
    BY <1>1, <1>2, ProductMonotone
  <2> QED
    BY <1>1, <1>2, <1>3, <1>4, <2>1
<1>6. \A i \in 1 .. k : i * BlockSize \in Nat /\ i * BlockSize <= L
  <2> SUFFICES ASSUME NEW i \in 1 .. k
               PROVE  i * BlockSize \in Nat /\ i * BlockSize <= L
    OBVIOUS
  <2>1. i * BlockSize \in Nat
    BY <1>1
  <2>2. CASE i = k
    BY <1>1, <1>2, <1>3, <1>4, <2>2
  <2>3. CASE i < k
    <3>1. i * BlockSize + BlockSize <= k * BlockSize
      BY <1>1, <1>2, <2>3, ProductMonotone
    <3> QED
      BY <1>1, <1>2, <1>3, <1>4, <2>1, <3>1
  <2> QED
    BY <1>2, <2>2, <2>3
<1>7. k <= L \div BlockSize
  BY SMTT(30), <1>1, <1>2, <1>3, <1>4, DivBound
<1>8. k \in 0 .. m
  BY <1>1, <1>2, <1>5
<1> QED
  BY <1>6, <1>7, <1>8, Zenon DEF k, m, L

(* The hash of each block of a chain is computed from the one before it.   *)
LEMMA ChainHashStep ==
  ASSUME NEW s, NEW start \in Nat, NEW end \in Nat, start <= end, NEW seed
  PROVE  LET h == ChainHash(s, start, seed, end)
         IN  \A i \in start .. end :
               h[i] = IF i = start THEN seed ELSE XxHash(h[i - 1], BlockTokens(s, i))
<1> DEFINE n == end - start
           h == ChainHash(s, start, seed, end)
<1>1. n \in Nat /\ end = start + n
  OBVIOUS
<1> HIDE DEF n
<1>2. \E g : IsChain(g, s, start, seed, end)
  BY <1>1, ChainHashExists
<1>3. IsChain(h, s, start, seed, end)
  BY <1>2, Zenon DEF ChainHash, IsChain
<1> HIDE DEF h
<1>4. \A i \in start .. end :
        h[i] = IF i = start THEN seed ELSE XxHash(h[i - 1], BlockTokens(s, i))
  BY <1>3 DEF IsChain
<1> QED
  BY <1>4 DEF h

(* Appending tokens to a history does not change its earlier blocks.       *)
LEMMA HistoryGrows ==
  ASSUME PoolTypeOK, NEW s \in SeqId, NEW t \in Seq(Token), tokens'[s] = tokens[s] \o t,
         NEW i \in Nat \ {0}, i * BlockSize <= Len(tokens[s])
  PROVE  /\ PrefixTokens(s, i)' = PrefixTokens(s, i)
         /\ BlockTokens(s, i)' = BlockTokens(s, i)
<1> DEFINE m == i * BlockSize
           k == (i - 1) * BlockSize
           ts == tokens[s]
<1>1. ts \in Seq(Token) /\ Len(ts) \in Nat /\ BlockSize \in Nat \ {0}
  BY SequenceTypes
<1>2. k \in Nat /\ m = k + BlockSize
  BY <1>1
<1> HIDE DEF m, k, ts
<1>3. m <= Len(ts)
  BY DEF m, ts
<1>4. m \in 1 .. Len(ts) /\ k + 1 \in 1 .. Len(ts) /\ 1 \in 1 .. Len(ts)
  BY <1>1, <1>2, <1>3
<1>5. SubSeq(ts \o t, 1, m) = SubSeq(ts, 1, m)
  BY <1>1, <1>4, SubSeqOfConcat1
<1>6. SubSeq(ts \o t, k + 1, m) = SubSeq(ts, k + 1, m)
  BY <1>1, <1>4, SubSeqOfConcat1
<1> QED
  BY <1>5, <1>6 DEF PrefixTokens, BlockTokens, m, k, ts

(* A block with one reference belongs to the sequence that holds it.       *)
LEMMA SoleOwner ==
  ASSUME PoolInv, NEW s \in SeqId, NEW b \in Range(table[s]), refCount[b] = 1
  PROVE  b \in Block /\ Owners(b) = {s}
<1>1. b \in Block
  <2>1. table[s] \in Seq(Block)
    BY DEF PoolInv, PoolTypeOK
  <2> QED
    BY <2>1 DEF Range
<1>2. s \in Owners(b)
  BY DEF Owners
<1>3. Cardinality(Owners(b)) = 1 /\ IsFiniteSet(Owners(b))
  BY <1>1, OwnersFinite DEF PoolInv, Ownership, RefCountExact
<1>4. PICK x : Owners(b) = {x}
  BY <1>3, FS_Singleton
<1> QED
  BY <1>1, <1>2, <1>4

(* Blocks in tables are used, so blocks from the free list are in none.    *)
LEMMA HeldIsUsed ==
  ASSUME PoolInv, NEW s \in SeqId, NEW b \in Range(table[s])
  PROVE  b \in Block /\ b \in used /\ b \notin Range(free)
<1>1. b \in Block
  <2>1. table[s] \in Seq(Block)
    BY DEF PoolInv, PoolTypeOK
  <2> QED
    BY <2>1 DEF Range
<1>2. s \in Owners(b)
  BY DEF Owners
<1> QED
  BY <1>1, <1>2 DEF PoolInv, Ownership, UsedExact, FreeListExact

(* Every block of a cached prefix was published for the tokens of s up to  *)
(* its end, and the hashes of the prefix are chained.                      *)
LEMMA HitsArePublished ==
  ASSUME PoolTypeOK, NEW s \in SeqId, NEW n \in Nat, n <= Len(tokens[s]) \div BlockSize
  PROVE  LET c == CachedPrefix(s, n)
         IN  \A i \in 1 .. Len(c) :
               /\ c[i] \in Block
               /\ identity[c[i]] = PrefixTokens(s, i)
               /\ hash[c[i]] = XxHash(IF i = 1 THEN NoHash ELSE hash[c[i - 1]], BlockTokens(s, i))
               /\ hash[c[i]] \in HashVal
               /\ c[i] \in Range(index[hash[c[i]]])
<1> DEFINE c == CachedPrefix(s, n)
           full == Len(tokens[s]) \div BlockSize
           h == FullChain(s)
           l == Len(c)
<1>1. /\ BlockSize \in Nat \ {0} /\ Len(tokens[s]) \in Nat
  BY SequenceTypes
<1>2. full \in Nat /\ full * BlockSize <= Len(tokens[s]) /\ n <= full
  BY <1>1, DivProperties
<1>3. /\ l \in 0 .. n
      /\ \A i \in 1 .. l : /\ BucketHits(h[i], PrefixTokens(s, i)) # {}
                           /\ c[i] = CachedBlockId(h[i], PrefixTokens(s, i))
  BY CachedPrefixProperties
<1> HIDE DEF c, full
<1>4. \A i \in 0 .. full :
        h[i] = IF i = 0 THEN NoHash ELSE XxHash(h[i - 1], BlockTokens(s, i))
  BY <1>2, ChainHashStep DEF FullChain, full
<1>5. \A i \in 1 .. full : h[i] \in HashVal
  <2>1. \A i \in 0 + 1 .. full : h[i] \in HashVal
    BY <1>2, ChainHashProperties DEF FullChain, full
  <2> QED
    BY <2>1
<1> HIDE DEF h, l
<1>6. \A i \in 1 .. l : i \in 1 .. full
  BY <1>2, <1>3
<1>7. \A i \in 1 .. l : /\ c[i] \in Block /\ c[i] \in Range(index[h[i]])
                        /\ identity[c[i]] = PrefixTokens(s, i) /\ hash[c[i]] = h[i]
  BY <1>3, <1>5, <1>6, CachedBlockIdProperties
<1>8. ASSUME NEW i \in 1 .. l
      PROVE  h[i] = XxHash(IF i = 1 THEN NoHash ELSE hash[c[i - 1]], BlockTokens(s, i))
  <2>1. i \in 0 .. full /\ i # 0 /\ 0 \in 0 .. full /\ (i # 1 => i - 1 \in 1 .. l)
    BY <1>2, <1>3, <1>6
  <2>2. h[i] = XxHash(h[i - 1], BlockTokens(s, i)) /\ h[0] = NoHash
    BY <1>4, <2>1
  <2>3. h[i - 1] = IF i = 1 THEN NoHash ELSE hash[c[i - 1]]
    BY <1>7, <2>1, <2>2
  <2> QED
    BY <2>2, <2>3
<1>9. \A i \in 1 .. l : h[i] \in HashVal
  BY <1>5, <1>6
<1> QED
  BY <1>7, <1>8, <1>9 DEF c, l
-----------------------------------------------------------------------------
(* What keeps the invariant of a sequence that a step does not touch.      *)

(* The step leaves the fields of r alone, keeps what its blocks were       *)
(* published for, and takes no second reference to a pending one.          *)
Untouched(r) ==
  /\ tokens'[r] = tokens[r] /\ table'[r] = table[r] /\ numCached'[r] = numCached[r]
  /\ \A b \in Range(table[r]) :
       /\ identity'[b] = identity[b] /\ hash'[b] = hash[b]
       /\ refCount[b] = 1 /\ identity[b] = <<>> => refCount'[b] = 1
       /\ \A x \in HashVal : b \in Range(index[x]) => b \in Range(index'[x])

(* A sequence whose blocks nobody touches keeps its cache.                 *)
LEMMA UntouchedKeeps ==
  ASSUME PoolTypeOK, NEW r \in SeqId, CacheOK(r), Untouched(r)
  PROVE  CacheOK(r)' /\ KeepsCached(r)
<1>1. WithinBlocks(r)
  BY DEF CacheOK
<1>2. CachedBlocks(r) \in 0 .. Len(table[r]) /\ table[r] \in Seq(Block)
  BY <1>1, CachedBlocksProperties, SequenceTypes
<1>3. CachedBlocks(r)' = CachedBlocks(r) /\ table'[r] = table[r] /\ tokens'[r] = tokens[r]
  BY DEF CachedBlocks, Untouched
<1>4. \A i \in DOMAIN table[r] : table[r][i] \in Range(table[r])
  BY DEF Range
<1>5. \A i \in 1 .. CachedBlocks(r) :
        i \in DOMAIN table[r] /\ (i # 1 => i - 1 \in DOMAIN table[r])
  BY <1>2
<1>6. WithinBlocks(r)'
  BY <1>1 DEF WithinBlocks, Untouched
<1>7. PendingPrivate(r)'
  BY <1>3, <1>4 DEF PendingPrivate, CacheOK, Untouched
<1>8. PublishedFor(r)'
  BY <1>3, <1>4, <1>5 DEF PublishedFor, CacheOK, Untouched, PrefixTokens
<1>9. Indexed(r)'
  <2> SUFFICES ASSUME NEW i \in 1 .. CachedBlocks(r)
               PROVE  /\ hash'[table[r][i]] = XxHash(HashBefore(r, i)', BlockTokens(r, i)')
                      /\ hash'[table[r][i]] \in HashVal
                      /\ table[r][i] \in Range(index'[hash'[table[r][i]]])
    BY <1>3 DEF Indexed
  <2>1. /\ hash[table[r][i]] = XxHash(HashBefore(r, i), BlockTokens(r, i))
        /\ hash[table[r][i]] \in HashVal
        /\ table[r][i] \in Range(index[hash[table[r][i]]])
    BY DEF Indexed, CacheOK
  <2>2. HashBefore(r, i)' = HashBefore(r, i) /\ BlockTokens(r, i)' = BlockTokens(r, i)
    BY <1>3, <1>4, <1>5 DEF HashBefore, BlockTokens, Untouched
  <2> QED
    BY <1>4, <1>5, <2>1, <2>2 DEF Untouched
<1>10. KeepsCached(r)
  BY <1>3, <1>4, <1>5 DEF KeepsCached, Untouched
<1> QED
  BY <1>6, <1>7, <1>8, <1>9, <1>10 DEF CacheOK

(* A block that is not reset keeps everything the cache knows of it; one   *)
(* that is reset can no longer be hit.                                     *)
LEMMA ResetBlocksEffect ==
  ASSUME PoolTypeOK, NEW F \in SUBSET Block, ResetBlocks(F)
  PROVE  /\ \A b \in Block \ F :
              /\ identity'[b] = identity[b] /\ hash'[b] = hash[b]
              /\ \A x \in HashVal : b \in Range(index[x]) => b \in Range(index'[x])
         /\ \A b \in F : identity'[b] = <<>>
<1>1. ASSUME NEW b \in Block \ F, NEW x \in HashVal, b \in Range(index[x])
      PROVE  b \in Range(index'[x])
  <2> DEFINE S == {c \in Block : c \notin F \/ hash[c] # x}
  <2>1. index[x] \in Seq(Block)
    BY DEF PoolTypeOK
  <2>2. Range(Retain(index[x], S)) = Range(index[x]) \cap S
    BY <2>1, RetainProperties
  <2>3. index'[x] = index[x] \/ index'[x] = Retain(index[x], S)
    BY DEF ResetBlocks
  <2> QED
    BY <1>1, <2>2, <2>3
<1>2. \A b \in Block \ F : identity'[b] = identity[b] /\ hash'[b] = hash[b]
  BY DEF ResetBlocks
<1>3. \A b \in F : identity'[b] = <<>>
  BY DEF ResetBlocks
<1> QED
  BY <1>1, <1>2, <1>3
-----------------------------------------------------------------------------
(* Each operation keeps the invariant, and every cached block.             *)

(* A new sequence has cached nothing.                                      *)
LEMMA NewSequenceKeepsCache ==
  ASSUME CacheInv, NEW s \in SeqId, NEW p \in Prompt, NewSequence(s, p), NEW r \in SeqId
  PROVE  CacheOK(r)' /\ KeepsCached(r)
<1>0. PoolTypeOK /\ CacheOK(r) /\ CacheOK(s)
  BY DEF CacheInv, PoolInv
<1>1. /\ tokens[s] = <<>> /\ tokens' = [tokens EXCEPT ![s] = p]
      /\ UNCHANGED <<free, used, refCount, hash, identity, index, table, numCached>>
  BY DEF NewSequence
<1>2. CASE r # s
  <2>1. Untouched(r)
    BY <1>0, <1>1, <1>2 DEF Untouched, PoolTypeOK
  <2> QED
    BY <1>0, <2>1, UntouchedKeeps
<1>3. CASE r = s
  <2>1. numCached[s] = 0
    <3>1. numCached[s] \in Nat /\ numCached[s] <= Len(tokens[s]) /\ Len(<<>>) = 0
      BY <1>0, SequenceTypes DEF CacheOK, WithinBlocks
    <3> QED
      BY <1>1, <3>1
  <2>2. CachedBlocks(s) = 0 /\ CachedBlocks(s)' = 0
    <3>1. BlockSize \in Nat \ {0} /\ 0 * BlockSize = 0
      BY PoolSizes
    <3>2. 0 \div BlockSize = 0
      BY <3>1, MultipleDiv
    <3> QED
      BY <1>1, <2>1, <3>2 DEF CachedBlocks
  <2>3. WithinBlocks(s)'
    <3>1. tokens'[s] = p /\ Len(p) \in Nat
      BY <1>0, <1>1, PoolSizes DEF PoolTypeOK
    <3>2. 0 <= Len(table[s]) * BlockSize
      BY <1>0, <2>1 DEF CacheOK, WithinBlocks
    <3> QED
      BY <1>1, <2>1, <3>1, <3>2 DEF WithinBlocks
  <2>4. PendingPrivate(s)'
    BY <1>0, <1>1, <2>2 DEF PendingPrivate, CacheOK
  <2>5. PublishedFor(s)' /\ Indexed(s)' /\ KeepsCached(s)
    BY <2>2 DEF PublishedFor, Indexed, KeepsCached
  <2> QED
    BY <1>3, <2>3, <2>4, <2>5 DEF CacheOK
<1> QED
  BY <1>2, <1>3

(* allocate: what was found in the cache was published for s; the rest of  *)
(* its table is blocks of the free list, which nobody can hit any more.    *)
LEMMA AdmitKeepsCache ==
  ASSUME CacheInv, NEW s \in SeqId, Admit(s), NEW r \in SeqId
  PROVE  CacheOK(r)' /\ KeepsCached(r)
<1> DEFINE n == CanAllocate(s)
           cached == CachedPrefix(s, n)
           rest == Retain(free, Block \ Range(cached))
           need == BlocksNeeded(s) - n
           fresh == SubSeq(rest, 1, need)
           C == Range(cached)
           F == Range(fresh)
<1>0. PoolInv /\ PoolTypeOK /\ CacheOK(r) /\ CacheOK(s)
  BY DEF CacheInv, PoolInv
<1>1. tokens[s] # <<>> /\ table[s] = <<>> /\ CanAllocate(s) # NoRoom
  BY DEF Admit
<1>2. /\ n \in Nat /\ need \in Nat /\ n <= Len(tokens[s]) \div BlockSize
      /\ Len(cached) = n /\ Len(fresh) = need
      /\ cached \in Seq(Block) /\ fresh \in Seq(Block)
      /\ F \subseteq Range(free) \ C
  BY <1>0, <1>1, AdmitPlan
<1>3. \A i \in 1 .. n :
        /\ cached[i] \in Block
        /\ identity[cached[i]] = PrefixTokens(s, i)
        /\ hash[cached[i]] = XxHash(IF i = 1 THEN NoHash ELSE hash[cached[i - 1]],
                                    BlockTokens(s, i))
        /\ hash[cached[i]] \in HashVal
        /\ cached[i] \in Range(index[hash[cached[i]]])
  BY <1>0, <1>2, HitsArePublished
<1>4. /\ refCount' = [b \in Block |->
                        IF b \in F THEN 1
                        ELSE IF b \notin C THEN refCount[b]
                        ELSE IF b \in used THEN refCount[b] + 1 ELSE 1]
      /\ ResetBlocks(F)
      /\ table' = [table EXCEPT ![s] = cached \o fresh]
      /\ numCached' = [numCached EXCEPT ![s] = n * BlockSize]
      /\ UNCHANGED tokens
  BY DEF Admit, Allocate
<1> HIDE DEF n, cached, rest, need, fresh
<1>5. F \in SUBSET Block /\ F \cap used = {} /\ F \cap C = {}
  BY <1>0, <1>2 DEF PoolInv, Ownership, FreeListExact
<1>6. /\ \A b \in Block \ F :
           /\ identity'[b] = identity[b] /\ hash'[b] = hash[b]
           /\ \A x \in HashVal : b \in Range(index[x]) => b \in Range(index'[x])
      /\ \A b \in F : identity'[b] = <<>>
  BY <1>0, <1>4, <1>5, ResetBlocksEffect
<1>7. BlockSize \in Nat \ {0} /\ Len(tokens[s]) \in Nat
  BY <1>0, SequenceTypes
<1>8. \A b \in C : identity[b] # <<>>
  <2> SUFFICES ASSUME NEW i \in 1 .. n PROVE identity[cached[i]] # <<>>
    BY <1>2 DEF C, Range
  <2>1. i \in Nat \ {0} /\ i <= Len(tokens[s]) \div BlockSize
    <3>1. Len(tokens[s]) \div BlockSize \in Nat
      BY <1>7, DivProperties
    <3> QED
      BY <1>2, <3>1
  <2>2. i * BlockSize <= Len(tokens[s])
    BY <1>7, <2>1, DivBound
  <2>3. Len(PrefixTokens(s, i)) = i * BlockSize
    BY <1>0, <2>1, <2>2, BlockTokensProperties
  <2>4. i * BlockSize # 0
    BY <1>7, <2>1
  <2> QED
    BY <1>3, <2>3, <2>4
<1> HIDE DEF C, F
<1>9. CASE r # s
  <2>1. \A b \in Range(table[r]) : b \in Block \ F
    BY <1>0, <1>5, HeldIsUsed
  <2>2. Untouched(r)
    BY <1>0, <1>4, <1>6, <1>8, <1>9, <2>1 DEF Untouched, PoolTypeOK
  <2> QED
    BY <1>0, <2>2, UntouchedKeeps
<1>10. CASE r = s
  <2> DEFINE t == cached \o fresh
  <2>1. /\ t \in Seq(Block) /\ Len(t) = n + need
        /\ \A i \in 1 .. n + need : t[i] = IF i <= n THEN cached[i] ELSE fresh[i - n]
    BY <1>2, ConcatProperties
  <2>2. table'[s] = t /\ numCached'[s] = n * BlockSize /\ tokens'[s] = tokens[s]
    BY <1>0, <1>4 DEF PoolTypeOK
  <2> HIDE DEF t
  <2>3. CachedBlocks(s)' = n
    BY <1>2, <1>7, <2>2, MultipleDiv DEF CachedBlocks
  <2>4. \A i \in 1 .. n : /\ t[i] = cached[i] /\ cached[i] \in Block \ F
                          /\ (i # 1 => i - 1 \in 1 .. n)
    <3>1. \A i \in 1 .. n : cached[i] \in C
      BY <1>2 DEF C, Range
    <3>2. \A i \in 1 .. n : t[i] = cached[i]
      BY <1>2, <2>1
    <3> QED
      BY <1>2, <1>3, <1>5, <3>1, <3>2
  <2>5. WithinBlocks(s)'
    <3>1. n * BlockSize <= Len(tokens[s])
      BY <1>2, <1>7, DivBound
    <3>2. n * BlockSize <= (n + need) * BlockSize
      BY <1>2, <1>7
    <3> QED
      BY <2>1, <2>2, <3>1, <3>2 DEF WithinBlocks
  <2>6. PendingPrivate(s)'
    <3> SUFFICES ASSUME NEW i \in 1 .. n + need, i > n
                 PROVE  refCount'[t[i]] = 1 /\ identity'[t[i]] = <<>>
      BY <2>1, <2>2, <2>3 DEF PendingPrivate
    <3>1. t[i] = fresh[i - n] /\ i - n \in 1 .. need
      BY <1>2, <2>1
    <3>2. t[i] \in F
      BY <1>2, <3>1 DEF F, Range
    <3> QED
      BY <1>4, <1>5, <1>6, <3>2
  <2>7. PublishedFor(s)'
    BY <1>3, <1>6, <2>2, <2>3, <2>4 DEF PublishedFor, PrefixTokens
  <2>8. Indexed(s)'
    <3> SUFFICES ASSUME NEW i \in 1 .. n
                 PROVE  /\ hash'[t[i]] = XxHash(HashBefore(s, i)', BlockTokens(s, i)')
                        /\ hash'[t[i]] \in HashVal
                        /\ t[i] \in Range(index'[hash'[t[i]]])
      BY <2>2, <2>3 DEF Indexed
    <3>1. HashBefore(s, i)' = IF i = 1 THEN NoHash ELSE hash[cached[i - 1]]
      BY <1>6, <2>2, <2>4 DEF HashBefore
    <3>2. BlockTokens(s, i)' = BlockTokens(s, i)
      BY <2>2 DEF BlockTokens
    <3> QED
      BY <1>3, <1>6, <2>4, <3>1, <3>2
  <2>9. KeepsCached(s)
    <3>1. CachedBlocks(s) \in 0 .. Len(table[s]) /\ Len(<<>>) = 0
      BY <1>0, CachedBlocksProperties DEF CacheOK
    <3>2. 1 .. CachedBlocks(s) = {}
      BY <1>1, <3>1
    <3> QED
      BY <3>2 DEF KeepsCached
  <2> QED
    BY <1>10, <2>5, <2>6, <2>7, <2>8, <2>9 DEF CacheOK
<1> QED
  BY <1>9, <1>10

(* may_append_batch: a sequence gets at most one block more, from the free *)
(* list.                                                                   *)
LEMMA ReserveKeepsCache ==
  ASSUME CacheInv, NEW batch \in Batches, Reserve(batch), NEW r \in SeqId
  PROVE  CacheOK(r)' /\ KeepsCached(r)
<1> DEFINE S == {s \in SeqId : MissingBlocks(s) = 1}
           short == Retain(batch, S)
           m == Len(short)
           fresh == SubSeq(free, 1, m)
           F == Range(fresh)
           x == fresh[PositionIn(short, r)]
<1>0. PoolInv /\ PoolTypeOK /\ CacheOK(r)
  BY DEF CacheInv, PoolInv
<1>1. batch \in Seq(SeqId) /\ NoDuplicates(batch) /\ CanAppendBatch(batch)
  BY DEF Batches, Reserve
<1>2. /\ refCount' = [b \in Block |-> IF b \in F THEN 1 ELSE refCount[b]]
      /\ ResetBlocks(F)
      /\ table'[r] = IF r \in Range(short) THEN Append(table[r], x) ELSE table[r]
      /\ UNCHANGED <<tokens, numCached>>
  BY DEF Reserve, MayAppendBatch
<1>3. free \in Seq(Block) /\ NoDuplicates(free) /\ Range(free) = Block \ used
  BY <1>0 DEF PoolInv, PoolTypeOK, Ownership, FreeListExact
<1>4. /\ short \in Seq(SeqId) /\ m \in Nat
      /\ m = Cardinality({i \in 1 .. Len(batch) : batch[i] \in S})
  BY <1>1, RetainProperties
<1>5. m <= Len(free)
  <2>1. {i \in 1 .. Len(batch) : batch[i] \in S} =
          {i \in DOMAIN batch : MissingBlocks(batch[i]) = 1}
    BY <1>1
  <2> QED
    BY <1>1, <1>4, <2>1 DEF CanAppendBatch
<1> HIDE DEF S, short
<1>6. /\ fresh \in Seq(Block) /\ Len(fresh) = m /\ F \subseteq Range(free)
  <2>1. m \in 0 .. Len(free)
    BY <1>3, <1>4, <1>5
  <2> QED
    BY <1>3, <2>1, SplitProperties
<1>7. r \in Range(short) => x \in F
  <2> SUFFICES ASSUME r \in Range(short) PROVE x \in F
    OBVIOUS
  <2>1. PositionIn(short, r) \in DOMAIN short
    BY PositionProperties
  <2>2. PositionIn(short, r) \in DOMAIN fresh
    BY <1>4, <1>6, <2>1
  <2> QED
    BY <2>2 DEF Range
<1> HIDE DEF fresh, x, m
<1>8. F \in SUBSET Block /\ F \cap used = {}
  BY <1>3, <1>6
<1>9. /\ \A b \in Block \ F :
           /\ identity'[b] = identity[b] /\ hash'[b] = hash[b]
           /\ \A y \in HashVal : b \in Range(index[y]) => b \in Range(index'[y])
      /\ \A b \in F : identity'[b] = <<>>
  BY <1>0, <1>2, <1>8, ResetBlocksEffect
<1> HIDE DEF F
<1>10. \A b \in Range(table[r]) : b \in Block \ F
  BY <1>0, <1>8, HeldIsUsed
<1>11. CASE r \notin Range(short)
  <2>1. Untouched(r)
    BY <1>0, <1>2, <1>9, <1>10, <1>11 DEF Untouched
  <2> QED
    BY <1>0, <2>1, UntouchedKeeps
<1>12. CASE r \in Range(short)
  <2> DEFINE t == Append(table[r], x)
             k == CachedBlocks(r)
             l == Len(table[r])
  <2>1. table[r] \in Seq(Block) /\ x \in Block /\ l \in Nat /\ DOMAIN table[r] = 1 .. l
    BY <1>0, <1>7, <1>8, <1>12, SequenceTypes
  <2>2. /\ t \in Seq(Block) /\ Len(t) = l + 1 /\ t[l + 1] = x
        /\ \A i \in 1 .. l : t[i] = table[r][i]
    BY <2>1, AppendProperties
  <2>3. table'[r] = t /\ CachedBlocks(r)' = k
    BY <1>2, <1>12 DEF CachedBlocks
  <2>4. k \in 0 .. l
    BY <1>0, CachedBlocksProperties DEF CacheOK
  <2> HIDE DEF t, k, l
  <2>5. \A i \in 1 .. l : t[i] = table[r][i] /\ table[r][i] \in Block \ F
    BY <1>10, <2>1, <2>2 DEF Range
  <2>6. \A i \in 1 .. k : i \in 1 .. l /\ (i # 1 => i - 1 \in 1 .. l)
    BY <2>1, <2>4
  <2>7. WithinBlocks(r)'
    <3>1. BlockSize \in Nat \ {0} /\ numCached[r] \in Nat
      BY <1>0, SequenceTypes
    <3>2. (l + 1) * BlockSize = l * BlockSize + BlockSize /\ l * BlockSize \in Nat
      BY <2>1, <3>1
    <3>3. numCached[r] <= Len(tokens[r]) /\ numCached[r] <= l * BlockSize
      BY <1>0 DEF CacheOK, WithinBlocks, l
    <3>4. numCached[r] <= (l + 1) * BlockSize
      BY <3>1, <3>2, <3>3
    <3> QED
      BY <1>2, <2>2, <2>3, <3>3, <3>4 DEF WithinBlocks
  <2>8. PendingPrivate(r)'
    <3> SUFFICES ASSUME NEW i \in 1 .. l + 1, i > k
                 PROVE  refCount'[t[i]] = 1 /\ identity'[t[i]] = <<>>
      BY <2>2, <2>3 DEF PendingPrivate
    <3>1. CASE i = l + 1
      BY <1>2, <1>7, <1>8, <1>9, <1>12, <2>2, <3>1
    <3>2. CASE i \in 1 .. l
      <4>1. refCount[table[r][i]] = 1 /\ identity[table[r][i]] = <<>>
        BY <1>0, <2>1, <3>2 DEF CacheOK, PendingPrivate, k
      <4> QED
        BY <1>2, <1>9, <2>5, <3>2, <4>1
    <3> QED
      BY <2>1, <3>1, <3>2
  <2>9. PublishedFor(r)'
    <3>1. \A i \in 1 .. k : identity[table[r][i]] = PrefixTokens(r, i)
      BY <1>0 DEF CacheOK, PublishedFor, k
    <3>2. \A i \in 1 .. k : identity'[t[i]] = PrefixTokens(r, i)'
      BY <1>2, <1>9, <2>5, <2>6, <3>1 DEF PrefixTokens
    <3> QED
      BY <2>3, <3>2 DEF PublishedFor
  <2>10. Indexed(r)'
    <3> SUFFICES ASSUME NEW i \in 1 .. k
                 PROVE  /\ hash'[t[i]] = XxHash(HashBefore(r, i)', BlockTokens(r, i)')
                        /\ hash'[t[i]] \in HashVal
                        /\ t[i] \in Range(index'[hash'[t[i]]])
      BY <2>3 DEF Indexed
    <3>1. /\ hash[table[r][i]] = XxHash(HashBefore(r, i), BlockTokens(r, i))
          /\ hash[table[r][i]] \in HashVal
          /\ table[r][i] \in Range(index[hash[table[r][i]]])
      BY <1>0 DEF Indexed, CacheOK, k
    <3>2. HashBefore(r, i)' = HashBefore(r, i) /\ BlockTokens(r, i)' = BlockTokens(r, i)
      BY <1>2, <1>9, <2>3, <2>5, <2>6 DEF HashBefore, BlockTokens
    <3> QED
      BY <1>9, <2>5, <2>6, <3>1, <3>2
  <2>11. KeepsCached(r)
    BY <1>9, <2>3, <2>5, <2>6 DEF KeepsCached, k
  <2> QED
    BY <2>7, <2>8, <2>9, <2>10, <2>11 DEF CacheOK
<1> QED
  BY <1>11, <1>12

(* deallocate_batch: what the sequences of the batch had cached is given   *)
(* up; the others do not share a pending block with them.                  *)
LEMMA ReleaseKeepsCache ==
  ASSUME CacheInv, NEW batch \in Batches, Release(batch), NEW r \in SeqId
  PROVE  CacheOK(r)' /\ KeepsCached(r)
<1> DEFINE Q == Range(batch)
<1>0. PoolInv /\ PoolTypeOK /\ CacheOK(r)
  BY DEF CacheInv, PoolInv
<1>1. /\ refCount' = [b \in Block |-> refCount[b] - ReleaseCount(batch, b)]
      /\ table' = [s \in SeqId |-> IF s \in Q THEN <<>> ELSE table[s]]
      /\ numCached' = [s \in SeqId |-> IF s \in Q THEN 0 ELSE numCached[s]]
      /\ UNCHANGED <<hash, identity, index, tokens>>
  BY DEF Release, DeallocateBatch
<1>2. Q \subseteq SeqId
  BY DEF Batches, Range
<1>3. CASE r \in Q
  <2>1. table'[r] = <<>> /\ numCached'[r] = 0 /\ tokens'[r] = tokens[r]
    BY <1>1, <1>3
  <2>2. BlockSize \in Nat \ {0} /\ Len(tokens[r]) \in Nat /\ Len(<<>>) = 0
    BY <1>0, SequenceTypes
  <2>3. CachedBlocks(r)' = 0
    <3>1. 0 * BlockSize = 0 /\ (0 * BlockSize) \div BlockSize = 0
      BY <2>2, MultipleDiv
    <3> QED
      BY <2>1, <3>1 DEF CachedBlocks
  <2>4. WithinBlocks(r)'
    BY <2>1, <2>2 DEF WithinBlocks
  <2>5. PendingPrivate(r)' /\ PublishedFor(r)' /\ Indexed(r)' /\ KeepsCached(r)
    BY <2>1, <2>3 DEF PendingPrivate, PublishedFor, Indexed, KeepsCached
  <2> QED
    BY <2>4, <2>5 DEF CacheOK
<1>4. CASE r \notin Q
  <2>1. ASSUME NEW b \in Range(table[r]), refCount[b] = 1 PROVE refCount'[b] = 1
    <3>1. b \in Block /\ Owners(b) = {r}
      BY <1>0, <2>1, SoleOwner
    <3>2. {s \in Q : b \in Range(table[s])} = {}
      BY <1>2, <1>4, <3>1 DEF Owners
    <3>3. ReleaseCount(batch, b) = 0
      BY <3>2, FS_EmptySet DEF ReleaseCount
    <3> QED
      BY <1>1, <2>1, <3>1, <3>3
  <2>2. Untouched(r)
    BY <1>1, <1>4, <2>1 DEF Untouched
  <2> QED
    BY <1>0, <2>2, UntouchedKeeps
<1> QED
  BY <1>3, <1>4

(* hash_blocks publishes blocks that only s holds: those after its cached  *)
(* ones.  Nobody else's cached block is one of them.                       *)
LEMMA CommitKeepsCache ==
  ASSUME CacheInv, NEW s \in SeqId, NEW n \in 1 .. MaxModelLen, NEW t \in Sampled,
         Commit(s, n, t), NEW r \in SeqId
  PROVE  CacheOK(r)' /\ KeepsCached(r)
<1> DEFINE B == BlockSize
           done == numCached[s] + n
           start == numCached[s] \div B
           end == done \div B
           seed == IF start = 0 THEN NoHash ELSE hash[table[s][start]]
           h == ChainHash(s, start, seed, end)
           parent == IF start = 0 THEN <<>> ELSE identity[table[s][start]]
           filled == SubSeq(table[s], start + 1, end)
           at(b) == start + PositionIn(filled, b)
           moved(x) == {b \in Range(filled) : h[at(b)] = x \/ (x # NoHash /\ hash[b] = x)}
           new(x) == {b \in Range(filled) : h[at(b)] = x}
<1>0. PoolInv /\ PoolTypeOK /\ Ownership /\ CacheOK(r) /\ CacheOK(s)
  BY DEF CacheInv, PoolInv
<1>1. /\ B \in Nat \ {0} /\ numCached[s] \in Nat
      /\ tokens[s] \in Seq(Token) /\ Len(tokens[s]) \in Nat
      /\ table[s] \in Seq(Block) /\ Len(table[s]) \in Nat
  BY <1>0, SequenceTypes
<1>2. /\ done \in Nat /\ done <= Len(tokens[s]) /\ done <= Len(table[s]) * B
      /\ start \in Nat /\ end \in Nat /\ start <= end /\ end <= Len(table[s])
      /\ end * B \in Nat /\ end * B <= Len(tokens[s])
  BY <1>0, CommitShape
<1>3. /\ hash' = [b \in Block |-> IF b \in Range(filled) THEN h[at(b)] ELSE hash[b]]
      /\ identity' = [b \in Block |->
           IF b \in Range(filled)
           THEN parent \o SubSeq(tokens[s], start * B + 1, at(b) * B)
           ELSE identity[b]]
      /\ index' = [x \in HashVal |->
           Retain(index[x], Block \ moved(x)) \o Retain(filled, new(x))]
  BY DEF Commit, HashBlocks
<1>4. /\ numCached' = [numCached EXCEPT ![s] = @ + n]
      /\ tokens' = [tokens EXCEPT ![s] = @ \o t]
      /\ UNCHANGED <<free, used, refCount, table>>
  BY DEF Commit
<1>5. CachedBlocks(s) = start
  BY DEF CachedBlocks
<1>6. t \in Seq(Token)
  <2>1. CASE t = <<>>
    BY <2>1
  <2>2. ASSUME NEW x \in Token, t = <<x>> PROVE t \in Seq(Token)
    BY <2>2
  <2> QED
    BY <2>1, <2>2 DEF Sampled
<1>7. /\ numCached'[s] = done /\ tokens'[s] = tokens[s] \o t /\ table'[s] = table[s]
      /\ CachedBlocks(s)' = end
  BY <1>0, <1>4 DEF PoolTypeOK, CachedBlocks
<1> HIDE DEF done, start, end
<1>8. \A i \in start .. end : h[i] = IF i = start THEN seed
                                    ELSE XxHash(h[i - 1], BlockTokens(s, i))
  <2>1. start \in Nat /\ end \in Nat /\ start <= end
    BY <1>2
  <2> HIDE DEF seed
  <2> QED
    BY <2>1, ChainHashStep
<1>9. \A i \in start + 1 .. end : h[i] \in HashVal
  <2>1. start # 0 => table[s][start] \in Block
    BY <1>1, <1>2
  <2>2. seed \in HashVal \cup {NoHash}
    BY <1>0, <2>1 DEF PoolTypeOK
  <2> QED
    BY <1>0, <1>2, <2>2, ChainHashProperties
<1> HIDE DEF h
<1>10. /\ filled \in Seq(Block) /\ DOMAIN filled = 1 .. end - start
       /\ \A i \in 1 .. end - start : filled[i] = table[s][start + i]
  <2>1. \A i \in start + 1 .. end : table[s][i] \in Block
    BY <1>1, <1>2
  <2>2. /\ filled \in Seq(Block)
        /\ Len(filled) = IF start + 1 <= end THEN end - (start + 1) + 1 ELSE 0
        /\ \A i \in 1 .. end - (start + 1) + 1 : filled[i] = table[s][(start + 1) + i - 1]
    BY <1>2, <2>1, SubSeqProperties
  <2> HIDE DEF filled
  <2>3. Len(filled) = end - start
    BY <1>2, <2>2
  <2>4. \A i \in 1 .. end - start : filled[i] = table[s][start + i]
    <3> TAKE i \in 1 .. end - start
    <3>1. i \in 1 .. end - (start + 1) + 1 /\ (start + 1) + i - 1 = start + i
      BY <1>2
    <3> QED
      BY <2>2, <3>1
  <2> QED
    BY <2>2, <2>3, <2>4
<1> HIDE DEF filled
<1>11. \A i \in start + 1 .. end : table[s][i] \in Range(filled)
  <2> TAKE i \in start + 1 .. end
  <2>1. i - start \in 1 .. end - start /\ start + (i - start) = i
    BY <1>2
  <2>2. filled[i - start] = table[s][i] /\ i - start \in DOMAIN filled
    BY <1>10, <2>1
  <2> QED
    BY <2>2 DEF Range
<1>12. \A b \in Range(filled) : at(b) \in start + 1 .. end /\ table[s][at(b)] = b
  <2> SUFFICES ASSUME NEW b \in Range(filled)
               PROVE  at(b) \in start + 1 .. end /\ table[s][at(b)] = b
    OBVIOUS
  <2>1. PositionIn(filled, b) \in 1 .. end - start /\ filled[PositionIn(filled, b)] = b
    BY <1>10, PositionProperties
  <2>2. at(b) \in start + 1 .. end
    BY <1>2, <2>1
  <2> QED
    BY <1>10, <2>1, <2>2
<1> HIDE DEF at
<1>13. \A i, j \in 1 .. Len(table[s]) : i # j => table[s][i] # table[s][j]
  BY <1>0, <1>1 DEF Ownership, TablesInjective, NoDuplicates
<1>14. \A i \in 1 .. Len(table[s]) :
         IF i \in start + 1 .. end
         THEN table[s][i] \in Range(filled) /\ at(table[s][i]) = i
         ELSE table[s][i] \notin Range(filled)
  <2> SUFFICES ASSUME NEW i \in 1 .. Len(table[s])
               PROVE  IF i \in start + 1 .. end
                      THEN table[s][i] \in Range(filled) /\ at(table[s][i]) = i
                      ELSE table[s][i] \notin Range(filled)
    OBVIOUS
  <2>1. \A j \in start + 1 .. end : j \in 1 .. Len(table[s])
    BY <1>1, <1>2
  <2> QED
    BY <1>11, <1>12, <1>13, <2>1
<1>15. \A b \in Range(filled) : b \in Block /\ Owners(b) = {s}
  <2> SUFFICES ASSUME NEW b \in Range(filled) PROVE b \in Block /\ Owners(b) = {s}
    OBVIOUS
  <2>1. at(b) \in DOMAIN table[s] /\ at(b) > start /\ table[s][at(b)] = b
    BY <1>1, <1>2, <1>12
  <2>2. refCount[b] = 1
    BY <1>0, <1>5, <2>1 DEF CacheOK, PendingPrivate
  <2>3. b \in Range(table[s])
    BY <2>1 DEF Range
  <2> QED
    BY <1>0, <2>2, <2>3, SoleOwner
<1>16. \A b \in Block \ Range(filled) :
         /\ identity'[b] = identity[b] /\ hash'[b] = hash[b]
         /\ \A x \in HashVal : b \in Range(index[x]) => b \in Range(index'[x])
  <2>1. ASSUME NEW b \in Block \ Range(filled), NEW x \in HashVal, b \in Range(index[x])
        PROVE  b \in Range(index'[x])
    <3>1. index[x] \in Seq(Block)
      BY <1>0 DEF PoolTypeOK
    <3>2. /\ Retain(index[x], Block \ moved(x)) \in Seq(Block)
          /\ Retain(filled, new(x)) \in Seq(Block)
          /\ Range(Retain(index[x], Block \ moved(x))) = Range(index[x]) \cap (Block \ moved(x))
      BY <1>10, <3>1, RetainProperties
    <3>3. b \in Range(Retain(index[x], Block \ moved(x)))
      BY <2>1, <3>2
    <3> HIDE DEF moved, new
    <3>4. index'[x] = Retain(index[x], Block \ moved(x)) \o Retain(filled, new(x))
      BY <1>3
    <3> QED
      BY <3>2, <3>3, <3>4, RangeConcatenation
  <2>2. \A b \in Block \ Range(filled) : identity'[b] = identity[b] /\ hash'[b] = hash[b]
    BY <1>3
  <2> QED
    BY <2>1, <2>2
<1>17. \A b \in Range(filled) : hash'[b] = h[at(b)] /\ b \in Range(index'[h[at(b)]])
  <2> SUFFICES ASSUME NEW b \in Range(filled)
               PROVE  hash'[b] = h[at(b)] /\ b \in Range(index'[h[at(b)]])
    OBVIOUS
  <2> DEFINE x == h[at(b)]
  <2>1. x \in HashVal /\ hash'[b] = x
    BY <1>3, <1>9, <1>12, <1>15
  <2>2. b \in new(x)
    OBVIOUS
  <2> HIDE DEF x
  <2>3. index[x] \in Seq(Block)
    BY <1>0, <2>1 DEF PoolTypeOK
  <2>4. /\ Retain(index[x], Block \ moved(x)) \in Seq(Block)
        /\ Retain(filled, new(x)) \in Seq(Block)
        /\ Range(Retain(filled, new(x))) = Range(filled) \cap new(x)
    BY <1>10, <2>3, RetainProperties
  <2>5. b \in Range(Retain(filled, new(x)))
    BY <2>2, <2>4
  <2> HIDE DEF moved, new
  <2>6. index'[x] = Retain(index[x], Block \ moved(x)) \o Retain(filled, new(x))
    BY <1>3, <2>1
  <2>7. b \in Range(index'[x])
    BY <2>4, <2>5, <2>6, RangeConcatenation
  <2> QED
    BY <2>1, <2>7 DEF x
<1>18. CASE r # s
  <2>1. \A b \in Range(table[r]) : b \in Block \ Range(filled)
    <3> TAKE b \in Range(table[r])
    <3>1. b \in Block /\ r \in Owners(b)
      BY <1>0, HeldIsUsed DEF Owners
    <3> QED
      BY <1>15, <1>18, <3>1
  <2>2. Untouched(r)
    BY <1>0, <1>4, <1>16, <1>18, <2>1 DEF Untouched, PoolTypeOK
  <2> QED
    BY <1>0, <2>2, UntouchedKeeps
<1>19. CASE r = s
  <2> DEFINE T == table[s]
  <2>1. \A i \in 1 .. Len(T) : T[i] \in Block
    BY <1>1
  <2>2. \A i \in 1 .. end : /\ i \in 1 .. Len(T) /\ i * B \in Nat /\ i * B <= Len(tokens[s])
                            /\ i # 1 => i - 1 \in 1 .. end
                            /\ i <= start \/ i \in start + 1 .. end
    <3> SUFFICES ASSUME NEW i \in 1 .. end
                 PROVE  i * B \in Nat /\ i * B <= Len(tokens[s])
      BY <1>1, <1>2
    <3>1. i * B \in Nat
      BY <1>1
    <3>2. CASE i = end
      BY <1>2, <3>2
    <3>3. CASE i < end
      <4> DEFINE v == i * B
                 w == end * B
      <4>1. v + B <= w /\ v \in Nat
        BY <1>1, <1>2, <3>1, <3>3, ProductMonotone
      <4>2. w \in Nat /\ w <= Len(tokens[s])
        BY <1>2
      <4> HIDE DEF v, w
      <4>3. v <= Len(tokens[s])
        BY <1>1, <4>1, <4>2
      <4> QED
        BY <3>1, <4>3 DEF v
    <3> QED
      BY <1>2, <3>1, <3>2, <3>3
  <2>3. \A i \in 1 .. end : PrefixTokens(s, i)' = PrefixTokens(s, i)
                            /\ BlockTokens(s, i)' = BlockTokens(s, i)
    <3> TAKE i \in 1 .. end
    <3>1. i \in Nat \ {0} /\ i * BlockSize <= Len(tokens[s])
      BY <1>2, <2>2
    <3> QED
      BY <1>0, <1>6, <1>7, <3>1, HistoryGrows
  <2>4. \A i \in 1 .. start : /\ T[i] \in Block \ Range(filled)
                              /\ i \in 1 .. end
    BY <1>1, <1>2, <1>14, <2>1
  <2>5. WithinBlocks(s)'
    <3>1. Len(tokens[s] \o t) = Len(tokens[s]) + Len(t) /\ Len(t) \in Nat
      BY <1>1, <1>6, ConcatProperties
    <3>2. done <= Len(tokens[s] \o t)
      BY <1>1, <1>2, <3>1
    <3> QED
      BY <1>2, <1>7, <3>2 DEF WithinBlocks
  <2>6. PendingPrivate(s)'
    <3> SUFFICES ASSUME NEW i \in DOMAIN T, i > end
                 PROVE  refCount'[T[i]] = 1 /\ identity'[T[i]] = <<>>
      BY <1>7 DEF PendingPrivate
    <3>1. i \in 1 .. Len(T) /\ i \notin start + 1 .. end /\ i > start
      BY <1>1, <1>2
    <3>2. refCount[T[i]] = 1 /\ identity[T[i]] = <<>>
      BY <1>0, <1>5, <3>1 DEF CacheOK, PendingPrivate
    <3> QED
      BY <1>4, <1>14, <1>16, <2>1, <3>1, <3>2
  <2>7. PublishedFor(s)'
    <3> SUFFICES ASSUME NEW i \in 1 .. end PROVE identity'[T[i]] = PrefixTokens(s, i)
      BY <1>7, <2>3 DEF PublishedFor
    <3>1. CASE i <= start
      <4>1. i \in 1 .. start
        BY <1>2, <3>1
      <4>2. identity[T[i]] = PrefixTokens(s, i)
        BY <1>0, <1>5, <4>1 DEF CacheOK, PublishedFor
      <4> QED
        BY <1>16, <2>4, <4>1, <4>2
    <3>2. CASE i \in start + 1 .. end
      <4> DEFINE u == start * B
                 v == i * B
                 ts == tokens[s]
      <4>1. T[i] \in Range(filled) /\ at(T[i]) = i /\ T[i] \in Block
        BY <1>14, <2>1, <2>2, <3>2
      <4>2. identity'[T[i]] = parent \o SubSeq(ts, u + 1, v)
        BY <1>3, <4>1
      <4>3. u \in Nat /\ v \in Nat /\ u <= v /\ v <= Len(ts)
        <5>1. u \in Nat
          BY <1>1, <1>2
        <5>2. u + B <= v
          <6>1. start < i /\ i \in Nat
            BY <1>2, <3>2
          <6> QED
            BY <1>1, <1>2, <6>1, ProductMonotone
        <5> QED
          BY <1>1, <2>2, <5>1, <5>2
      <4>4. parent = SubSeq(ts, 1, u)
        <5>1. CASE start = 0
          <6>1. u = 0
            BY <1>1, <5>1
          <6> QED
            BY <5>1, <6>1, SubSeqEmpty
        <5>2. CASE start # 0
          <6>1. start \in 1 .. start
            BY <1>2, <5>2
          <6> QED
            BY <1>0, <1>5, <5>2, <6>1 DEF CacheOK, PublishedFor, PrefixTokens
        <5> QED
          BY <5>1, <5>2
      <4> HIDE DEF u, v, ts
      <4>5. ts \in Seq(Token) /\ Len(ts) \in Nat
        BY <1>1 DEF ts
      <4>6. SubSeq(ts, 1, u) \o SubSeq(ts, u + 1, v) = SubSeq(ts, 1, v)
        <5>1. 1 \in 1 .. Len(ts) + 1 /\ u \in 1 - 1 .. Len(ts) /\ v \in u .. Len(ts)
          BY <4>3, <4>5
        <5> QED
          BY <4>5, <5>1, ConcatAdjacentSubSeq
      <4> QED
        BY <4>2, <4>4, <4>6 DEF PrefixTokens, v, ts
    <3> QED
      BY <2>2, <3>1, <3>2
  <2>8. Indexed(s)'
    <3> SUFFICES ASSUME NEW i \in 1 .. end
                 PROVE  /\ hash'[T[i]] = XxHash(HashBefore(s, i)', BlockTokens(s, i))
                        /\ hash'[T[i]] \in HashVal
                        /\ T[i] \in Range(index'[hash'[T[i]]])
      BY <1>7, <2>3 DEF Indexed
    <3>1. CASE i <= start
      <4>1. i \in 1 .. start /\ (i # 1 => i - 1 \in 1 .. start)
        BY <1>2, <3>1
      <4>2. /\ hash[T[i]] = XxHash(HashBefore(s, i), BlockTokens(s, i))
            /\ hash[T[i]] \in HashVal
            /\ T[i] \in Range(index[hash[T[i]]])
        BY <1>0, <1>5, <4>1 DEF CacheOK, Indexed
      <4>3. HashBefore(s, i)' = HashBefore(s, i)
        BY <1>7, <1>16, <2>4, <4>1 DEF HashBefore
      <4> QED
        BY <1>16, <2>4, <4>1, <4>2, <4>3
    <3>2. CASE i \in start + 1 .. end
      <4>1. T[i] \in Range(filled) /\ at(T[i]) = i
        BY <1>14, <2>2, <3>2
      <4>2. hash'[T[i]] = h[i] /\ T[i] \in Range(index'[h[i]]) /\ h[i] \in HashVal
        BY <1>9, <1>17, <3>2, <4>1
      <4>3. i \in start .. end /\ i # start /\ i - 1 \in start .. end /\ start \in start .. end
        BY <1>2, <3>2
      <4>4. h[i] = XxHash(h[i - 1], BlockTokens(s, i)) /\ h[start] = seed
        BY <1>8, <4>3
      <4>5. h[i - 1] = HashBefore(s, i)'
        <5>1. CASE i = start + 1 /\ start = 0
          BY <4>4, <5>1 DEF HashBefore
        <5>2. CASE i = start + 1 /\ start # 0
          <6>1. start \in 1 .. start /\ i # 1 /\ i - 1 = start
            BY <1>2, <5>2
          <6>2. hash'[T[start]] = hash[T[start]]
            BY <1>16, <2>4, <6>1
          <6>3. h[start] = hash[T[start]]
            BY <4>4, <5>2
          <6> QED
            BY <1>7, <6>1, <6>2, <6>3 DEF HashBefore
        <5>3. CASE i # start + 1
          <6>1. i - 1 \in start + 1 .. end /\ i # 1 /\ i - 1 \in 1 .. end
            BY <1>2, <3>2, <5>3
          <6>2. T[i - 1] \in Range(filled) /\ at(T[i - 1]) = i - 1
            BY <1>14, <2>2, <6>1
          <6>3. hash'[T[i - 1]] = h[i - 1]
            BY <1>17, <6>2
          <6> QED
            BY <1>7, <6>1, <6>3 DEF HashBefore
        <5> QED
          BY <5>1, <5>2, <5>3
      <4> QED
        BY <4>2, <4>4, <4>5
    <3> QED
      BY <2>2, <3>1, <3>2
  <2>9. KeepsCached(s)
    BY <1>5, <1>7, <1>16, <2>4 DEF KeepsCached
  <2> QED
    BY <1>19, <2>5, <2>6, <2>7, <2>8, <2>9 DEF CacheOK
<1> QED
  BY <1>18, <1>19
-----------------------------------------------------------------------------
(* A new pool has nothing cached.                                          *)
LEMMA CacheInit == PoolInit => CacheInv
<1> SUFFICES ASSUME PoolInit PROVE CacheInv
  OBVIOUS
<1>1. PoolInv
  BY InitPreserves
<1>2. ASSUME NEW s \in SeqId PROVE CacheOK(s)
  <2>1. table[s] = <<>> /\ numCached[s] = 0 /\ tokens[s] = <<>>
    BY DEF PoolInit
  <2>2. BlockSize \in Nat \ {0} /\ Len(<<>>) = 0
    BY PoolSizes
  <2>3. CachedBlocks(s) = 0
    <3>1. 0 * BlockSize = 0 /\ (0 * BlockSize) \div BlockSize = 0
      BY <2>2, MultipleDiv
    <3> QED
      BY <2>1, <3>1 DEF CachedBlocks
  <2>4. WithinBlocks(s)
    BY <2>1, <2>2 DEF WithinBlocks
  <2>5. PendingPrivate(s) /\ PublishedFor(s) /\ Indexed(s)
    BY <2>1, <2>3 DEF PendingPrivate, PublishedFor, Indexed
  <2> QED
    BY <2>4, <2>5 DEF CacheOK
<1> QED
  BY <1>1, <1>2 DEF CacheInv

(* Every step of a client preserves the invariant and the cached blocks.   *)
LEMMA CacheStep ==
  CacheInv /\ [PoolNext]_poolVars
    => CacheInv' /\ ((\A r \in SeqId : KeepsCached(r)) \/ UNCHANGED poolVars)
<1> SUFFICES ASSUME CacheInv, [PoolNext]_poolVars
             PROVE  CacheInv' /\ ((\A r \in SeqId : KeepsCached(r)) \/ UNCHANGED poolVars)
  OBVIOUS
<1>0. PoolInv'
  BY StepPreserves DEF CacheInv
<1> DEFINE Kept == \A r \in SeqId : CacheOK(r)' /\ KeepsCached(r)
<1>1. ASSUME NEW s \in SeqId, NEW p \in Prompt, NewSequence(s, p) PROVE Kept
  BY <1>1, NewSequenceKeepsCache
<1>2. ASSUME NEW s \in SeqId, Admit(s) PROVE Kept
  BY <1>2, AdmitKeepsCache
<1>3. ASSUME NEW q \in Batches, Reserve(q) PROVE Kept
  BY <1>3, ReserveKeepsCache
<1>4. ASSUME NEW s \in SeqId, NEW n \in 1 .. MaxModelLen, NEW t \in Sampled,
             Commit(s, n, t)
      PROVE  Kept
  BY <1>4, CommitKeepsCache
<1>5. ASSUME NEW q \in Batches, Release(q) PROVE Kept
  BY <1>5, ReleaseKeepsCache
<1>6. Kept => CacheInv' /\ \A r \in SeqId : KeepsCached(r)
  BY <1>0 DEF CacheInv
<1>7. CASE UNCHANGED poolVars
  BY <1>0, <1>7 DEF poolVars, CacheInv, CacheOK, WithinBlocks, PendingPrivate, PublishedFor,
                    Indexed, HashBefore, CachedBlocks, PrefixTokens, BlockTokens
<1> HIDE DEF Kept
<1> QED
  BY <1>1, <1>2, <1>3, <1>4, <1>5, <1>6, <1>7 DEF PoolNext

(* Every prefix hit is sound: a block that a sequence counts as cached was *)
(* published for exactly its tokens up to the end of the block, although   *)
(* hashes collide, equal the sentinel -1, and blocks are freed, revived,   *)
(* evicted and published again (cached_block_id, allocate, hash_blocks).   *)
THEOREM PoolPrefixPublished == PoolSpec => []PrefixPublished
<1>1. CacheInv => PrefixPublished
  BY DEF CacheInv, CacheOK, PublishedFor, CachedBlocks, PrefixPublished
<1> QED
  BY <1>1, CacheInit, CacheStep, PTL DEF PoolSpec

(* No eviction, reset or publication by anyone reaches a block that a      *)
(* sequence counts as cached, for as long as the sequence holds it         *)
(* (allocate_block_private, hash_blocks).                                  *)
THEOREM PoolPublishedIsStable == PoolSpec => PublishedIsStable
<1>1. CacheInv /\ [PoolNext]_poolVars =>
        [\A s \in SeqId : table'[s] # <<>> =>
           \A i \in 1 .. numCached[s] \div BlockSize :
             LET b == table[s][i]
             IN  table'[s][i] = b /\ identity'[b] = identity[b] /\ hash'[b] = hash[b]]_poolVars
  BY CacheStep DEF KeepsCached, CachedBlocks
<1> QED
  BY <1>1, CacheInit, CacheStep, PTL DEF PoolSpec, PublishedIsStable

(* The chain that a lookup computes meets the hashes of the cached blocks. *)
LEMMA ChainMeetsCached ==
  ASSUME PoolTypeOK, NEW s \in SeqId, CacheOK(s)
  PROVE  \A i \in 1 .. CachedBlocks(s) : FullChain(s)[i] = hash[table[s][i]]
<1> DEFINE k == CachedBlocks(s)
           full == Len(tokens[s]) \div BlockSize
           h == FullChain(s)
           S == {i \in Nat : i \in 1 .. k => h[i] = hash[table[s][i]]}
<1>1. WithinBlocks(s)
  BY DEF CacheOK
<1>2. BlockSize \in Nat \ {0} /\ Len(tokens[s]) \in Nat /\ Len(table[s]) \in Nat
  BY SequenceTypes
<1>3. full \in Nat /\ k \in 0 .. Len(table[s]) /\ k <= full
  BY <1>1, <1>2, CachedBlocksProperties, DivProperties
<1>4. \A i \in 0 .. full :
        h[i] = IF i = 0 THEN NoHash ELSE XxHash(h[i - 1], BlockTokens(s, i))
  BY <1>3, ChainHashStep DEF FullChain
<1>5. \A i \in 1 .. k :
        hash[table[s][i]] =
          XxHash(IF i = 1 THEN NoHash ELSE hash[table[s][i - 1]], BlockTokens(s, i))
  BY DEF CacheOK, Indexed, HashBefore
<1> HIDE DEF k, full, h
<1>6. 0 \in S
  OBVIOUS
<1>7. ASSUME NEW n \in Nat, n \in S PROVE n + 1 \in S
  <2> SUFFICES ASSUME n + 1 \in 1 .. k PROVE h[n + 1] = hash[table[s][n + 1]]
    OBVIOUS
  <2>1. n + 1 \in 0 .. full /\ n + 1 # 0 /\ n \in 0 .. full /\ (n + 1) - 1 = n
    BY <1>2, <1>3
  <2>2. h[n + 1] = XxHash(h[n], BlockTokens(s, n + 1))
    BY <1>4, <2>1
  <2>3. h[n] = IF n + 1 = 1 THEN NoHash ELSE hash[table[s][n]]
    <3>1. CASE n = 0
      BY <1>4, <2>1, <3>1
    <3>2. CASE n # 0
      <4>1. n \in 1 .. k /\ n + 1 # 1
        BY <1>3, <3>2
      <4> QED
        BY <1>7, <4>1
    <3> QED
      BY <3>1, <3>2
  <2>4. hash[table[s][n + 1]] =
          XxHash(IF n + 1 = 1 THEN NoHash ELSE hash[table[s][n]], BlockTokens(s, n + 1))
    BY <1>5, <2>1
  <2> QED
    BY <2>2, <2>3, <2>4
<1>8. S = Nat
  <2>1. S \in SUBSET Nat
    OBVIOUS
  <2> HIDE DEF S
  <2> QED
    BY <1>6, <1>7, <2>1, SetInduction
<1>9. \A i \in 1 .. k : i \in S
  BY <1>3, <1>8
<1> QED
  BY <1>9 DEF k, h

(* What a sequence has cached can be found by a request with the same      *)
(* prefix: no eviction, re-publication or collision loses the entry of a   *)
(* block that is held (remove_cache_entry, index_cache_entry).             *)
THEOREM PoolCachedIsFindable == PoolSpec => []CachedIsFindable
<1>1. ASSUME CacheInv PROVE CachedIsFindable
  <2> SUFFICES ASSUME NEW s \in SeqId
               PROVE  Len(CachedPrefix(s, CachedBlocks(s))) = CachedBlocks(s)
    BY DEF CachedIsFindable, CachedBlocks
  <2> DEFINE k == CachedBlocks(s)
             T == table[s]
  <2>1. PoolTypeOK /\ CacheOK(s)
    BY <1>1 DEF CacheInv, PoolInv
  <2>2. k \in 0 .. Len(T) /\ k <= Len(tokens[s]) \div BlockSize /\ Len(T) \in Nat
    BY <2>1, CachedBlocksProperties, SequenceTypes DEF CacheOK
  <2>3. ASSUME NEW i \in 1 .. k
        PROVE  BucketHits(FullChain(s)[i], PrefixTokens(s, i)) # {}
    <3>1. FullChain(s)[i] = hash[T[i]]
      BY <2>1, ChainMeetsCached
    <3>2. /\ identity[T[i]] = PrefixTokens(s, i)
          /\ hash[T[i]] \in HashVal /\ T[i] \in Range(index[hash[T[i]]])
      BY <2>1 DEF CacheOK, PublishedFor, Indexed
    <3>3. PICK j \in DOMAIN index[hash[T[i]]] : index[hash[T[i]]][j] = T[i]
      BY <3>2 DEF Range
    <3>4. j \in BucketHits(hash[T[i]], PrefixTokens(s, i))
      BY <3>2, <3>3 DEF BucketHits
    <3> QED
      BY <3>1, <3>4
  <2>4. k \in Nat
    BY <2>2
  <2> HIDE DEF k
  <2>5. Len(CachedPrefix(s, k)) = k
    BY <2>1, <2>2, <2>3, <2>4, CachedPrefixProperties
  <2> QED
    BY <2>5 DEF k
<1> QED
  BY <1>1, CacheInit, CacheStep, PTL DEF PoolSpec
-----------------------------------------------------------------------------
(* The validations of the transactions.                                    *)

(* A block without owner has no reference and is free; one with an owner   *)
(* is referenced and is not.                                               *)
LEMMA BlockStates ==
  ASSUME PoolInv, NEW b \in Block
  PROVE  /\ refCount[b] \in Nat
         /\ b \in used <=> refCount[b] # 0
         /\ b \in used <=> b \notin Range(free)
<1>1. /\ refCount[b] = Cardinality(Owners(b)) /\ (b \in used <=> Owners(b) # {})
      /\ Range(free) = Block \ used
  BY DEF PoolInv, Ownership, RefCountExact, UsedExact, FreeListExact
<1>2. IsFiniteSet(Owners(b)) /\ Cardinality(Owners(b)) \in Nat
  BY OwnersFinite
<1>3. Cardinality(Owners(b)) = 0 <=> Owners(b) = {}
  BY <1>2, FS_EmptySet
<1> QED
  BY <1>1, <1>2, <1>3

(* allocate, called with what can_allocate returned.                       *)
LEMMA AllocateNeverFails ==
  ASSUME PoolInv, NEW s \in SeqId, tokens[s] # <<>>, table[s] = <<>>,
         CanAllocate(s) # NoRoom
  PROVE  ~AllocateErrs(s, CanAllocate(s))
<1> DEFINE n == CanAllocate(s)
           cached == CachedPrefix(s, n)
           rest == Retain(free, Block \ Range(cached))
           need == BlocksNeeded(s) - n
           fresh == SubSeq(rest, 1, need)
<1>1. /\ n \in Nat /\ need \in Nat /\ need <= Len(rest) /\ n <= BlocksNeeded(s) - 1
      /\ Len(cached) = n
      /\ cached \in Seq(Block) /\ fresh \in Seq(Block)
      /\ NoDuplicates(cached) /\ NoDuplicates(fresh)
      /\ Range(fresh) \subseteq Range(free)
  BY AdmitPlan
<1>2. BlocksNeeded(s) \in Nat
  BY BlocksNeededProperties DEF PoolInv
<1>3. ~(n > BlocksNeeded(s))
  <2> HIDE DEF n
  <2> QED
    BY <1>1, <1>2
<1>4. ~(Len(rest) < need)
  <2>1. rest \in Seq(Block) /\ Len(rest) \in Nat
    BY RetainProperties DEF PoolInv, PoolTypeOK
  <2> HIDE DEF rest, need
  <2> QED
    BY <1>1, <2>1
<1> HIDE DEF n, cached, fresh
<1>5. \A b \in Range(cached) \cup Range(fresh) : b \in Block
  BY <1>1 DEF Range
<1>6. \A b \in Range(cached) : IF b \in used THEN refCount[b] # 0
                               ELSE refCount[b] = 0 /\ b \in Range(free)
  BY <1>5, BlockStates
<1>7. \A b \in Range(fresh) : refCount[b] = 0 /\ b \notin used
  BY <1>1, <1>5, BlockStates
<1> QED
  BY <1>1, <1>3, <1>4, <1>6, <1>7 DEF AllocateErrs, n, cached, fresh

(* may_append_batch, after can_append_batch.                               *)
LEMMA AppendNeverFails ==
  ASSUME PoolInv, NEW q \in Seq(SeqId), CanAppendBatch(q)
  PROVE  ~AppendErrs(q)
<1> DEFINE S == {s \in SeqId : MissingBlocks(s) = 1}
           short == Retain(q, S)
           m == Len(short)
           fresh == SubSeq(free, 1, m)
<1>1. free \in Seq(Block) /\ NoDuplicates(free)
  BY DEF PoolInv, PoolTypeOK, Ownership, FreeListExact
<1>2. m \in Nat /\ m = Cardinality({i \in 1 .. Len(q) : q[i] \in S})
  BY RetainProperties
<1>3. m <= Len(free)
  <2>1. {i \in 1 .. Len(q) : q[i] \in S} = {i \in DOMAIN q : MissingBlocks(q[i]) = 1}
    OBVIOUS
  <2> QED
    BY <1>2, <2>1 DEF CanAppendBatch
<1>4. fresh \in Seq(Block) /\ NoDuplicates(fresh) /\ Range(fresh) \subseteq Range(free)
  <2>1. m \in 0 .. Len(free)
    BY <1>1, <1>2, <1>3
  <2> HIDE DEF m
  <2> QED
    BY <1>1, <2>1, SplitProperties
<1>5. \A b \in Range(fresh) : refCount[b] = 0 /\ b \notin used
  <2>1. Range(fresh) \subseteq Block
    BY <1>4 DEF Range
  <2> HIDE DEF fresh
  <2> QED
    BY <1>4, <2>1, BlockStates
<1> QED
  BY <1>4, <1>5 DEF AppendErrs

(* deallocate_batch, for any sequences, each named once.                   *)
LEMMA DeallocateNeverFails ==
  ASSUME PoolInv, NEW q \in Batches
  PROVE  ~DeallocateErrs(q)
<1> SUFFICES ASSUME NEW s \in Range(q)
             PROVE  /\ NoDuplicates(table[s])
                    /\ \A b \in Range(table[s]) : /\ ~(refCount[b] < ReleaseCount(q, b))
                                                  /\ b \in used /\ b \notin Range(free)
  BY DEF DeallocateErrs
<1>1. Range(q) \subseteq SeqId
  BY DEF Batches, Range
<1>2. NoDuplicates(table[s])
  BY <1>1 DEF PoolInv, Ownership, TablesInjective
<1>3. ASSUME NEW b \in Range(table[s])
      PROVE  ~(refCount[b] < ReleaseCount(q, b)) /\ b \in used /\ b \notin Range(free)
  <2>1. b \in Block /\ b \in used /\ b \notin Range(free)
    BY <1>1, HeldIsUsed
  <2> DEFINE R == {r \in Range(q) : b \in Range(table[r])}
  <2>2. R \in SUBSET Owners(b)
    BY <1>1 DEF Owners
  <2>3. IsFiniteSet(Owners(b)) /\ Cardinality(Owners(b)) \in Nat
    BY OwnersFinite
  <2> HIDE DEF R
  <2>4. IsFiniteSet(R) /\ Cardinality(R) <= Cardinality(Owners(b))
    BY <2>2, <2>3, FS_Subset
  <2>5. Cardinality(R) \in Nat
    BY <2>4, FS_CardinalityType
  <2>6. refCount[b] = Cardinality(Owners(b)) /\ ReleaseCount(q, b) = Cardinality(R)
    BY <2>1 DEF PoolInv, Ownership, RefCountExact, ReleaseCount, R
  <2> QED
    BY <2>1, <2>3, <2>4, <2>5, <2>6
<1> QED
  BY <1>2, <1>3

(* No validation of a transaction fails for a caller that asked            *)
(* can_allocate or can_append_batch just before: whatever happened to the  *)
(* pool, no step is abandoned half way (allocate, may_append_batch,        *)
(* deallocate_batch).                                                      *)
THEOREM PoolNoErrors == PoolSpec => []NoPoolErrors
<1>1. ASSUME PoolInv PROVE NoPoolErrors
  <2>1. \A q \in Batches : q \in Seq(SeqId)
    BY DEF Batches
  <2> QED
    BY <1>1, <2>1, AllocateNeverFails, AppendNeverFails, DeallocateNeverFails DEF NoPoolErrors
<1> QED
  BY <1>1, InitPreserves, StepPreserves, PTL DEF PoolSpec
=============================================================================
