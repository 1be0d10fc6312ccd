----------------------------- MODULE BlockPool -----------------------------
(***************************************************************************)
(* The physical block pool with its prefix cache                           *)
(* (crates/vllm-oxide/src/engine/block_pool.rs) and the fields of Sequence *)
(* (engine/sequence.rs) that the pool reads and writes.  PoolNext is what  *)
(* callers may do with the pool: it is the interface the scheduler is      *)
(* shown to respect.                                                       *)
(*                                                                         *)
(* A chained PrefixCacheIdentity is the token sequence its chain spells;   *)
(* every node of a chain is one full block, so chains are equal exactly    *)
(* when these sequences are, and <<>> stands for None.  Block::token_ids   *)
(* is always the last block of that sequence (Block::update sets both), so *)
(* it needs no variable.  Block numbers and positions count from 1 where   *)
(* they index a TLA+ sequence.                                             *)
(***************************************************************************)
EXTENDS SeqOrder, FiniteSetsExt

CONSTANTS
  NumBlocks,          \* size of the pool
  BlockSize,          \* BLOCK_SIZE, tokens per block
  Token,              \* the vocabulary
  SeqId,              \* sequence identities ever used
  MaxModelLen,        \* longest history a validated request can reach
  Prompt,             \* the prompts requests come with
  HashVal,            \* the values XXH64 can take, read as i64
  XxHash(_, _)        \* XxHash(prefix, tokens): the chained hash function

Block == 0 .. NumBlocks - 1

NoHash == -1          \* the sentinel "unhashed", itself a possible i64 hash

ASSUME PoolSizes ==
  /\ NumBlocks \in Nat \ {0}
  /\ BlockSize \in Nat \ {0}
  /\ MaxModelLen \in Nat
  /\ IsFiniteSet(SeqId)
  /\ \A p \in Prompt : p \in Seq(Token) /\ Len(p) \in 1 .. MaxModelLen - 1

ASSUME HashDomain ==
  /\ HashVal \subseteq Int
  /\ \A h \in HashVal \cup {NoHash} : \A ts \in [1 .. BlockSize -> Token] :
       XxHash(h, ts) \in HashVal

VARIABLES
  free,               \* free_block_ids: VecDeque
  used,               \* used_block_ids: HashSet
  refCount,           \* Block::ref_count
  hash,               \* Block::hash
  identity,           \* Block::prefix_identity
  index               \* hash_to_block_id: bucket of each hash, <<>> if absent

VARIABLES             \* fields of each Sequence
  tokens,             \* token_ids, <<>> before the request exists
  table,              \* block_table
  numCached           \* num_cached_tokens

blockVars == <<free, used, refCount, hash, identity, index>>
poolVars == <<free, used, refCount, hash, identity, index, tokens, table, numCached>>
-----------------------------------------------------------------------------
(* Sequence helpers.                                                       *)

BlocksNeeded(s) == (Len(tokens[s]) + BlockSize - 1) \div BlockSize

BlockTokens(s, i) == SubSeq(tokens[s], (i - 1) * BlockSize + 1, i * BlockSize)

PrefixTokens(s, i) == SubSeq(tokens[s], 1, i * BlockSize)

MissingBlocks(s) == BlocksNeeded(s) - Len(table[s])
-----------------------------------------------------------------------------
(* Looking up the prefix cache.                                            *)

(* The chained hashes of blocks start + 1 .. end of s, the hash of block   *)
(* start being seed (compute_hash).                                        *)
ChainHash(s, start, seed, end) ==
  LET h[i \in start .. end] ==
        IF i = start THEN seed ELSE XxHash(h[i - 1], BlockTokens(s, i))
  IN  h

(* Mutant of BucketHits: trusts the hash and skips the identity.           *)
MutBucketHits(h, id) == {k \in DOMAIN index[h] : hash[index[h][k]] = h}

(* Places of the bucket of h whose block really carries that identity.     *)
BucketHits(h, id) ==
  {k \in DOMAIN index[h] : hash[index[h][k]] = h /\ identity[index[h][k]] = id}

(* max_by_key on "is used" returns the last of the maxima.                 *)
CachedBlockId(h, id) ==
  LET hits == BucketHits(h, id)
      usedHits == {k \in hits : index[h][k] \in used}
  IN  index[h][Max(IF usedHits # {} THEN usedHits ELSE hits)]

(* The cached blocks of the longest cached prefix of s, at most n blocks.  *)
CachedPrefix(s, n) ==
  LET h == ChainHash(s, 0, NoHash, Len(tokens[s]) \div BlockSize)
      Hit(i) == BucketHits(h[i], PrefixTokens(s, i)) # {}
      length == Max({k \in 0 .. n : \A i \in 1 .. k : Hit(i)})
  IN  [i \in 1 .. length |-> CachedBlockId(h[i], PrefixTokens(s, i))]

NoRoom == -1          \* the None of can_allocate

(* Mutant of CanAllocate: cached blocks that are free cost nothing.        *)
MutCanAllocate(s) ==
  LET cached == CachedPrefix(s, BlocksNeeded(s) - 1)
  IN  IF Len(free) < BlocksNeeded(s) - Len(cached) THEN NoRoom ELSE Len(cached)

(* Mutant of CanAllocate: a full last block may be reused.                 *)
MutReuseLastBlock(s) ==
  LET cached == CachedPrefix(s, Len(tokens[s]) \div BlockSize)
      shared == {i \in DOMAIN cached : cached[i] \in used}
  IN  IF Len(free) < BlocksNeeded(s) - Cardinality(shared) THEN NoRoom ELSE Len(cached)

(* The last block is never reused, even when it is full.                   *)
CanAllocate(s) ==
  LET cached == CachedPrefix(s, BlocksNeeded(s) - 1)
      shared == {i \in DOMAIN cached : cached[i] \in used}
  IN  IF BlocksNeeded(s) = 0 THEN 0
      ELSE IF Len(free) < BlocksNeeded(s) - Cardinality(shared) THEN NoRoom
      ELSE Len(cached)
-----------------------------------------------------------------------------
(* The operations of the pool.                                             *)

(* Mutant of ResetBlocks: an eviction drops the whole bucket.              *)
MutResetBlocks(F) ==
  /\ hash' = [b \in Block |-> IF b \in F THEN NoHash ELSE hash[b]]
  /\ identity' = [b \in Block |-> IF b \in F THEN <<>> ELSE identity[b]]
  /\ index' = [h \in HashVal |-> IF \E b \in F : hash[b] = h THEN <<>> ELSE index[h]]

(* allocate_block_private, for every block of F: the old index entry goes, *)
(* unless its hash looks like "unhashed", and the block is reset.          *)
ResetBlocks(F) ==
  /\ hash' = [b \in Block |-> IF b \in F THEN NoHash ELSE hash[b]]
  /\ identity' = [b \in Block |-> IF b \in F THEN <<>> ELSE identity[b]]
  /\ index' = [h \in HashVal |->
                 IF h = NoHash THEN index[h]
                 ELSE Retain(index[h], {b \in Block : b \notin F \/ hash[b] # h})]

(* The validations of allocate: no condition may hold when it is called    *)
(* with the count can_allocate returned.                                   *)
AllocateErrs(s, n) ==
  LET cached == CachedPrefix(s, n)
      rest == Retain(free, Block \ Range(cached))
      fresh == SubSeq(rest, 1, BlocksNeeded(s) - n)
  IN  \/ table[s] # <<>>
      \/ n > BlocksNeeded(s)
      \/ Len(cached) # n
      \/ ~NoDuplicates(cached)
      \/ \E b \in Range(cached) :
           IF b \in used THEN refCount[b] = 0
           ELSE refCount[b] # 0 \/ b \notin Range(free)
      \/ Len(rest) < BlocksNeeded(s) - n
      \/ ~NoDuplicates(fresh)
      \/ \E b \in Range(fresh) : refCount[b] # 0 \/ b \in used

Allocate(s, n) ==
  LET cached == CachedPrefix(s, n)
      rest == Retain(free, Block \ Range(cached))
      fresh == SubSeq(rest, 1, BlocksNeeded(s) - n)
  IN  /\ free' = SubSeq(rest, BlocksNeeded(s) - n + 1, Len(rest))
      /\ used' = used \cup Range(cached) \cup Range(fresh)
      /\ refCount' = [b \in Block |->
                        IF b \in Range(fresh) THEN 1
                        ELSE IF b \notin Range(cached) THEN refCount[b]
                        ELSE IF b \in used THEN refCount[b] + 1 ELSE 1]
      /\ ResetBlocks(Range(fresh))
      /\ table' = [table EXCEPT ![s] = cached \o fresh]
      /\ numCached' = [numCached EXCEPT ![s] = n * BlockSize]
      /\ UNCHANGED tokens

(* can_append_batch and the validations of may_append_batch.               *)
CanAppendBatch(batch) ==
  /\ \A i \in DOMAIN batch : MissingBlocks(batch[i]) \in {0, 1}
  /\ Cardinality({i \in DOMAIN batch : MissingBlocks(batch[i]) = 1}) <= Len(free)

AppendErrs(batch) ==
  LET short == Retain(batch, {s \in SeqId : MissingBlocks(s) = 1})
      fresh == SubSeq(free, 1, Len(short))
  IN  ~ /\ CanAppendBatch(batch)
        /\ NoDuplicates(fresh)
        /\ \A b \in Range(fresh) : refCount[b] = 0 /\ b \notin used

MayAppendBatch(batch) ==
  LET short == Retain(batch, {s \in SeqId : MissingBlocks(s) = 1})
      fresh == SubSeq(free, 1, Len(short))
  IN  /\ free' = SubSeq(free, Len(short) + 1, Len(free))
      /\ used' = used \cup Range(fresh)
      /\ refCount' = [b \in Block |-> IF b \in Range(fresh) THEN 1 ELSE refCount[b]]
      /\ ResetBlocks(Range(fresh))
      /\ table' = [s \in SeqId |->
                     IF s \in Range(short)
                     THEN Append(table[s], fresh[PositionIn(short, s)])
                     ELSE table[s]]
      /\ UNCHANGED <<tokens, numCached>>

(* Mutants of ReleaseCount: one reference per batch, and one for every     *)
(* sequence of the batch.                                                  *)
MutReleaseOnce(batch, b) ==
  IF \E s \in Range(batch) : b \in Range(table[s]) THEN 1 ELSE 0

MutReleaseForAll(batch, b) ==
  IF \E s \in Range(batch) : b \in Range(table[s]) THEN Len(batch) ELSE 0

(* How many sequences of the batch give up block b, and which blocks have  *)
(* no owner left then.                                                     *)
ReleaseCount(batch, b) ==
  Cardinality({s \in Range(batch) : b \in Range(table[s])})

(* Mutant of Freed: frees blocks that others still hold.                   *)
MutFreed(batch) == {b \in Block : \E s \in Range(batch) : b \in Range(table[s])}

Freed(batch) ==
  {b \in Block : ReleaseCount(batch, b) > 0 /\ refCount[b] = ReleaseCount(batch, b)}

DeallocateErrs(batch) ==
  \E s \in Range(batch) :
    \/ ~NoDuplicates(table[s])
    \/ \E b \in Range(table[s]) :
         \/ refCount[b] < ReleaseCount(batch, b)
         \/ b \notin used
         \/ b \in Range(free)

DeallocateBatch(batch) ==
  LET tables == [i \in DOMAIN batch |-> table[batch[i]]]
  IN  /\ free' = free \o WalkOrder(tables, Freed(batch))
      /\ used' = used \ Freed(batch)
      /\ refCount' = [b \in Block |-> refCount[b] - ReleaseCount(batch, b)]
      /\ table' = [s \in SeqId |-> IF s \in Range(batch) THEN <<>> ELSE table[s]]
      /\ numCached' = [s \in SeqId |-> IF s \in Range(batch) THEN 0 ELSE numCached[s]]
      /\ UNCHANGED <<hash, identity, index, tokens>>

(* hash_blocks, for a sequence with n scheduled tokens: publish the blocks *)
(* the step has filled, chained to the block before them.                  *)
HashBlocks(s, n) ==
  LET start == numCached[s] \div BlockSize
      end == (numCached[s] + n) \div BlockSize
      seed == IF start = 0 THEN NoHash ELSE hash[table[s][start]]
      h == ChainHash(s, start, seed, end)
      parent == IF start = 0 THEN <<>> ELSE identity[table[s][start]]
      filled == SubSeq(table[s], start + 1, end)
      at(b) == start + PositionIn(filled, b)
      moved(x) == {b \in Range(filled) : h[at(b)] = x \/ (x # NoHash /\ hash[b] = x)}
  IN  /\ hash' = [b \in Block |-> IF b \in Range(filled) THEN h[at(b)] ELSE hash[b]]
      /\ identity' = [b \in Block |->
                        IF b \in Range(filled)
                        THEN parent \o SubSeq(tokens[s], start * BlockSize + 1, at(b) * BlockSize)
                        ELSE identity[b]]
      /\ index' = [x \in HashVal |->
                     Retain(index[x], Block \ moved(x))
                       \o Retain(filled, {b \in Range(filled) : h[at(b)] = x})]
-----------------------------------------------------------------------------
(* The clients of the pool.                                                *)

PoolInit ==
  /\ free = [i \in 1 .. NumBlocks |-> i - 1]
  /\ used = {}
  /\ refCount = [b \in Block |-> 0]
  /\ hash = [b \in Block |-> NoHash]
  /\ identity = [b \in Block |-> <<>>]
  /\ index = [h \in HashVal |-> <<>>]
  /\ tokens = [s \in SeqId |-> <<>>]
  /\ table = [s \in SeqId |-> <<>>]
  /\ numCached = [s \in SeqId |-> 0]

(* Sequence::new.                                                          *)
NewSequence(s, prompt) ==
  /\ tokens[s] = <<>>
  /\ tokens' = [tokens EXCEPT ![s] = prompt]
  /\ UNCHANGED <<free, used, refCount, hash, identity, index, table, numCached>>

Admit(s) ==
  /\ tokens[s] # <<>>
  /\ table[s] = <<>>
  /\ CanAllocate(s) # NoRoom
  /\ Allocate(s, CanAllocate(s))

Reserve(batch) ==
  /\ \A i \in DOMAIN batch : table[batch[i]] # <<>>
  /\ CanAppendBatch(batch)
  /\ MayAppendBatch(batch)

(* The result of n computed tokens reaches the sequence: hash_blocks, the  *)
(* cached count, and the sampled token once the whole history is cached.   *)
Commit(s, n, sampled) ==
  /\ n \in 1 .. Len(tokens[s]) - numCached[s]
  /\ numCached[s] + n <= Len(table[s]) * BlockSize
  /\ numCached' = [numCached EXCEPT ![s] = @ + n]
  /\ \/ sampled = <<>>
     \/ /\ Len(sampled) = 1
        /\ numCached[s] + n = Len(tokens[s])
        /\ Len(tokens[s]) < MaxModelLen
  /\ tokens' = [tokens EXCEPT ![s] = @ \o sampled]
  /\ HashBlocks(s, n)
  /\ UNCHANGED <<free, used, refCount, table>>

Release(batch) ==
  /\ \A i \in DOMAIN batch : table[batch[i]] # <<>>
  /\ DeallocateBatch(batch)

(* Batches name each sequence once: they are selections from the queues.   *)
Batches == {q \in UNION {[1 .. n -> SeqId] : n \in 1 .. Cardinality(SeqId)} :
              NoDuplicates(q)}

Sampled == {<<>>} \cup {<<t>> : t \in Token}

PoolNext ==
  \/ \E s \in SeqId, p \in Prompt : NewSequence(s, p)
  \/ \E s \in SeqId : Admit(s)
  \/ \E s \in SeqId, n \in 1 .. MaxModelLen, t \in Sampled : Commit(s, n, t)
  \/ \E q \in Batches : Release(q)
  \/ \E q \in Batches : Reserve(q)

PoolSpec == PoolInit /\ [][PoolNext]_poolVars
-----------------------------------------------------------------------------
(* Every variable of the pool has the type of the field it models.         *)
PoolTypeOK ==
  /\ free \in Seq(Block)
  /\ used \in SUBSET Block
  /\ refCount \in [Block -> Nat]
  /\ hash \in [Block -> HashVal \cup {NoHash}]
  /\ identity \in [Block -> Seq(Token)]
  /\ index \in [HashVal -> Seq(Block)]
  /\ tokens \in [SeqId -> Seq(Token)]
  /\ table \in [SeqId -> Seq(Block)]
  /\ numCached \in [SeqId -> Nat]

Owners(b) == {s \in SeqId : b \in Range(table[s])}

(* The free list holds each unused block once, and nothing else.           *)
FreeListExact == NoDuplicates(free) /\ Range(free) = Block \ used

(* ref_count is the number of block tables that hold the block.            *)
RefCountExact == \A b \in Block : refCount[b] = Cardinality(Owners(b))

UsedExact == used = {b \in Block : Owners(b) # {}}

TablesInjective == \A s \in SeqId : NoDuplicates(table[s])

(* Blocks are neither leaked nor freed while some sequence still reads     *)
(* them, whatever the order of allocations, shared prefix hits, appends    *)
(* and batch releases (allocate, may_append_batch, deallocate_batch).      *)
Ownership == FreeListExact /\ RefCountExact /\ UsedExact /\ TablesInjective

(* A prefix hit is sound even when hashes collide or equal the sentinel    *)
(* -1: every block a sequence counts as cached was published for exactly   *)
(* that sequence's tokens up to the end of the block, whether the sequence *)
(* computed it or found it (cached_block_id, hash_blocks).                 *)
PrefixPublished ==
  \A s \in SeqId : \A i \in 1 .. numCached[s] \div BlockSize :
    identity[table[s][i]] = PrefixTokens(s, i)

(* What a live sequence has cached can be found by a request with the same *)
(* prefix: no eviction or re-hash of another block loses the entry         *)
(* (remove_cache_entry, index_cache_entry).                                *)
CachedIsFindable ==
  \A s \in SeqId :
    LET n == numCached[s] \div BlockSize IN Len(CachedPrefix(s, n)) = n

(* The transactions validate everything before they change anything; none  *)
(* of these validations fails for a caller that asked can_allocate or      *)
(* can_append_batch just before, so no step is ever abandoned half way.    *)
NoPoolErrors ==
  /\ \A s \in SeqId :
       tokens[s] # <<>> /\ table[s] = <<>> /\ CanAllocate(s) # NoRoom
         => ~AllocateErrs(s, CanAllocate(s))
  /\ \A q \in Batches :
       /\ CanAppendBatch(q) => ~AppendErrs(q)
       /\ ~DeallocateErrs(q)

(* While a sequence holds its blocks, the ones it counts as cached keep    *)
(* their place and what was published for them: no eviction, reset or      *)
(* re-publication by another sequence reaches a block that is being read.  *)
PublishedIsStable ==
  [][\A s \in SeqId : table'[s] # <<>> =>
       \A i \in 1 .. numCached[s] \div BlockSize :
         LET b == table[s][i]
         IN  table'[s][i] = b /\ identity'[b] = identity[b] /\ hash'[b] = hash[b]]_poolVars
=============================================================================
