-------------------------- MODULE AttentionLayout --------------------------
(***************************************************************************)
(* What one model step attends to                                          *)
(* (crates/vllm-oxide/src/attention/metadata.rs, math_layout.rs, math.rs,  *)
(* math_ops.rs, kernels/precision/attention.cu and the attention of        *)
(* models/qwen3.rs).  A step takes a chunk of each member of a batch.  The *)
(* layout is chosen by the workspace: one rectangle padded on the left, or *)
(* the members one by one, in chunks of query rows, with all heads at once *)
(* or head by head.  A key or a value is the token it was projected from,  *)
(* <<member, position>>, so that a row's result is the query it was        *)
(* computed for and, per head, the set of entries its softmax ranges over. *)
(* Sizes are exact integers: a product that overflows usize is larger than *)
(* any workspace, and the code treats both alike.                          *)
(***************************************************************************)
EXTENDS SeqOrder, FiniteSetsExt, SequencesExt

CONSTANTS
  Members,            \* number of requests
  MaxLen,             \* positions a request may reach (max_model_len)
  BlockSize,
  NumBlocks,
  Tables,             \* member -> its physical blocks, in order
  QueryHeads, KvHeads, HeadDim,
  MaxQueryTokens,     \* max_num_batched_tokens
  Workspaces,         \* the workspace budgets tried
  DenseRows,          \* 1024: most query rows of an unchunked member
  ChunkRows,          \* 128: rows of a chunk of a longer member
  ScoreTile           \* 32: rows a short causal suffix is padded to in QK

(* A block belongs to one position of one member.  (A block that two       *)
(* requests share holds the same entries for both, see EngineCore; here    *)
(* entries are told apart by their member.)                                *)
ASSUME LayoutShape ==
  /\ {Members, MaxLen, BlockSize, NumBlocks, QueryHeads, KvHeads, HeadDim,
      MaxQueryTokens, DenseRows, ChunkRows, ScoreTile} \subseteq Nat \ {0}
  /\ Workspaces \subseteq Nat
  /\ QueryHeads % KvHeads = 0
  /\ \A m \in 1 .. Members :
       /\ Tables[m] \in Seq(0 .. NumBlocks - 1)
       /\ Len(Tables[m]) * BlockSize >= MaxLen
  /\ \A m, n \in 1 .. Members : \A i \in DOMAIN Tables[m], j \in DOMAIN Tables[n] :
       Tables[m][i] = Tables[n][j] => m = n /\ i = j

VARIABLES
  workspace,          \* workspace_bytes of set_compute_limits
  computed,           \* tokens of each member already in the cache
  cache,              \* slot -> the entry written last, Zero at first
  step,               \* the prepared step: its tokens, metadata and plan
  result,             \* member -> position -> what its row computed
  phase               \* "idle", "ready" or "refused"

layoutVars == <<workspace, computed, cache, step, result, phase>>

Zero == <<0, 0>>                       \* a zero row of a padded tensor
NoRow == [query |-> Zero, keys |-> <<>>]
NoStep == [rows |-> <<>>, meta |-> <<>>, plan |-> <<>>]

LayoutInit ==
  /\ workspace \in Workspaces
  /\ computed = [m \in 1 .. Members |-> 0]
  /\ cache = [s \in 0 .. NumBlocks * BlockSize - 1 |-> Zero]
  /\ step = NoStep
  /\ result = [m \in 1 .. Members |-> [p \in 0 .. MaxLen - 1 |-> NoRow]]
  /\ phase = "idle"

-----------------------------------------------------------------------------
(* Metadata of a step.  A batch is the sequence of its members; chunk[m]   *)
(* is what the plan takes of m.                                            *)

DivCeil(a, b) == (a + b - 1) \div b

(* cu_seqlens: prefix sums from 0.                                         *)
Cumulative(lens) == [i \in 0 .. Len(lens) |-> SumTo(lens, i)]

LenIn(cu, i) == cu[i] - cu[i - 1]

SlotOf(m, p) == Tables[m][p \div BlockSize + 1] * BlockSize + (p % BlockSize)

(* build_prefill_metadata, build_continued_prefill_metadata and            *)
(* build_decode_metadata: initial prefill has no block table.              *)
Metadata(prefill, queries, keys, slots, table) ==
  [isPrefill |-> prefill,
   cuQ |-> Cumulative(queries), cuK |-> Cumulative(keys),
   maxQ |-> IF prefill THEN Max(Range(queries)) ELSE 1,
   maxK |-> Max(Range(keys)),
   slots |-> slots, table |-> table]

Batch(md) == Cardinality(DOMAIN md.cuQ) - 1

(* validate_logical_metadata.                                              *)
LogicalOK(md) ==
  LET B == 1 .. Batch(md) IN
  /\ DOMAIN md.cuQ = DOMAIN md.cuK
  /\ md.cuQ[0] = 0 /\ md.cuK[0] = 0
  /\ \A i \in B : 0 <= LenIn(md.cuQ, i) /\ 0 <= LenIn(md.cuK, i)
  /\ \A i \in B : LenIn(md.cuQ, i) <= md.maxQ /\ LenIn(md.cuK, i) <= md.maxK
  /\ Len(md.slots) = md.cuQ[Batch(md)]
  /\ \A i \in B : LenIn(md.cuQ, i) <= LenIn(md.cuK, i)
  /\ md.table = <<>> \/ Len(md.table) = Batch(md)

(* The first half of MathLimits::plan: every address is in the cache.      *)
AddressesOK(md) ==
  /\ \A i \in DOMAIN md.slots : md.slots[i] < NumBlocks * BlockSize
  /\ \A i \in DOMAIN md.table :
       /\ Len(md.table[i]) >= DivCeil(LenIn(md.cuK, i), BlockSize)
       /\ \A b \in Range(md.table[i]) : b \in 0 .. NumBlocks - 1

-----------------------------------------------------------------------------
(* MathLimits::plan: the layout the workspace allows.                      *)

ScoreRows(queries, keys, chunk) ==
  IF chunk < ScoreTile /\ keys > chunk /\ (chunk > 1 \/ queries > 1) THEN ScoreTile ELSE chunk

Larger(a, b) == IF a >= b THEN a ELSE b

FullBytes(batch, queries, keys, chunk) ==
  LET rows == ScoreRows(queries, keys, chunk) IN
  batch * QueryHeads * (Larger(queries, rows) * HeadDim * 32
                          + keys * HeadDim * 16 + rows * keys * 24)

SplitBytes(queries, keys, chunk) ==
  LET rows == ScoreRows(queries, keys, chunk) IN
  Larger(queries, rows) * QueryHeads * HeadDim * 8 + keys * KvHeads * HeadDim * 4
    + keys * HeadDim * 16 + queries * HeadDim * 16 + rows * keys * 24

StandardChunk(queries) ==
  IF queries <= DenseRows THEN Larger(queries, 1) ELSE ChunkRows

(* The halving loop: the first chunk that fits, 1 when none does.          *)
SplitChunk(queries, keys, room) ==
  LET chunk[c \in 1 .. ChunkRows] ==
        IF c > 1 /\ SplitBytes(queries, keys, c) > room
          THEN chunk[DivCeil(c, 2)] ELSE c
  IN chunk[Larger(1, IF queries <= ChunkRows THEN queries ELSE ChunkRows)]

MemberRoom(md) == workspace - Len(md.slots) * QueryHeads * HeadDim * 8

MemberWork(md, i) ==
  LET q == LenIn(md.cuQ, i)  k == LenIn(md.cuK, i) IN
  IF FullBytes(1, q, k, StandardChunk(q)) <= MemberRoom(md)
    THEN [chunk |-> StandardChunk(q), split |-> FALSE]
    ELSE [chunk |-> SplitChunk(q, k, MemberRoom(md)), split |-> TRUE]

Rectangular(md) ==
  /\ Batch(md) > 1
  /\ Batch(md) * md.maxQ <= MaxQueryTokens
  /\ FullBytes(Batch(md), md.maxQ, md.maxK, md.maxQ) <= workspace

Plan(md) ==
  [rect |-> Rectangular(md),
   work |-> IF Rectangular(md) THEN <<>> ELSE [i \in 1 .. Batch(md) |-> MemberWork(md, i)]]

(* A member that fits neither whole nor split refuses the step.            *)
Fits(md) ==
  \/ Rectangular(md)
  \/ /\ MemberRoom(md) >= 0
     /\ \A i \in 1 .. Batch(md) :
          LET w == MemberWork(md, i) IN
          w.split => SplitBytes(LenIn(md.cuQ, i), LenIn(md.cuK, i), w.chunk) <= MemberRoom(md)

-----------------------------------------------------------------------------
(* PreparedAttention: rows padded on the left to one rectangle, and back.  *)

Padded(md, plan) == plan.rect /\ Batch(md) * md.maxQ # Len(md.slots)

Part(md, rows, i) == SubSeq(rows, md.cuQ[i - 1] + 1, md.cuQ[i])

PadQueries(md, plan, rows) ==
  IF Padded(md, plan)
    THEN FlattenSeq([i \in 1 .. Batch(md) |->
           [z \in 1 .. md.maxQ - LenIn(md.cuQ, i) |-> Zero] \o Part(md, rows, i)])
    ELSE rows

(* real_rows and unpad_queries.                                            *)
RealRows(md) ==
  FlattenSeq([i \in 1 .. Batch(md) |->
    [r \in 1 .. LenIn(md.cuQ, i) |-> i * md.maxQ - LenIn(md.cuQ, i) + r]])

UnpadQueries(md, plan, rows) ==
  IF Padded(md, plan) THEN [r \in DOMAIN RealRows(md) |-> rows[RealRows(md)[r]]] ELSE rows

(* reshape_and_cache: row i goes to slot i, a slot of -1 is skipped.       *)
Written(md, rows) ==
  [s \in DOMAIN cache |->
    IF \E i \in DOMAIN md.slots : md.slots[i] = s
      THEN rows[CHOOSE i \in DOMAIN md.slots : md.slots[i] = s] ELSE cache[s]]

(* cache_gather_kernel: the last LenIn columns are the member's positions, *)
(* looked up through its block table.                                      *)
Gather(md, kv, i, keys) ==
  [column \in 0 .. keys - 1 |->
    LET logical == column - (keys - LenIn(md.cuK, i)) IN
    IF logical < 0 THEN Zero
    ELSE kv[md.table[i][logical \div BlockSize + 1] * BlockSize + (logical % BlockSize)]]

-----------------------------------------------------------------------------
(* math.rs.  A mask is the extent (queries, keys) of the rectangle a       *)
(* member's rows live in; rows and columns count from 0.                   *)

(* query_valid and masked_value of attention.cu.                           *)
Visible(md, i, queries, keys, query) ==
  IF query >= queries - LenIn(md.cuQ, i) /\ query < queries
    THEN {c \in 0 .. keys - 1 : c >= keys - LenIn(md.cuK, i) /\ c <= keys - queries + query}
    ELSE {}

(* The key/value head a query head reads: dense repeats every key head for *)
(* its group of query heads, the split path narrows to it.                 *)
KvHead(head) == head \div (QueryHeads \div KvHeads)

Attend(md, i, queries, keys, query, q, kv) ==
  [query |-> q,
   keys |-> [h \in 0 .. QueryHeads - 1 |->
              {<<kv[c], KvHead(h)>> : c \in Visible(md, i, queries, keys, query)}]]

(* Mutant of Dense: the rows of a chunk are masked as the first rows.      *)
MutDense(md, i, q, kv, keys, chunk) ==
  FlattenSeq([n \in 1 .. DivCeil(Len(q), chunk) |->
    LET start == (n - 1) * chunk
        count == IF Len(q) - start <= chunk THEN Len(q) - start ELSE chunk
    IN [r \in 1 .. count |->
         Attend(md, i, Len(q), keys, r - 1, q[start + r], kv)]])

(* dense for one member: the query rows in chunks, concatenated.           *)
Dense(md, i, q, kv, keys, chunk) ==
  FlattenSeq([n \in 1 .. DivCeil(Len(q), chunk) |->
    LET start == (n - 1) * chunk
        count == IF Len(q) - start <= chunk THEN Len(q) - start ELSE chunk
    IN [r \in 1 .. count |->
         Attend(md, i, Len(q), keys, start + r - 1, q[start + r], kv)]])

(* prefill_attn reads the projected rows, paged_attn the cache; each as    *)
(* one rectangle or member by member (packed_member).                      *)
Paged(md) == ~(md.isPrefill /\ md.table = <<>>)

KeysFor(md, plan, i, k, kv) ==
  LET keys == IF plan.rect THEN md.maxK ELSE LenIn(md.cuK, i) IN
  IF Paged(md) THEN Gather(md, kv, i, keys)
  ELSE [c \in 0 .. keys - 1 |->
         IF plan.rect THEN k[(i - 1) * md.maxK + c + 1] ELSE Part(md, k, i)[c + 1]]

Attention(md, plan, q, k, kv) ==
  FlattenSeq([i \in 1 .. Batch(md) |->
    IF plan.rect
      THEN Dense(md, i, SubSeq(q, (i - 1) * md.maxQ + 1, i * md.maxQ),
                 KeysFor(md, plan, i, k, kv), md.maxK, md.maxQ)
      ELSE Dense(md, i, Part(md, q, i), KeysFor(md, plan, i, k, kv),
                 LenIn(md.cuK, i), plan.work[i].chunk)])

-----------------------------------------------------------------------------
(* Steps of the engine.                                                    *)

(* A batch of the scheduler: prefill chunks of members none of which has   *)
(* anything cached, prefill chunks that continue one, or single decodes.   *)
Kinds == {"initial", "continued", "decode"}

Batches(kind) ==
  {b \in UNION {[S -> 1 .. MaxLen] : S \in (SUBSET (1 .. Members)) \ {{}}} :
     /\ \A m \in DOMAIN b : computed[m] + b[m] <= MaxLen
     /\ FoldFunction(+, 0, b) <= MaxQueryTokens
     /\ kind = "initial" => \A m \in DOMAIN b : computed[m] = 0
     /\ kind = "continued" => \E m \in DOMAIN b : computed[m] > 0
     /\ kind = "decode" => \A m \in DOMAIN b : computed[m] > 0 /\ b[m] = 1}

RowsOf(members, b) ==
  FlattenSeq([i \in DOMAIN members |->
    [r \in 1 .. b[members[i]] |-> <<members[i], computed[members[i]] + r - 1>>]])

(* Mutant of StepMetadata: the context of a member excludes this chunk.    *)
MutStepMetadata(kind, members, b) ==
  Metadata(kind # "decode", [i \in DOMAIN members |-> b[members[i]]],
           [i \in DOMAIN members |-> computed[members[i]]],
           [r \in DOMAIN RowsOf(members, b) |->
             SlotOf(RowsOf(members, b)[r][1], RowsOf(members, b)[r][2])],
           IF kind = "initial" THEN <<>> ELSE [i \in DOMAIN members |-> Tables[members[i]]])

StepMetadata(kind, members, b) ==
  Metadata(kind # "decode", [i \in DOMAIN members |-> b[members[i]]],
           [i \in DOMAIN members |-> computed[members[i]] + b[members[i]]],
           [r \in DOMAIN RowsOf(members, b) |->
             SlotOf(RowsOf(members, b)[r][1], RowsOf(members, b)[r][2])],
           IF kind = "initial" THEN <<>> ELSE [i \in DOMAIN members |-> Tables[members[i]]])

(* prepare_with_limits: validate, plan, upload; a refusal fails the step.  *)
Prepare(kind, b) ==
  LET members == Enumerate(DOMAIN b, Ascending(DOMAIN b))
      md == StepMetadata(kind, members, b)
  IN /\ phase = "idle"
     /\ phase' = IF LogicalOK(md) /\ AddressesOK(md) /\ Fits(md) THEN "ready" ELSE "refused"
     /\ step' = [rows |-> RowsOf(members, b), meta |-> md, plan |-> Plan(md)]
     /\ UNCHANGED <<workspace, computed, cache, result>>

(* Qwen3Model::forward: pad, project, write the real rows of K and V, then *)
(* attend, and unpad the result.                                           *)
Forward ==
  LET md == step.meta  plan == step.plan
      padded == PadQueries(md, plan, step.rows)
      kv == Written(md, UnpadQueries(md, plan, padded))
      out == UnpadQueries(md, plan, Attention(md, plan, padded, padded, kv))
  IN /\ phase = "ready"
     /\ cache' = kv
     /\ result' = [m \in 1 .. Members |-> [p \in 0 .. MaxLen - 1 |->
          IF \E r \in DOMAIN step.rows : step.rows[r] = <<m, p>>
            THEN out[CHOOSE r \in DOMAIN step.rows : step.rows[r] = <<m, p>>]
            ELSE result[m][p]]]
     /\ computed' = [m \in 1 .. Members |->
          computed[m] + Cardinality({r \in DOMAIN step.rows : step.rows[r][1] = m})]
     /\ phase' = "idle"
     /\ step' = NoStep
     /\ UNCHANGED workspace

LayoutNext == Forward \/ \E kind \in Kinds : \E b \in Batches(kind) : Prepare(kind, b)

LayoutSpec == LayoutInit /\ [][LayoutNext]_layoutVars

-----------------------------------------------------------------------------
(* Whatever layout each step took (rectangle, packed, chunked, split;      *)
(* paged or not; however the prompt was chunked before), the row of every  *)
(* computed token was computed for that token, and each of its heads saw   *)
(* exactly the member's own positions up to it, in its group's key head:   *)
(* nothing of another member, no padding, no stale cache slot, no future.  *)
AttendsCausalHistory ==
  \A m \in 1 .. Members : \A p \in 0 .. computed[m] - 1 :
    result[m][p] =
      [query |-> <<m, p>>,
       keys |-> [h \in 0 .. QueryHeads - 1 |->
                  {<<<<m, j>>, KvHead(h)>> : j \in 0 .. p}]]

(* The cache holds every computed token at its slot between steps, so no   *)
(* padding row and no other member's row was ever written over it.         *)
CacheHoldsComputed ==
  \A m \in 1 .. Members : \A p \in 0 .. computed[m] - 1 : cache[SlotOf(m, p)] = <<m, p>>

(* Metadata built from a plan is never refused as malformed, and a step is *)
(* refused for its workspace only when its smallest layout is too big: no  *)
(* member could run split with one row per chunk next to the outputs.      *)
RefusedOnlyForWorkspace ==
  phase = "refused" =>
    \/ MemberRoom(step.meta) < 0
    \/ \E i \in 1 .. Batch(step.meta) :
         SplitBytes(LenIn(step.meta.cuQ, i), LenIn(step.meta.cuK, i), 1) > MemberRoom(step.meta)

(* Every computed row attended to its causal history and left its key and  *)
(* value where the next step will look for them.                           *)
AttentionIsExact == AttendsCausalHistory /\ CacheHoldsComputed

=============================================================================
