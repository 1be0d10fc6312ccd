-------------------------- MODULE EngineCoreProofs --------------------------
(***************************************************************************)
(* What the engine adds to the scheduler: the KV entries the model writes  *)
(* and reads are always those of the history they stand for, a token is    *)
(* sampled from its whole history, the attention metadata follows the      *)
(* plan, and a call leaves nothing behind.  For every size of the pool and *)
(* of the calls, and any sequence of steps that succeed or fail.           *)
(***************************************************************************)
EXTENDS EngineCore, SchedulerProofs

(* The inductive invariant.                                                *)

(* The entry of position pos of s was computed from the history of s.      *)
KvHolds(s, pos) == KvAt(s, pos) = SubSeq(tokens[s], 1, pos)

(* What a sequence counts as cached is there.                              *)
CachedKv == \A s \in SeqId : \A pos \in 1 .. numCached[s] : KvHolds(s, pos)

(* The forward pass has computed what the plan says, and as much of it as  *)
(* is not yet applied is still there.                                      *)
PlannedKv ==
  stage = "computed" \/ pc = "apply" =>
    \A k \in DOMAIN inFlight : k > applied =>
      \A pos \in inFlight[k].first .. inFlight[k].last : KvHolds(inFlight[k].id, pos)

(* Direct prefill is only chosen for sequences that have cached nothing.   *)
PathOK ==
  pc = "execute" /\ path = "prefill" => \A k \in DOMAIN inFlight : inFlight[k].first = 1

(* The invariant of the KV entries.                                        *)
KvOK == PublishedKvIntact /\ CachedKv /\ PlannedKv /\ PathOK

(* Where step_internal is decides what the attention context holds.        *)
AttentionOK ==
  /\ stage \in {"none", "planned"} => AttnIdle /\ epoch = NoEpoch
  /\ stage = "preparing" => lifecycle = "preparing" /\ epoch = planId /\ consumer = NoEpoch
  /\ stage = "prepared" => lifecycle = "ready" /\ epoch = planId /\ consumer = NoEpoch
  /\ stage = "bound" => lifecycle = "ready" /\ epoch = planId /\ consumer = planId
  /\ stage \in {"computed", "failed"} =>
       lifecycle = "ready" /\ epoch = planId /\ consumer \in {planId, NoEpoch}

(* The stages of a call of generate.                                       *)
CallOK ==
  /\ planId \in {0, 1}
  /\ stage \in {"none", "planned", "preparing", "prepared", "bound", "computed", "failed"}
  /\ stage # "none" <=> pc = "execute"
  /\ stage = "computed" => computed \in Results(inFlight)
  /\ call \in {"none", "submit", "loop", "returned", "failed"}
  /\ pc # "idle" => call = "loop"
  /\ call \notin {"submit", "loop"} => ~IsRunning /\ projection = 0

(* The inductive invariant of the engine.                                  *)
EngineInv == SystemInv /\ CallOK /\ AttentionOK /\ KvOK
-----------------------------------------------------------------------------
(* Positions and slots.                                                    *)

(* A position is determined by its block and its offset.                   *)
LEMMA SlotArithmetic ==
  ASSUME NEW pos \in Nat \ {0}, NEW b \in Nat \ {0}
  PROVE  /\ (pos - 1) \div b \in Nat
         /\ (pos - 1) % b \in 0 .. b - 1
         /\ pos = ((pos - 1) \div b) * b + ((pos - 1) % b) + 1
<1>1. PICK a : a = pos - 1
  OBVIOUS
<1>2. a \in Nat
  BY <1>1
<1>3. a \div b \in Nat /\ a % b \in 0 .. b - 1 /\ a = (a \div b) * b + (a % b)
  BY <1>2, SMT
<1> QED
  BY <1>1, <1>3

(* A history is a prefix followed by the rest.                             *)
LEMMA PrefixAndRest ==
  ASSUME NEW T, NEW t \in Seq(T), NEW m \in Nat, NEW n \in Nat, m <= n, n <= Len(t)
  PROVE  /\ SubSeq(t, 1, m) \o SubSeq(t, m + 1, n) = SubSeq(t, 1, n)
         /\ SubSeq(SubSeq(t, 1, n), 1, m) = SubSeq(t, 1, m)
<1>1. SubSeq(t, 1, m) \o SubSeq(t, m + 1, n) = SubSeq(t, 1, n)
  <2>1. Len(t) \in Nat
    OBVIOUS
  <2>2. 1 \in 1 .. Len(t) + 1 /\ m \in 1 - 1 .. Len(t) /\ n \in m .. Len(t)
    BY <2>1
  <2> QED
    BY <2>2, ConcatAdjacentSubSeq
<1>2. SubSeq(SubSeq(t, 1, n), 1, m) = SubSeq(t, 1, m)
  <2>1. Len(t) \in Nat
    OBVIOUS
  <2>2. CASE m = 0
    <3>1. SubSeq(SubSeq(t, 1, n), 1, 0) = <<>> /\ SubSeq(t, 1, 0) = <<>>
      BY SubSeqEmpty
    <3> QED
      BY <2>2, <3>1
  <2>3. CASE m # 0
    <3>1. /\ 1 \in 1 .. Len(t) /\ n \in 1 .. Len(t)
          /\ 1 \in 1 .. n - 1 + 1 /\ m \in 1 .. n - 1 + 1
      BY <2>1, <2>3
    <3>2. SubSeq(SubSeq(t, 1, n), 1, m) = SubSeq(t, 1 + 1 - 1, 1 + m - 1)
      BY <3>1, SubSeqOfSubSeq
    <3>3. 1 + 1 - 1 = 1 /\ 1 + m - 1 = m
      OBVIOUS
    <3> QED
      BY <3>2, <3>3
  <2> QED
    BY <2>2, <2>3
<1> QED
  BY <1>1, <1>2

(* The slot of a position that has one.                                    *)
LEMMA SlotProperties ==
  ASSUME PoolTypeOK, NEW s \in SeqId, NEW pos \in Nat \ {0}, pos <= Len(table[s]) * BlockSize
  PROVE  /\ SlotBlock(s, pos) \in 1 .. Len(table[s])
         /\ SlotBlock(s, pos) \in DOMAIN table[s]
         /\ table[s][SlotBlock(s, pos)] \in Block
         /\ table[s][SlotBlock(s, pos)] \in Range(table[s])
         /\ (pos - 1) % BlockSize \in Offset
         /\ pos = (SlotBlock(s, pos) - 1) * BlockSize + ((pos - 1) % BlockSize) + 1
<1> DEFINE i == SlotBlock(s, pos)
           q == (pos - 1) \div BlockSize
           o == (pos - 1) % BlockSize
           n == Len(table[s])
<1>1. BlockSize \in Nat \ {0} /\ table[s] \in Seq(Block) /\ n \in Nat /\ DOMAIN table[s] = 1 .. n
  BY SequenceTypes
<1>2. q \in Nat /\ o \in 0 .. BlockSize - 1 /\ pos = q * BlockSize + o + 1
  BY <1>1, SlotArithmetic
<1>3. i = q + 1
  BY DEF SlotBlock
<1>4. pos <= n * BlockSize
  OBVIOUS
<1> HIDE DEF i, q, o, n
<1>5. q < n
  <2> SUFFICES ASSUME n <= q PROVE FALSE
    BY <1>1, <1>2
  <2>1. n * BlockSize <= q * BlockSize
    BY <1>1, <1>2
  <2>2. n * BlockSize \in Int /\ q * BlockSize \in Int
    BY <1>1, <1>2
  <2> QED
    BY <1>1, <1>2, <1>4, <2>1, <2>2
<1>6. i \in 1 .. n /\ i - 1 = q
  BY <1>1, <1>2, <1>3, <1>5
<1>7. table[s][i] \in Block /\ table[s][i] \in Range(table[s]) /\ i \in DOMAIN table[s]
  BY <1>1, <1>6, ElementOfSeq DEF Range, n
<1>8. pos = (i - 1) * BlockSize + o + 1
  BY <1>2, <1>6
<1> QED
  BY <1>2, <1>6, <1>7, <1>8 DEF i, o, n, Offset

(* A full block of cached tokens was published for them, so its entries    *)
(* are those of the history.                                               *)
FullKv ==
  \A s \in SeqId : \A pos \in 1 .. CachedBlocks(s) * BlockSize : KvHolds(s, pos)

(* Blocks that keep what was published for them hold what their readers    *)
(* count as cached.                                                        *)
LEMMA FullBlocksFaithful == CacheInv /\ PublishedKvIntact => FullKv
<1> SUFFICES ASSUME CacheInv, PublishedKvIntact, NEW s \in SeqId,
                    NEW pos \in 1 .. CachedBlocks(s) * BlockSize
             PROVE  KvHolds(s, pos)
  BY DEF FullKv
<1> DEFINE i == SlotBlock(s, pos)
           o == (pos - 1) % BlockSize
           b == table[s][i]
           c == CachedBlocks(s)
<1>0. PoolTypeOK /\ WithinBlocks(s) /\ PublishedFor(s)
  BY DEF CacheInv, CacheOK, PoolInv
<1>1. BlockSize \in Nat \ {0} /\ tokens[s] \in Seq(Token) /\ Len(tokens[s]) \in Nat /\ Len(table[s]) \in Nat
  BY <1>0, SequenceTypes
<1>2. /\ c \in Nat /\ c <= Len(table[s])
      /\ \A k \in 1 .. c : k * BlockSize \in Nat /\ k * BlockSize <= Len(tokens[s])
  <2>1. /\ c \in 0 .. Len(table[s])
        /\ \A k \in 1 .. c : k * BlockSize \in Nat /\ k * BlockSize <= Len(tokens[s])
    BY <1>0, CachedBlocksProperties
  <2> QED
    BY <1>1, <2>1
<1>3. pos \in Nat \ {0} /\ pos <= c * BlockSize
  OBVIOUS
<1> HIDE DEF c
<1>4. c * BlockSize <= Len(table[s]) * BlockSize
  BY <1>1, <1>2
<1>5. pos <= Len(table[s]) * BlockSize
  <2>1. c * BlockSize \in Int /\ Len(table[s]) * BlockSize \in Int
    BY <1>1, <1>2
  <2> QED
    BY <1>3, <1>4, <2>1
<1>6. /\ i \in 1 .. Len(table[s]) /\ b \in Block /\ o \in Offset
      /\ pos = (i - 1) * BlockSize + o + 1
  BY <1>0, <1>3, <1>5, SlotProperties
<1>7. KvAt(s, pos) = kv[b][o]
  BY DEF KvAt
<1> HIDE DEF i, o, b
<1>8. i \in 1 .. c
  <2> SUFFICES ASSUME c <= i - 1 PROVE FALSE
    BY <1>2, <1>6
  <2>1. c * BlockSize <= (i - 1) * BlockSize
    BY <1>1, <1>2, <1>6
  <2>2. c * BlockSize \in Int /\ (i - 1) * BlockSize \in Int /\ o \in Nat
    BY <1>1, <1>2, <1>6 DEF Offset
  <2> QED
    BY <1>3, <1>6, <2>1, <2>2
<1>9. identity[b] = PrefixTokens(s, i)
  BY <1>0, <1>8 DEF PublishedFor, b, c
<1>10. i * BlockSize \in Nat /\ i * BlockSize <= Len(tokens[s]) /\ i \in Nat
  BY <1>2, <1>8
<1>11. Len(PrefixTokens(s, i)) = i * BlockSize
  BY <1>0, <1>10, BlockTokensProperties
<1>12. i * BlockSize = (i - 1) * BlockSize + BlockSize /\ (i - 1) * BlockSize \in Int
  BY <1>1, <1>6
<1>13. Len(identity[b]) - BlockSize + o + 1 = pos /\ pos <= i * BlockSize
  BY <1>1, <1>6, <1>9, <1>11, <1>12 DEF Offset
<1>14. identity[b] # <<>>
  BY <1>1, <1>3, <1>9, <1>11, <1>13
<1>15. kv[b][o] = SubSeq(PrefixTokens(s, i), 1, pos)
  BY <1>6, <1>9, <1>13, <1>14 DEF PublishedKvIntact
<1>16. SubSeq(PrefixTokens(s, i), 1, pos) = SubSeq(tokens[s], 1, pos)
  <2>1. PICK n : n = i * BlockSize
    OBVIOUS
  <2>2. n \in Nat /\ pos <= n /\ n <= Len(tokens[s]) /\ pos \in Nat
    BY <1>3, <1>10, <1>13, <2>1
  <2>3. SubSeq(SubSeq(tokens[s], 1, n), 1, pos) = SubSeq(tokens[s], 1, pos)
    BY <1>1, <2>2, PrefixAndRest
  <2> QED
    BY <2>1, <2>3 DEF PrefixTokens
<1> QED
  BY <1>7, <1>15, <1>16 DEF KvHolds
-----------------------------------------------------------------------------
(* The forward pass.                                                       *)

(* The slot of a position is written for that position of that sequence,   *)
(* or not at all.                                                          *)
LEMMA OnlyOwnSlot ==
  ASSUME SystemInv, pc = "execute", NEW s \in SeqId, NEW pos \in Nat \ {0},
         pos <= Len(table[s]) * BlockSize, NEW p \in Range(inFlight),
         NEW q \in Writes(p, table[s][SlotBlock(s, pos)], (pos - 1) % BlockSize)
  PROVE  p.id = s /\ q = pos
<1>0. PoolInv /\ PoolTypeOK
  BY DEF SystemInv, CacheInv, PoolInv
<1>1. PICK b : b = table[s][SlotBlock(s, pos)]
  OBVIOUS
<1>2. PICK o : o = (pos - 1) % BlockSize
  OBVIOUS
<1>3. PICK i : i = SlotBlock(s, pos)
  OBVIOUS
<1>4. /\ i \in DOMAIN table[s] /\ b \in Range(table[s])
      /\ pos = (i - 1) * BlockSize + o + 1
  BY <1>0, <1>1, <1>2, <1>3, SlotProperties
<1>5. /\ q \in p.first .. p.last /\ table[p.id][SlotBlock(p.id, q)] = b
      /\ (q - 1) % BlockSize = o
  BY <1>1, <1>2 DEF Writes
<1>6. /\ p.id \in SeqId /\ q \in Nat \ {0} /\ q <= Len(table[p.id]) * BlockSize
      /\ b \in Range(table[p.id]) /\ refCount[b] = 1
  BY <1>5, PlannedSlots
<1>7. p.id = s
  <2>1. Owners(b) = {p.id}
    BY <1>0, <1>6, SoleOwner
  <2>2. s \in Owners(b)
    BY <1>4 DEF Owners
  <2> QED
    BY <2>1, <2>2
<1>8. PICK j : j = SlotBlock(s, q)
  OBVIOUS
<1>9. /\ j \in DOMAIN table[s] /\ table[s][j] = b
      /\ q = (j - 1) * BlockSize + o + 1
  <2>1. /\ j \in DOMAIN table[s]
        /\ q = (j - 1) * BlockSize + ((q - 1) % BlockSize) + 1
    BY <1>0, <1>6, <1>7, <1>8, SlotProperties
  <2> QED
    BY <1>5, <1>7, <1>8, <2>1
<1>10. NoDuplicates(table[s])
  BY <1>0 DEF PoolInv, Ownership, TablesInjective
<1>11. i = j
  BY <1>1, <1>3, <1>4, <1>9, <1>10 DEF NoDuplicates
<1> QED
  BY <1>4, <1>7, <1>9, <1>11

(* What the pass may do to the cache: nothing where it does not write.     *)
ForwardWrites ==
  \A b \in Block, o \in Offset :
    (\A k \in DOMAIN inFlight : Writes(inFlight[k], b, o) = {}) => kv'[b][o] = kv[b][o]

(* Whether the forward pass ends or fails, it writes only slots of the     *)
(* plan.                                                                   *)
LEMMA ForwardWritesOnlyPlanned ==
  ASSUME kv' = KvAfterForward \/ kv' \in {kv, KvAfterFailure}
  PROVE  ForwardWrites
<1> SUFFICES ASSUME NEW b \in Block, NEW o \in Offset,
                    \A k \in DOMAIN inFlight : Writes(inFlight[k], b, o) = {}
             PROVE  kv'[b][o] = kv[b][o]
  BY DEF ForwardWrites
<1>1. {k \in DOMAIN inFlight : Writes(inFlight[k], b, o) # {}} = {}
  OBVIOUS
<1>2. CASE kv' = KvAfterForward
  BY <1>1, <1>2 DEF KvAfterForward
<1>3. CASE kv' = KvAfterFailure
  BY <1>3 DEF KvAfterFailure
<1> QED
  BY <1>2, <1>3

(* Cached positions and published blocks are not written, whether the pass *)
(* succeeds or fails.                                                      *)
LEMMA ForwardKeeps ==
  ASSUME SystemInv, pc = "execute", PublishedKvIntact, CachedKv, ForwardWrites,
         UNCHANGED <<identity, table, tokens, numCached>>
  PROVE  PublishedKvIntact' /\ CachedKv'
<1>0. PoolTypeOK /\ CacheInv
  BY DEF SystemInv, CacheInv, PoolInv
<1>1. PublishedKvIntact'
  <2> SUFFICES ASSUME NEW b \in Block, identity[b] # <<>>, NEW o \in Offset
               PROVE  kv'[b][o] = kv[b][o]
    BY DEF PublishedKvIntact
  <2>1. ASSUME NEW k \in DOMAIN inFlight, NEW q \in Writes(inFlight[k], b, o) PROVE FALSE
    <3>1. inFlight[k] \in Range(inFlight)
      BY DEF Range
    <3>2. /\ q \in inFlight[k].first .. inFlight[k].last
          /\ table[inFlight[k].id][SlotBlock(inFlight[k].id, q)] = b
      BY DEF Writes
    <3> QED
      BY <3>1, <3>2, PlannedSlots
  <2> QED
    BY <2>1 DEF ForwardWrites
<1>2. CachedKv'
  <2> SUFFICES ASSUME NEW s \in SeqId, NEW pos \in 1 .. numCached[s]
               PROVE  KvHolds(s, pos)'
    BY DEF CachedKv
  <2>1. KvHolds(s, pos)
    BY DEF CachedKv
  <2>2. /\ numCached[s] \in Nat /\ BlockSize \in Nat \ {0} /\ Len(table[s]) \in Nat
        /\ numCached[s] <= Len(table[s]) * BlockSize
    BY <1>0, SequenceTypes DEF CacheInv, CacheOK, WithinBlocks
  <2>3. pos \in Nat \ {0} /\ pos <= numCached[s] /\ pos <= Len(table[s]) * BlockSize
    <3>1. Len(table[s]) * BlockSize \in Int
      BY <2>2
    <3> QED
      BY <2>2, <3>1
  <2>4. PICK b : b = table[s][SlotBlock(s, pos)]
    OBVIOUS
  <2>5. PICK o : o = (pos - 1) % BlockSize
    OBVIOUS
  <2>6. b \in Block /\ o \in Offset
    BY <1>0, <2>3, <2>4, <2>5, SlotProperties
  <2>7. ASSUME NEW k \in DOMAIN inFlight, NEW q \in Writes(inFlight[k], b, o) PROVE FALSE
    <3>1. inFlight[k] \in Range(inFlight)
      BY DEF Range
    <3>2. inFlight[k].id = s /\ q = pos
      BY ZenonT(40), <2>3, <2>4, <2>5, <3>1, OnlyOwnSlot
    <3>3. q \in inFlight[k].first .. inFlight[k].last
      BY DEF Writes
    <3>4. numCached[s] < pos
      BY <3>1, <3>2, <3>3, PlannedSlots
    <3> QED
      BY <2>2, <2>3, <3>4
  <2>8. kv'[b][o] = kv[b][o]
    BY <2>6, <2>7 DEF ForwardWrites
  <2>9. KvAt(s, pos) = kv[b][o]
    BY <2>4, <2>5 DEF KvAt
  <2>10. KvAt(s, pos)' = kv'[b][o]
    BY <2>4, <2>5 DEF KvAt, SlotBlock
  <2> QED
    BY <2>1, <2>8, <2>9, <2>10 DEF KvHolds
<1> QED
  BY <1>1, <1>2

(* A pass that succeeds computes every planned position from the whole     *)
(* history before it.                                                      *)
LEMMA ForwardComputes ==
  ASSUME SystemInv, pc = "execute", CachedKv, PathOK, kv' = KvAfterForward,
         UNCHANGED <<table, tokens, inFlight>>,
         NEW k \in DOMAIN inFlight, NEW pos \in inFlight[k].first .. inFlight[k].last
  PROVE  KvHolds(inFlight[k].id, pos)'
<1>1. PICK p \in Range(inFlight) : p = inFlight[k]
  BY DEF Range
<1>2. PICK s : s = p.id
  OBVIOUS
<1>3. /\ s \in SeqId /\ pos \in Nat \ {0} /\ numCached[s] < pos
      /\ pos <= Len(tokens[s]) /\ pos <= Len(table[s]) * BlockSize
  BY <1>1, <1>2, PlannedSlots
<1>4. PICK b : b = table[s][SlotBlock(s, pos)]
  OBVIOUS
<1>5. PICK o : o = (pos - 1) % BlockSize
  OBVIOUS
<1>6. b \in Block /\ o \in Offset
  BY <1>3, <1>4, <1>5, SlotProperties DEF SystemInv, CacheInv, PoolInv
<1>7. PICK c : c = Context(p) \o SubSeq(tokens[s], p.first, pos)
  OBVIOUS
<1>8. \A j \in DOMAIN inFlight : Writes(inFlight[j], b, o) # {} => inFlight[j].id = s
  <2> SUFFICES ASSUME NEW j \in DOMAIN inFlight, NEW q \in Writes(inFlight[j], b, o)
               PROVE  inFlight[j].id = s
    OBVIOUS
  <2>1. inFlight[j] \in Range(inFlight)
    BY DEF Range
  <2> QED
    BY <1>3, <1>4, <1>5, <2>1, OnlyOwnSlot
<1>9. EntryOK(k)
  BY DEF SystemInv, SchedInv, PlanOK
<1>10. {j \in DOMAIN inFlight : Writes(inFlight[j], b, o) # {}} = {k}
  <2>1. pos \in Writes(p, b, o)
    BY <1>1, <1>2, <1>4, <1>5 DEF Writes
  <2>2. \A j \in DOMAIN inFlight : inFlight[j].id = s => j = k
    BY <1>1, <1>2, <1>9 DEF EntryOK
  <2> QED
    BY <1>1, <1>8, <2>1, <2>2
<1>11. Writes(p, b, o) = {pos}
  <2>1. pos \in Writes(p, b, o)
    BY <1>1, <1>2, <1>4, <1>5 DEF Writes
  <2>2. \A q \in Writes(p, b, o) : q = pos
    BY <1>3, <1>4, <1>5, OnlyOwnSlot
  <2> QED
    BY <2>1, <2>2
<1>12. kv'[b][o] = c
  <2>1. (CHOOSE j \in {k} : TRUE) = k /\ (CHOOSE q \in {pos} : TRUE) = pos
    OBVIOUS
  <2>2. KvAfterForward[b][o] = Context(p) \o SubSeq(tokens[p.id], p.first, pos)
    BY <1>1, <1>6, <1>10, <1>11, <2>1 DEF KvAfterForward
  <2> QED
    BY <1>2, <1>7, <2>2
<1>13. /\ p.first = numCached[s] + 1 /\ numCached[s] \in Nat
       /\ tokens[s] \in Seq(Token) /\ Len(tokens[s]) \in Nat
  <2>1. k > applied
    BY DEF SystemInv, SchedInv, PlanOK, SchedTypeOK
  <2>2. p.first = numCached[s] + 1
    BY <1>1, <1>2, <1>9, <2>1 DEF EntryOK
  <2> QED
    BY <1>3, <2>2, RequestTypes DEF SystemInv, SchedInv
<1>14. Context(p) = SubSeq(tokens[s], 1, numCached[s])
  <2>1. CASE numCached[s] = 0
    <3>1. p.first = 1 /\ SubSeq(tokens[s], 1, 0) = <<>>
      BY <1>13, <2>1, SubSeqEmpty
    <3> QED
      BY <2>1, <3>1 DEF Context
  <2>2. CASE numCached[s] # 0
    <3>1. p.first # 1 /\ p.first - 1 = numCached[s] /\ numCached[s] \in 1 .. numCached[s]
      BY <1>13, <2>2
    <3>2. path # "prefill"
      BY <1>1, <3>1 DEF PathOK
    <3>3. Context(p) = KvAt(s, numCached[s])
      BY <1>2, <3>1, <3>2 DEF Context
    <3>4. KvHolds(s, numCached[s])
      BY <1>3, <3>1 DEF CachedKv
    <3> QED
      BY <3>3, <3>4 DEF KvHolds
  <2> QED
    BY <2>1, <2>2
<1>15. c = SubSeq(tokens[s], 1, pos)
  <2>1. numCached[s] <= pos /\ pos \in Nat
    BY <1>3, <1>13
  <2>2. SubSeq(tokens[s], 1, numCached[s]) \o SubSeq(tokens[s], numCached[s] + 1, pos)
          = SubSeq(tokens[s], 1, pos)
    BY <1>3, <1>13, <2>1, PrefixAndRest
  <2> QED
    BY <1>7, <1>13, <1>14, <2>2
<1>16. KvAt(s, pos)' = kv'[b][o]
  BY <1>4, <1>5 DEF KvAt, SlotBlock
<1>17. (KvAt(s, pos) = SubSeq(tokens[s], 1, pos))'
  BY <1>12, <1>15, <1>16
<1>18. s = inFlight'[k].id
  BY <1>1, <1>2
<1> QED
  BY <1>17, <1>18 DEF KvHolds, KvAt, SlotBlock
-----------------------------------------------------------------------------
(* The pool's operations move no entry.                                    *)

(* A block and an offset in it determine the slot.                         *)
LEMMA SlotInverse ==
  ASSUME NEW q \in Nat, NEW b \in Nat \ {0}, NEW o \in 0 .. b - 1
  PROVE  /\ q * b + o \in Nat
         /\ (q * b + o) \div b = q /\ (q * b + o) % b = o
<1>1. PICK a : a = q * b + o
  OBVIOUS
<1>2. q * b \in Nat /\ a \in Nat
  BY <1>1
<1>3. PICK r : r = a \div b
  OBVIOUS
<1>4. PICK m : m = a % b
  OBVIOUS
<1>5. r \in Nat /\ m \in 0 .. b - 1 /\ a = r * b + m
  <2>1. a + 1 \in Nat \ {0} /\ (a + 1) - 1 = a
    BY <1>2
  <2>2. /\ ((a + 1) - 1) \div b \in Nat /\ ((a + 1) - 1) % b \in 0 .. b - 1
        /\ a + 1 = (((a + 1) - 1) \div b) * b + (((a + 1) - 1) % b) + 1
    BY <2>1, SlotArithmetic
  <2>3. r \in Nat /\ m \in 0 .. b - 1 /\ a + 1 = r * b + m + 1
    BY <1>3, <1>4, <2>1, <2>2
  <2>4. r * b \in Int
    BY <2>3
  <2> QED
    BY <1>2, <2>3, <2>4
<1>6. r * b \in Nat /\ r * b + m = q * b + o
  BY <1>1, <1>2, <1>5
<1>7. ~(r < q)
  BY <1>2, <1>5, <1>6, ProductMonotone
<1>8. ~(q < r)
  BY <1>2, <1>5, <1>6, ProductMonotone
<1>9. r = q
  BY <1>5, <1>7, <1>8
<1>10. m = o
  BY <1>2, <1>5, <1>6, <1>9
<1> QED
  BY <1>1, <1>2, <1>3, <1>4, <1>9, <1>10

(* An entry stays that of its position as long as its block stays in its   *)
(* place.                                                                  *)
LEMMA SlotKept ==
  ASSUME PoolTypeOK, kv' = kv, NEW s \in SeqId, NEW pos \in Nat \ {0},
         pos <= Len(table[s]) * BlockSize, pos <= Len(tokens[s]),
         \A i \in DOMAIN table[s] : table'[s][i] = table[s][i],
         NEW t \in Seq(Token), tokens'[s] = tokens[s] \o t, KvHolds(s, pos)
  PROVE  KvHolds(s, pos)'
<1>1. SlotBlock(s, pos) \in DOMAIN table[s]
  BY SlotProperties
<1>2. SlotBlock(s, pos)' = SlotBlock(s, pos)
  BY DEF SlotBlock
<1>3. KvAt(s, pos)' = KvAt(s, pos)
  BY <1>1, <1>2 DEF KvAt
<1>4. SubSeq(tokens[s] \o t, 1, pos) = SubSeq(tokens[s], 1, pos)
  <2>1. tokens[s] \in Seq(Token) /\ Len(tokens[s]) \in Nat
    BY SequenceTypes
  <2>2. 1 \in 1 .. Len(tokens[s]) /\ pos \in 1 .. Len(tokens[s])
    BY <2>1
  <2> QED
    BY <2>1, <2>2, SubSeqOfConcat1
<1> QED
  BY <1>3, <1>4 DEF KvHolds

(* What is cached has tokens and slots.                                    *)
LEMMA CachedPositions ==
  ASSUME CacheInv, NEW s \in SeqId, NEW pos \in 1 .. numCached[s]
  PROVE  pos \in Nat \ {0} /\ pos <= Len(table[s]) * BlockSize /\ pos <= Len(tokens[s])
<1>1. /\ numCached[s] \in Nat /\ Len(table[s]) * BlockSize \in Int /\ Len(tokens[s]) \in Nat
  BY SequenceTypes DEF CacheInv, PoolInv
<1>2. numCached[s] <= Len(table[s]) * BlockSize /\ numCached[s] <= Len(tokens[s])
  BY DEF CacheInv, CacheOK, WithinBlocks
<1> QED
  BY <1>1, <1>2

(* A sequence whose blocks stay in place keeps its entries.                *)
LEMMA EntriesKept ==
  ASSUME CacheInv, CachedKv, kv' = kv, NEW s \in SeqId,
         \A i \in DOMAIN table[s] : table'[s][i] = table[s][i],
         tokens'[s] = tokens[s], numCached'[s] = numCached[s]
  PROVE  \A pos \in 1 .. numCached'[s] : KvHolds(s, pos)'
<1> SUFFICES ASSUME NEW pos \in 1 .. numCached[s] PROVE KvHolds(s, pos)'
  OBVIOUS
<1>1. PoolTypeOK /\ tokens[s] \in Seq(Token)
  BY DEF CacheInv, PoolInv, PoolTypeOK
<1>2. pos \in Nat \ {0} /\ pos <= Len(table[s]) * BlockSize /\ pos <= Len(tokens[s])
  BY CachedPositions
<1>3. KvHolds(s, pos)
  BY DEF CachedKv
<1>4. <<>> \in Seq(Token) /\ tokens'[s] = tokens[s] \o <<>>
  BY <1>1, ConcatEmptySeq
<1> QED
  BY <1>1, <1>2, <1>3, <1>4, SlotKept

(* Published entries survive while identities are only erased.             *)
LEMMA PublishedKept ==
  ASSUME PublishedKvIntact, kv' = kv, \A b \in Block : identity'[b] \in {identity[b], <<>>}
  PROVE  PublishedKvIntact'
BY DEF PublishedKvIntact

(* Steps that move neither entries nor tables nor histories.               *)
LEMMA KvStutter ==
  ASSUME PublishedKvIntact, CachedKv, UNCHANGED <<kv, table, tokens, numCached, identity>>
  PROVE  PublishedKvIntact' /\ CachedKv'
BY DEF PublishedKvIntact, CachedKv, KvHolds, KvAt, SlotBlock

(* A new sequence has cached nothing.                                      *)
LEMMA KvNewSequence ==
  ASSUME CacheInv, PublishedKvIntact, CachedKv, kv' = kv, NEW s \in SeqId, NEW p,
         NewSequence(s, p)
  PROVE  PublishedKvIntact' /\ CachedKv'
<1>1. tokens[s] = <<>> /\ UNCHANGED <<table, numCached, identity>>
  BY DEF NewSequence
<1>2. PublishedKvIntact'
  BY <1>1, PublishedKept
<1>3. ASSUME NEW r \in SeqId PROVE \A pos \in 1 .. numCached'[r] : KvHolds(r, pos)'
  <2>1. CASE r = s
    <3>1. \A pos \in 1 .. numCached[s] : pos \in Nat \ {0} /\ pos <= Len(tokens[s])
      BY CachedPositions
    <3>2. Len(tokens[s]) = 0
      BY <1>1
    <3> QED
      BY <1>1, <2>1, <3>1, <3>2
  <2>2. CASE r # s
    <3>1. tokens'[r] = tokens[r]
      BY <2>2 DEF NewSequence, CacheInv, PoolInv, PoolTypeOK
    <3> QED
      BY <1>1, <3>1, EntriesKept
  <2> QED
    BY <2>1, <2>2
<1> QED
  BY <1>2, <1>3 DEF CachedKv

(* A released sequence has cached nothing any more; what was published     *)
(* stays published.                                                        *)
LEMMA KvRelease ==
  ASSUME CacheInv, PublishedKvIntact, CachedKv, kv' = kv, NEW q, DeallocateBatch(q)
  PROVE  PublishedKvIntact' /\ CachedKv'
<1>1. PublishedKvIntact'
  BY PublishedKept DEF DeallocateBatch
<1>2. /\ tokens' = tokens
      /\ \A r \in SeqId : IF r \in Range(q) THEN table'[r] = <<>> /\ numCached'[r] = 0
                          ELSE table'[r] = table[r] /\ numCached'[r] = numCached[r]
  BY ReleaseEffect
<1>3. ASSUME NEW r \in SeqId PROVE \A pos \in 1 .. numCached'[r] : KvHolds(r, pos)'
  <2>1. CASE r \in Range(q)
    <3>1. 1 .. numCached'[r] = {}
      BY <1>2, <2>1
    <3> QED
      BY <3>1
  <2>2. CASE r \notin Range(q)
    BY <1>2, <2>2, EntriesKept
  <2> QED
    BY <2>1, <2>2
<1> QED
  BY <1>1, <1>3 DEF CachedKv

(* Reserved blocks are appended and lose what was published in them.       *)
LEMMA KvReserve ==
  ASSUME CacheInv, PublishedKvIntact, CachedKv, kv' = kv, NEW q, MayAppendBatch(q)
  PROVE  PublishedKvIntact' /\ CachedKv'
<1>1. PublishedKvIntact'
  <2>1. PICK F : ResetBlocks(F)
    BY DEF MayAppendBatch
  <2>2. \A b \in Block : identity'[b] \in {identity[b], <<>>}
    BY <2>1 DEF ResetBlocks
  <2> QED
    BY <2>2, PublishedKept
<1>2. UNCHANGED <<tokens, numCached>>
  BY DEF MayAppendBatch
<1>3. ASSUME NEW r \in SeqId PROVE \A pos \in 1 .. numCached'[r] : KvHolds(r, pos)'
  <2>1. PICK x : table'[r] \in {table[r], Append(table[r], x)}
    BY DEF MayAppendBatch
  <2>2. table[r] \in Seq(Block)
    BY DEF CacheInv, PoolInv, PoolTypeOK
  <2>3. \A i \in DOMAIN table[r] : Append(table[r], x)[i] = table[r][i]
    BY <2>2
  <2>4. \A i \in DOMAIN table[r] : table'[r][i] = table[r][i]
    BY <2>1, <2>3
  <2> QED
    BY <1>2, <2>4, EntriesKept
<1> QED
  BY <1>1, <1>3 DEF CachedKv

(* An admitted sequence counts whole published blocks as cached.           *)
LEMMA KvAdmit ==
  ASSUME CacheInv, CacheInv', PublishedKvIntact, CachedKv, kv' = kv, NEW s \in SeqId, Admit(s)
  PROVE  PublishedKvIntact' /\ CachedKv'
<1>0. PoolInv
  BY DEF CacheInv
<1>1. PublishedKvIntact'
  <2>1. PICK F : ResetBlocks(F)
    BY DEF Admit, Allocate
  <2>2. \A b \in Block : identity'[b] \in {identity[b], <<>>}
    BY <2>1 DEF ResetBlocks
  <2> QED
    BY <2>2, PublishedKept
<1>2. /\ tokens' = tokens
      /\ \A r \in SeqId : r # s => table'[r] = table[r] /\ numCached'[r] = numCached[r]
  BY <1>0, AdmitEffect
<1>3. CachedBlocks(s)' * BlockSize = numCached'[s]
  <2>1. PICK n : n = CanAllocate(s)
    OBVIOUS
  <2>2. numCached'[s] = n * BlockSize
    BY <1>0, <2>1, AdmitEffect
  <2>3. n \in Nat /\ BlockSize \in Nat \ {0}
    <3>1. tokens[s] # <<>> /\ n # NoRoom
      BY <2>1 DEF Admit
    <3> QED
      BY <1>0, <2>1, <3>1, AdmitPlan, SequenceTypes DEF PoolInv
  <2>4. CachedBlocks(s)' = n
    BY <2>2, <2>3, MultipleDiv DEF CachedBlocks
  <2> QED
    BY <2>2, <2>4
<1>4. FullKv'
  BY <1>1, FullBlocksFaithful, PTL
<1>5. ASSUME NEW r \in SeqId PROVE \A pos \in 1 .. numCached'[r] : KvHolds(r, pos)'
  <2>1. CASE r = s
    BY <1>3, <1>4, <2>1 DEF FullKv
  <2>2. CASE r # s
    BY <1>2, <2>2, EntriesKept
  <2> QED
    BY <2>1, <2>2
<1> QED
  BY <1>1, <1>5 DEF CachedKv

(* Committed positions were computed, so the blocks they fill are          *)
(* published with the entries their identity names.                        *)
LEMMA KvCommit ==
  ASSUME CacheInv, CacheInv', PublishedKvIntact, CachedKv, kv' = kv,
         NEW s \in SeqId, NEW n \in 1 .. MaxModelLen, NEW t \in Sampled, Commit(s, n, t),
         \A pos \in numCached[s] + 1 .. numCached[s] + n : KvHolds(s, pos)
  PROVE  PublishedKvIntact' /\ CachedKv'
<1> DEFINE B == BlockSize
           done == numCached[s] + n
           start == numCached[s] \div B
           end == done \div B
           filled == SubSeq(table[s], start + 1, end)
<1>0. PoolInv /\ PoolTypeOK /\ PoolTypeOK'
  BY DEF CacheInv, PoolInv
<1>1. /\ B \in Nat \ {0} /\ numCached[s] \in Nat
      /\ tokens[s] \in Seq(Token) /\ Len(tokens[s]) \in Nat
      /\ table[s] \in Seq(Block) /\ Len(table[s]) \in Nat
  BY <1>0, SequenceTypes
<1>2. /\ done \in Nat /\ done <= Len(tokens[s]) /\ done <= Len(table[s]) * B
      /\ start \in Nat /\ end \in Nat /\ start <= end /\ end <= Len(table[s])
      /\ end * B \in Nat /\ end * B <= Len(tokens[s])
  BY <1>0, CommitShape
<1>3. \A b \in Block : b \notin Range(filled) => identity'[b] = identity[b]
  BY DEF Commit, HashBlocks
<1>4. /\ numCached' = [numCached EXCEPT ![s] = @ + n]
      /\ tokens' = [tokens EXCEPT ![s] = @ \o t]
      /\ table' = table
  BY DEF Commit
<1>5. t \in Seq(Token)
  <2>1. CASE t = <<>>
    BY <2>1
  <2>2. ASSUME NEW x \in Token, t = <<x>> PROVE t \in Seq(Token)
    BY <2>2
  <2> QED
    BY <2>1, <2>2 DEF Sampled
<1>6. /\ numCached'[s] = done /\ tokens'[s] = tokens[s] \o t /\ table'[s] = table[s]
      /\ CachedBlocks(s)' = end
  BY <1>0, <1>4 DEF PoolTypeOK, CachedBlocks
<1>7. end * B <= done
  BY <1>1, <1>2, DivProperties
<1>8. ASSUME NEW pos \in 1 .. done
      PROVE  KvHolds(s, pos) /\ pos \in Nat \ {0} /\ pos <= Len(table[s]) * B /\ pos <= Len(tokens[s])
  <2>1. PICK L : L = Len(table[s]) * B
    OBVIOUS
  <2>2. PICK d : d = done
    OBVIOUS
  <2>3. L \in Int /\ d \in Nat /\ d <= L /\ d <= Len(tokens[s]) /\ d = numCached[s] + n
    BY <1>1, <1>2, <2>1, <2>2
  <2>4. pos \in Nat \ {0} /\ pos <= d
    BY <2>2, <2>3
  <2>5. pos <= L /\ pos <= Len(tokens[s])
    BY <1>1, <2>3, <2>4
  <2>6. pos \in 1 .. numCached[s] \/ pos \in numCached[s] + 1 .. numCached[s] + n
    BY <1>1, <2>3, <2>4
  <2>7. KvHolds(s, pos)
    BY <2>6 DEF CachedKv
  <2> QED
    BY <2>1, <2>4, <2>5, <2>7
<1> HIDE DEF done, start, end
<1>9. ASSUME NEW b \in Range(filled)
      PROVE  \E i \in 1 .. end : b = table[s][i]
  <2>1. /\ DOMAIN filled = 1 .. end - start
        /\ \A i \in 1 .. end - start : filled[i] = table[s][start + i]
    <3>1. \A i \in start + 1 .. end : table[s][i] \in Block
      BY <1>1, <1>2
    <3>2. /\ filled \in Seq(Block)
          /\ Len(filled) = IF start + 1 <= end THEN end - (start + 1) + 1 ELSE 0
          /\ \A i \in 1 .. end - (start + 1) + 1 : filled[i] = table[s][(start + 1) + i - 1]
      BY <1>2, <3>1, SubSeqProperties
    <3> HIDE DEF filled
    <3>3. Len(filled) = end - start
      BY <1>2, <3>2
    <3>4. ASSUME NEW i \in 1 .. end - start PROVE filled[i] = table[s][start + i]
      <4>1. i \in 1 .. end - (start + 1) + 1 /\ (start + 1) + i - 1 = start + i
        BY <1>2
      <4> QED
        BY <3>2, <4>1
    <3> QED
      BY <3>2, <3>3, <3>4
  <2> HIDE DEF filled
  <2>2. PICK j \in 1 .. end - start : filled[j] = b
    BY <2>1 DEF Range
  <2>3. start + j \in 1 .. end
    BY <1>2
  <2> QED
    BY <2>1, <2>2, <2>3
<1>10. PublishedKvIntact'
  <2> SUFFICES ASSUME NEW b \in Block, identity'[b] # <<>>, NEW o \in Offset
               PROVE  kv[b][o] = SubSeq(identity'[b], 1, Len(identity'[b]) - B + o + 1)
    BY DEF PublishedKvIntact, Offset
  <2>1. CASE b \notin Range(filled)
    BY <1>3, <2>1 DEF PublishedKvIntact
  <2>2. CASE b \in Range(filled)
    <3>1. PICK i \in 1 .. end : b = table[s][i]
      BY <1>9, <2>2
    <3>2. PICK m : m = i * B
      OBVIOUS
    <3>3. PICK pos : pos = (i - 1) * B + o + 1
      OBVIOUS
    <3>4. i \in Nat \ {0} /\ i - 1 \in Nat /\ m = (i - 1) * B + B /\ (i - 1) * B \in Nat
      BY <1>1, <1>2, <3>1, <3>2
    <3>5. m \in Nat /\ m <= end * B
      BY <1>1, <1>2, <3>1, <3>2
    <3>6. m <= done /\ m <= Len(tokens[s])
      BY <1>1, <1>2, <1>7, <3>5
    <3>7. o \in 0 .. B - 1
      BY DEF Offset
    <3>8. /\ pos \in Nat \ {0} /\ (pos - 1) \div B = i - 1 /\ (pos - 1) % B = o
      <4>1. PICK q : q = i - 1
        OBVIOUS
      <4>2. q \in Nat /\ B \in Nat \ {0}
        BY <1>1, <3>4, <4>1
      <4>3. q * B + o \in Nat /\ (q * B + o) \div B = q /\ (q * B + o) % B = o
        BY <3>7, <4>2, SlotInverse
      <4>4. pos = q * B + o + 1
        BY <3>3, <4>1
      <4>5. pos \in Nat \ {0} /\ pos - 1 = q * B + o
        BY <4>3, <4>4
      <4> QED
        BY <4>1, <4>3, <4>5
    <3>9. pos <= m /\ m - B + o + 1 = pos
      BY <1>1, <3>3, <3>4, <3>7
    <3>10. pos \in 1 .. done
      <4>1. pos \in Nat \ {0} /\ done \in Nat
        BY <1>2, <3>8, Zenon
      <4>2. pos <= m /\ m <= done
        BY <3>6, <3>9, Zenon
      <4> QED
        BY <3>5, <4>1, <4>2
    <3>11. KvAt(s, pos) = kv[b][o]
      <4>1. SlotBlock(s, pos) = i
        BY <3>4, <3>8 DEF SlotBlock
      <4> QED
        BY <3>1, <3>8, <4>1 DEF KvAt
    <3>12. kv[b][o] = SubSeq(tokens[s], 1, pos)
      BY <1>8, <3>10, <3>11 DEF KvHolds
    <3>13. identity'[b] = PrefixTokens(s, i)
      <4>1. identity'[table'[s][i]] = PrefixTokens(s, i)'
        BY <1>6, <3>1 DEF CacheInv, CacheOK, PublishedFor
      <4>2. PrefixTokens(s, i)' = PrefixTokens(s, i)
        BY <1>0, <1>5, <1>6, <3>2, <3>4, <3>6, HistoryGrows
      <4> QED
        BY <1>6, <3>1, <4>1, <4>2
    <3>14. Len(identity'[b]) = m
      BY <1>0, <3>2, <3>4, <3>6, <3>13, BlockTokensProperties
    <3>15. SubSeq(SubSeq(tokens[s], 1, m), 1, pos) = SubSeq(tokens[s], 1, pos)
      BY <1>1, <3>5, <3>6, <3>8, <3>9, PrefixAndRest
    <3> QED
      BY <3>2, <3>9, <3>12, <3>13, <3>14, <3>15 DEF PrefixTokens
  <2> QED
    BY <2>1, <2>2
<1>11. ASSUME NEW r \in SeqId PROVE \A pos \in 1 .. numCached'[r] : KvHolds(r, pos)'
  <2>1. CASE r = s
    <3> SUFFICES ASSUME NEW pos \in 1 .. done PROVE KvHolds(s, pos)'
      BY <1>6, <2>1
    <3>1. KvHolds(s, pos) /\ pos \in Nat \ {0} /\ pos <= Len(table[s]) * B /\ pos <= Len(tokens[s])
      BY <1>8
    <3>2. \A i \in DOMAIN table[s] : table'[s][i] = table[s][i]
      BY <1>6
    <3> QED
      BY <1>0, <1>5, <1>6, <3>1, <3>2, SlotKept
  <2>2. CASE r # s
    <3>1. tokens'[r] = tokens[r] /\ numCached'[r] = numCached[r] /\ table'[r] = table[r]
      BY <1>0, <1>4, <2>2 DEF PoolTypeOK
    <3> QED
      BY <3>1, EntriesKept
  <2> QED
    BY <2>1, <2>2
<1> QED
  BY <1>10, <1>11 DEF CachedKv
-----------------------------------------------------------------------------
(* Each step preserves the invariant.                                      *)

(* Every step of the engine is one of the scheduler's or leaves it alone.  *)
LEMMA StepUsesScheduler ==
  ASSUME EngineInv, [EngineNext]_vars
  PROVE  [SchedNext]_schedVars
<1>1. CASE \E n \in 1 .. MaxCallSize : BeginCall(n)
  BY <1>1 DEF BeginCall
<1>2. ASSUME NEW p \in Prompt, NEW m \in MaxTokens, NEW i \in BOOLEAN, Submit(p, m, i)
      PROVE  SchedNext
  BY <1>2 DEF Submit, SchedNext
<1>3. CASE Plan
  BY <1>3 DEF Plan, SchedNext
<1>4. CASE ReserveAttention \/ PublishAttention \/ Bind
  BY <1>4 DEF ReserveAttention, PublishAttention, Bind
<1>5. ASSUME NEW r \in Results(inFlight), Forward(r) PROVE UNCHANGED schedVars
  BY <1>5 DEF Forward
<1>6. CASE ForwardFails \/ FinishConsumer
  BY <1>6 DEF ForwardFails, FinishConsumer
<1>7. CASE FinishStep
  BY <1>7 DEF FinishStep, EngineInv, CallOK, SchedNext, ExecuteStep
<1>8. CASE PrepareFails \/ FinishFailedStep
  BY <1>8 DEF PrepareFails, FinishFailedStep, CleanupFailedStep, SchedNext
<1>9. CASE Apply
  BY <1>9 DEF Apply, SchedNext
<1>10. CASE UNCHANGED vars
  BY <1>10 DEF vars
<1> QED
  BY <1>1, <1>2, <1>3, <1>4, <1>5, <1>6, <1>7, <1>8, <1>9, <1>10 DEF EngineNext, EngineStep

(* Direct prefill is chosen only if no entry of the plan has a cached      *)
(* position.                                                               *)
LEMMA CapturePath ==
  ASSUME SchedInv, CapturePlan
  PROVE  path' = "prefill" => \A k \in DOMAIN inFlight' : inFlight'[k].first = 1
<1> SUFFICES ASSUME path' = "prefill", NEW k \in DOMAIN inFlight' PROVE inFlight'[k].first = 1
  OBVIOUS
<1>1. PICK q : q = Scheduled
  OBVIOUS
<1>2. PICK plan : plan = [j \in DOMAIN q |-> PlanFor(q[j])]
  OBVIOUS
<1>3. inFlight' = plan /\ path' = AttentionPath(plan) /\ pc = "capture"
  BY <1>1, <1>2 DEF CapturePlan
<1>4. PICK prefills : prefills = {i \in DOMAIN plan : plan[i].phase = "prefill"}
  OBVIOUS
<1>5. prefills = DOMAIN plan /\ \A i \in prefills : ~(plan[i].cached > 0)
  BY <1>3, <1>4 DEF AttentionPath
<1>6. k \in DOMAIN q /\ plan[k] = PlanFor(q[k])
  BY <1>2, <1>3
<1>7. PICK s \in SeqId : s = q[k]
  <2>1. q \in Seq(SeqId)
    BY <1>1, ScheduledProperties
  <2> QED
    BY <1>6, <2>1
<1>8. numCached[s] \in Nat
  BY <1>7, RequestTypes DEF SchedInv
<1>9. Phase(s) = "prefill" => PlanFor(s).first = numCached[s] + 1
  BY DEF PlanFor
<1>10. PlanFor(s).phase = Phase(s) /\ PlanFor(s).cached = numCached[s]
  <2>1. Phase(s) \in {"prefill", "decode"}
    BY <1>7, RequestTypes DEF SchedInv
  <2> QED
    BY <2>1 DEF PlanFor
<1>11. Phase(s) = "prefill" /\ ~(numCached[s] > 0)
  BY <1>3, <1>4, <1>5, <1>6, <1>7, <1>10
<1> QED
  BY <1>3, <1>6, <1>7, <1>8, <1>9, <1>11

(* While no plan is executing or applied, nothing is promised of one.      *)
LEMMA NoPlannedKv ==
  ASSUME pc' \notin {"execute", "apply"}, stage' # "computed"
  PROVE  PlannedKv' /\ PathOK'
BY DEF PlannedKv, PathOK

(* A decision moves blocks but writes no entry.                            *)
LEMMA PlanKv ==
  ASSUME EngineInv, SystemInv', Plan
  PROVE  KvOK'
<1>0. /\ SystemInv /\ SchedInv /\ CacheInv /\ CacheInv' /\ PublishedKvIntact /\ CachedKv
      /\ CallOK /\ kv' = kv
  BY DEF EngineInv, SystemInv, KvOK, Plan
<1>1. /\ PlanStep /\ stage' = IF pc' = "execute" THEN "planned" ELSE stage
  BY DEF Plan
<1>2. ASSUME pc # "execute", pc' \notin {"execute", "apply"}
      PROVE  PlannedKv' /\ PathOK'
  <2>1. stage' = "none"
    BY <1>0, <1>1, <1>2 DEF CallOK
  <2> QED
    BY <1>2, <2>1, NoPlannedKv
<1>3. CASE BeginStep \/ ScheduleRunning \/ AdmissionEnds
  <2>1. UNCHANGED poolVars /\ pc # "execute" /\ pc' \notin {"execute", "apply"}
    BY <1>3 DEF BeginStep, ScheduleRunning, AdmissionEnds
  <2>2. PublishedKvIntact' /\ CachedKv'
    BY <1>0, <2>1, KvStutter DEF poolVars
  <2> QED
    BY <1>2, <2>1, <2>2 DEF KvOK
<1>4. CASE Preempt \/ RollbackLastAdmission
  <2>1. pc # "execute" /\ pc' \notin {"execute", "apply"} /\ \E q : DeallocateBatch(q)
    BY <1>4 DEF Preempt, RollbackLastAdmission
  <2>2. PublishedKvIntact' /\ CachedKv'
    BY <1>0, <2>1, KvRelease
  <2> QED
    BY <1>2, <2>1, <2>2 DEF KvOK
<1>5. CASE AdmitHead
  <2>1. PICK s : s = Head(waiting)
    OBVIOUS
  <2>2. pc # "execute" /\ pc' \notin {"execute", "apply"} /\ Admit(s) /\ waiting # <<>>
    BY <1>5, <2>1 DEF AdmitHead, CanAdmit
  <2>3. s \in SeqId
    <3>1. waiting \in Seq(SeqId)
      BY <1>0, QueueTypes
    <3> QED
      BY <2>1, <2>2, <3>1, PopProperties
  <2>4. PublishedKvIntact' /\ CachedKv'
    BY <1>0, <2>2, <2>3, KvAdmit
  <2> QED
    BY <1>2, <2>2, <2>4 DEF KvOK
<1>6. CASE ReserveDecodeCache
  <2>1. pc # "execute" /\ pc' \notin {"execute", "apply"} /\ \E q : MayAppendBatch(q)
    BY <1>6 DEF ReserveDecodeCache
  <2>2. PublishedKvIntact' /\ CachedKv'
    BY <1>0, <2>1, KvReserve
  <2> QED
    BY <1>2, <2>1, <2>2 DEF KvOK
<1>7. CASE CapturePlan
  <2>1. UNCHANGED poolVars /\ pc' = "execute" /\ stage' = "planned"
    BY <1>1, <1>7 DEF CapturePlan
  <2>2. PublishedKvIntact' /\ CachedKv'
    BY <1>0, <2>1, KvStutter DEF poolVars
  <2>3. PlannedKv'
    BY <2>1 DEF PlannedKv
  <2>4. PathOK'
    BY <1>0, <1>7, CapturePath DEF PathOK
  <2> QED
    BY <2>2, <2>3, <2>4 DEF KvOK
<1> QED
  BY <1>1, <1>3, <1>4, <1>5, <1>6, <1>7 DEF PlanStep

(* Applying the result of one sequence publishes what the plan has         *)
(* computed for it.                                                        *)
LEMMA ApplyOneKv ==
  ASSUME EngineInv, SystemInv', ApplyOne, kv' = kv, stage' = stage
  PROVE  KvOK'
<1>0. /\ SystemInv /\ SchedInv /\ CacheInv /\ CacheInv' /\ PublishedKvIntact /\ CachedKv
      /\ PlannedKv /\ CallOK
  BY DEF EngineInv, SystemInv, KvOK
<1>1. /\ pc = "apply" /\ pc' = "apply" /\ applied < Len(inFlight) /\ applied' = applied + 1
      /\ inFlight' = inFlight /\ table' = table
  BY DEF ApplyOne
<1>2. PICK k : k = applied + 1
  OBVIOUS
<1>3. PICK s : s = inFlight[k].id
  OBVIOUS
<1>4. /\ k \in DOMAIN inFlight /\ s \in SeqId
      /\ numScheduled[s] \in Nat \ {0}
      /\ inFlight[k].first = numCached[s] + 1
      /\ inFlight[k].last = numCached[s] + numScheduled[s]
      /\ result[k] \in Sampled
      /\ \A j \in DOMAIN inFlight : inFlight[j].id = s => j = k
  BY <1>0, <1>1, <1>2, <1>3, NextEntry
<1>5. Commit(s, numScheduled[s], result[k])
  BY <1>0, <1>2, <1>3, ApplyOneIsCommit
<1>6. applied \in Nat /\ k > applied
  BY <1>0, <1>2 DEF SchedInv, SchedTypeOK
<1>7. \A pos \in numCached[s] + 1 .. numCached[s] + numScheduled[s] : KvHolds(s, pos)
  BY <1>0, <1>1, <1>3, <1>4, <1>6 DEF PlannedKv
<1>8. numScheduled[s] \in 1 .. MaxModelLen
  <2>1. /\ inFlight[k].last <= Len(tokens[s]) /\ Len(tokens[s]) < MaxModelLen
    BY <1>0, <1>1, <1>2, <1>3, NextEntry
  <2>2. MaxModelLen \in Nat /\ Len(tokens[s]) \in Nat /\ numCached[s] \in Nat
    <3>1. MaxModelLen \in Nat
      BY PoolSizes
    <3> QED
      BY <1>0, <1>4, <3>1, RequestTypes DEF SchedInv
  <2> QED
    BY <1>4, <2>1, <2>2
<1>9. PublishedKvIntact' /\ CachedKv'
  BY <1>0, <1>4, <1>5, <1>7, <1>8, KvCommit
<1>10. PlannedKv'
  <2> SUFFICES ASSUME NEW j \in DOMAIN inFlight, j > k,
                      NEW pos \in inFlight[j].first .. inFlight[j].last
               PROVE  KvHolds(inFlight[j].id, pos)'
    BY <1>1, <1>2 DEF PlannedKv
  <2>1. PICK r : r = inFlight[j].id
    OBVIOUS
  <2>2. j \in Nat /\ j > applied /\ j # k
    <3>1. inFlight \in Seq(PlanEntry)
      BY <1>0 DEF SchedInv, SchedTypeOK
    <3>2. j \in Nat
      BY <3>1
    <3> QED
      BY <1>2, <1>6, <3>2
  <2>3. r # s
    BY <1>4, <2>1, <2>2
  <2>4. KvHolds(r, pos)
    BY <1>0, <1>1, <2>1, <2>2 DEF PlannedKv
  <2>5. r \in SeqId
    <3>1. inFlight[j] \in PlanEntry
      BY <1>0 DEF SchedInv, SchedTypeOK
    <3> QED
      BY <2>1, <3>1 DEF PlanEntry
  <2>6. tokens'[r] = tokens[r] /\ table'[r] = table[r]
    <3>1. tokens' = [tokens EXCEPT ![s] = @ \o result[k]]
      BY <1>5 DEF Commit
    <3>2. tokens \in [SeqId -> Seq(Token)]
      BY <1>0 DEF CacheInv, PoolInv, PoolTypeOK
    <3> QED
      BY <1>1, <2>3, <2>5, <3>1, <3>2
  <2>7. KvHolds(r, pos)'
    BY <2>4, <2>6 DEF KvHolds, KvAt, SlotBlock
  <2>8. inFlight'[j].id = r
    BY <1>1, <2>1
  <2> QED
    BY <2>7, <2>8 DEF KvHolds, KvAt, SlotBlock
<1>11. PathOK'
  BY <1>1 DEF PathOK
<1> QED
  BY <1>9, <1>10, <1>11 DEF KvOK

(* A step of apply_step_result keeps the entries faithful.                 *)
LEMMA ApplyKv ==
  ASSUME EngineInv, SystemInv', Apply
  PROVE  KvOK'
<1>0. /\ SystemInv /\ CacheInv /\ PublishedKvIntact /\ CachedKv /\ CallOK
      /\ kv' = kv /\ stage' = stage
  BY DEF EngineInv, SystemInv, KvOK, Apply
<1>1. CASE ApplyOne
  BY <1>0, <1>1, ApplyOneKv
<1>2. CASE ApplyEnds
  <2>1. pc = "apply" /\ pc' = "idle"
    BY <1>2 DEF ApplyEnds, ReturnFromStep
  <2>2. UNCHANGED poolVars \/ \E q : DeallocateBatch(q)
    BY <1>2 DEF ApplyEnds
  <2>3. PublishedKvIntact' /\ CachedKv'
    BY <1>0, <2>2, KvRelease, KvStutter DEF poolVars
  <2>4. stage' = "none"
    BY <1>0, <2>1 DEF CallOK
  <2> QED
    BY <2>1, <2>3, <2>4, NoPlannedKv DEF KvOK
<1> QED
  BY <1>1, <1>2 DEF Apply, ApplyStep

(* After an abort no sequence counts on any entry.                         *)
LEMMA AbortKv ==
  ASSUME EngineInv, CleanupFailedStep
  PROVE  KvOK'
<1>0. CacheInv /\ PublishedKvIntact /\ CachedKv /\ kv' = kv
  BY DEF EngineInv, SystemInv, KvOK, CleanupFailedStep
<1>1. AbortAllRequests /\ stage' = "none" /\ pc' = "idle"
  BY DEF CleanupFailedStep, AbortAllRequests, ReturnFromStep
<1>2. UNCHANGED poolVars \/ \E q : DeallocateBatch(q)
  BY <1>1 DEF AbortAllRequests
<1>3. PublishedKvIntact' /\ CachedKv'
  BY <1>0, <1>2, KvRelease, KvStutter DEF poolVars
<1> QED
  BY <1>1, <1>3, NoPlannedKv DEF KvOK

(* The pass itself, and everything around it.                              *)
LEMMA ForwardKv ==
  ASSUME EngineInv, (\E r \in Results(inFlight) : Forward(r)) \/ ForwardFails
  PROVE  KvOK'
<1>0. SystemInv /\ CallOK /\ KvOK /\ stage = "bound" /\ UNCHANGED schedVars
  BY DEF EngineInv, Forward, ForwardFails
<1>1. pc = "execute" /\ PublishedKvIntact /\ CachedKv /\ PathOK
  BY <1>0 DEF CallOK, KvOK
<1>2. UNCHANGED <<identity, table, tokens, numCached, inFlight, pc, path>>
  BY <1>0 DEF schedVars, poolVars, callVars
<1>3. kv' = KvAfterForward \/ kv' \in {kv, KvAfterFailure}
  BY DEF Forward, ForwardFails
<1>4. PublishedKvIntact' /\ CachedKv'
  BY <1>0, <1>1, <1>2, <1>3, ForwardWritesOnlyPlanned, ForwardKeeps
<1>5. PathOK'
  BY <1>1, <1>2 DEF PathOK
<1>6. PlannedKv'
  <2>1. CASE ForwardFails
    BY <1>1, <1>2, <2>1 DEF ForwardFails, PlannedKv
  <2>2. CASE \E r \in Results(inFlight) : Forward(r)
    <3>1. kv' = KvAfterForward
      BY <2>2 DEF Forward
    <3>2. ASSUME NEW k \in DOMAIN inFlight, NEW pos \in inFlight[k].first .. inFlight[k].last
          PROVE  KvHolds(inFlight[k].id, pos)'
      BY <1>0, <1>1, <1>2, <3>1, ForwardComputes
    <3> QED
      BY <1>2, <3>2 DEF PlannedKv
  <2> QED
    BY <2>1, <2>2
<1> QED
  BY <1>4, <1>5, <1>6 DEF KvOK

(* Steps of the engine that leave the scheduler and the entries alone.     *)
LEMMA QuietKv ==
  ASSUME EngineInv, UNCHANGED <<schedVars, kv>>, stage' # "computed" \/ stage = "computed"
  PROVE  KvOK'
<1>0. KvOK
  BY DEF EngineInv
<1>1. UNCHANGED <<identity, table, tokens, numCached, inFlight, pc, path, applied>>
  BY DEF schedVars, poolVars, callVars
<1>2. PublishedKvIntact' /\ CachedKv'
  BY <1>0, <1>1, KvStutter DEF KvOK
<1>3. PathOK'
  BY <1>0, <1>1 DEF KvOK, PathOK
<1>4. PlannedKv'
  BY <1>0, <1>1 DEF KvOK, PlannedKv, KvHolds, KvAt, SlotBlock
<1> QED
  BY <1>2, <1>3, <1>4 DEF KvOK

(* Every step keeps the entries faithful.                                  *)
LEMMA KvStep ==
  ASSUME EngineInv, SystemInv', [EngineNext]_vars
  PROVE  KvOK'
<1>0. SystemInv /\ CacheInv /\ KvOK /\ CallOK /\ PublishedKvIntact /\ CachedKv
  BY DEF EngineInv, SystemInv, KvOK
<1>1. CASE \E n \in 1 .. MaxCallSize : BeginCall(n)
  BY <1>1, QuietKv DEF BeginCall
<1>2. ASSUME NEW p \in Prompt, NEW m \in MaxTokens, NEW i \in BOOLEAN, Submit(p, m, i)
      PROVE  KvOK'
  <2>1. /\ pc = "idle" /\ pc' = "idle" /\ nextId \in SeqId /\ NewSequence(nextId, p)
        /\ kv' = kv /\ stage' = stage
    BY <1>2 DEF Submit, AddRequest
  <2>2. PublishedKvIntact' /\ CachedKv'
    BY <1>0, <2>1, KvNewSequence
  <2>3. stage' = "none"
    BY <1>0, <2>1 DEF CallOK
  <2> QED
    BY <2>1, <2>2, <2>3, NoPlannedKv DEF KvOK
<1>3. CASE Plan
  BY <1>3, PlanKv
<1>4. CASE ReserveAttention \/ PublishAttention \/ Bind \/ FinishConsumer
  BY <1>4, QuietKv DEF ReserveAttention, PublishAttention, Bind, FinishConsumer
<1>5. CASE (\E r \in Results(inFlight) : Forward(r)) \/ ForwardFails
  BY <1>5, ForwardKv
<1>6. CASE FinishStep
  <2>1. /\ stage = "computed" /\ Execute(computed) /\ stage' = "none" /\ kv' = kv
    BY <1>6 DEF FinishStep
  <2>2. /\ UNCHANGED <<identity, table, tokens, numCached, inFlight, applied>>
        /\ pc' = "apply"
    BY <2>1 DEF Execute, poolVars
  <2>3. PublishedKvIntact' /\ CachedKv'
    BY <1>0, <2>1, <2>2, KvStutter
  <2>4. PlannedKv'
    BY <1>0, <2>1, <2>2 DEF KvOK, PlannedKv, KvHolds, KvAt, SlotBlock
  <2>5. PathOK'
    BY <2>2 DEF PathOK
  <2> QED
    BY <2>3, <2>4, <2>5 DEF KvOK
<1>7. CASE PrepareFails \/ FinishFailedStep
  BY <1>7, AbortKv DEF PrepareFails, FinishFailedStep
<1>8. CASE Apply
  BY <1>8, ApplyKv
<1>9. CASE UNCHANGED vars
  BY <1>9, QuietKv DEF vars, engineVars
<1> QED
  BY <1>1, <1>2, <1>3, <1>4, <1>5, <1>6, <1>7, <1>8, <1>9 DEF EngineNext, EngineStep

(* Where the call is, and the attention context.                           *)
LEMMA CallStep ==
  ASSUME EngineInv, [EngineNext]_vars
  PROVE  CallOK' /\ AttentionOK'
<1>0. CallOK /\ AttentionOK
  BY DEF EngineInv
<1>1. ASSUME NEW n \in 1 .. MaxCallSize, BeginCall(n) PROVE CallOK' /\ AttentionOK'
  <2>1. UNCHANGED <<inFlight, pc, waiting, running>>
    BY <1>1 DEF BeginCall, schedVars
  <2> QED
    BY <1>0, <1>1, <2>1
       DEF BeginCall, CallOK, AttentionOK, attnVars, AttnIdle, IsRunning, Results
<1>2. ASSUME NEW p, NEW m, NEW i, Submit(p, m, i) PROVE CallOK' /\ AttentionOK'
  BY <1>0, <1>2 DEF Submit, AddRequest, CallOK, AttentionOK, attnVars, AttnIdle, Results
<1>3. CASE Plan
  <2>1. /\ call = "loop" /\ call' = "loop" /\ stage' = IF pc' = "execute" THEN "planned" ELSE stage
        /\ UNCHANGED <<attnVars, planId, computed>>
    BY <1>3 DEF Plan
  <2>2. pc # "execute"
    BY <1>3 DEF Plan, PlanStep, BeginStep, Preempt, ScheduleRunning, AdmitHead, AdmissionEnds,
                ReserveDecodeCache, RollbackLastAdmission, CapturePlan
  <2>3. stage = "none"
    BY <1>0, <2>2 DEF CallOK
  <2> QED
    BY <1>0, <2>1, <2>3 DEF CallOK, AttentionOK, attnVars, AttnIdle
<1>4. CASE ReserveAttention
  <2>1. UNCHANGED <<inFlight, pc, waiting, running>>
    BY <1>4 DEF ReserveAttention, schedVars
  <2> QED
    BY <1>0, <1>4, <2>1
       DEF ReserveAttention, ReserveEpoch, CallOK, AttentionOK, AttnIdle, IsRunning, Results
<1>5. CASE PublishAttention
  <2>1. UNCHANGED <<inFlight, pc, waiting, running>>
    BY <1>5 DEF PublishAttention, schedVars
  <2> QED
    BY <1>0, <1>5, <2>1 DEF PublishAttention, PublishEpoch, CallOK, AttentionOK, IsRunning, Results
<1>6. CASE Bind
  <2>1. UNCHANGED <<inFlight, pc, waiting, running>>
    BY <1>6 DEF Bind, schedVars
  <2> QED
    BY <1>0, <1>6, <2>1 DEF Bind, BindConsumer, CallOK, AttentionOK, IsRunning, Results
<1>7. ASSUME NEW r \in Results(inFlight), Forward(r) PROVE CallOK' /\ AttentionOK'
  <2>1. UNCHANGED <<inFlight, pc, waiting, running>>
    BY <1>7 DEF Forward, schedVars
  <2> QED
    BY <1>0, <1>7, <2>1 DEF Forward, CallOK, AttentionOK, attnVars, IsRunning, Results
<1>8. CASE ForwardFails
  <2>1. UNCHANGED <<inFlight, pc, waiting, running>>
    BY <1>8 DEF ForwardFails, schedVars
  <2> QED
    BY <1>0, <1>8, <2>1 DEF ForwardFails, CallOK, AttentionOK, attnVars, IsRunning
<1>9. CASE FinishConsumer
  <2>1. UNCHANGED <<inFlight, pc, waiting, running>>
    BY <1>9 DEF FinishConsumer, schedVars
  <2> QED
    BY <1>0, <1>9, <2>1
       DEF FinishConsumer, ReleaseConsumer, CallOK, AttentionOK, IsRunning, Results
<1>10. CASE FinishStep
  BY <1>0, <1>10 DEF FinishStep, ReleaseEpoch, Execute, CallOK, AttentionOK, AttnIdle
<1>11. CASE PrepareFails
  BY <1>0, <1>11 DEF PrepareFails, CancelPreparation, CleanupFailedStep, AbortAllRequests,
                     ReturnFromStep, CallOK, AttentionOK, AttnIdle, IsRunning
<1>12. CASE FinishFailedStep
  BY <1>0, <1>12 DEF FinishFailedStep, ReleaseEpoch, CleanupFailedStep, AbortAllRequests,
                     ReturnFromStep, CallOK, AttentionOK, AttnIdle, IsRunning
<1>13. CASE Apply
  <2>1. call = "loop" /\ pc = "apply" /\ pc' \in {"apply", "idle"}
    BY <1>13 DEF Apply, ApplyStep, ApplyOne, ApplyEnds, ReturnFromStep
  <2>2. UNCHANGED <<attnVars, planId, stage, computed>>
    BY <1>13 DEF Apply
  <2>3. stage = "none"
    BY <1>0, <2>1 DEF CallOK
  <2>4. \/ call' = "loop"
        \/ call' = "returned" /\ projection' = 0 /\ ~IsRunning' /\ pc' = "idle"
    BY <1>13, <2>1 DEF Apply, IsRunning
  <2> QED
    BY <1>0, <2>1, <2>2, <2>3, <2>4 DEF CallOK, AttentionOK, attnVars, AttnIdle
<1>14. CASE UNCHANGED vars
  <2>1. UNCHANGED <<inFlight, pc, waiting, running>>
    BY <1>14 DEF vars, schedVars
  <2>2. UNCHANGED <<lifecycle, epoch, consumer, planId, stage, computed, call, projection>>
    BY <1>14 DEF vars, engineVars, attnVars
  <2> QED
    BY <1>0, <2>1, <2>2 DEF CallOK, AttentionOK, AttnIdle, IsRunning, Results
<1> QED
  BY <1>1, <1>2, <1>3, <1>4, <1>5, <1>6, <1>7, <1>8, <1>9, <1>10, <1>11, <1>12, <1>13, <1>14
     DEF EngineNext, EngineStep

(* The invariant holds at the start.                                       *)
LEMMA EngineStarts == EngineInit => EngineInv
<1> SUFFICES ASSUME EngineInit PROVE EngineInv
  OBVIOUS
<1>1. SystemInv
  BY SystemInit DEF EngineInit
<1>2. CallOK /\ AttentionOK
  BY DEF EngineInit, SchedInit, AttnInit, CallOK, AttentionOK, AttnIdle, IsRunning
<1>3. PublishedKvIntact
  BY DEF EngineInit, SchedInit, PoolInit, PublishedKvIntact
<1>4. CachedKv
  BY DEF EngineInit, SchedInit, PoolInit, CachedKv
<1>5. PlannedKv /\ PathOK
  BY DEF EngineInit, SchedInit, PlannedKv, PathOK
<1> QED
  BY <1>1, <1>2, <1>3, <1>4, <1>5 DEF EngineInv, KvOK

(* Every step of the engine keeps the invariant.                           *)
LEMMA EngineSteps == EngineInv /\ [EngineNext]_vars => EngineInv'
<1> SUFFICES ASSUME EngineInv, [EngineNext]_vars PROVE EngineInv'
  OBVIOUS
<1>1. SystemInv'
  BY StepUsesScheduler, SystemStep DEF EngineInv
<1> QED
  BY <1>1, KvStep, CallStep DEF EngineInv
-----------------------------------------------------------------------------
(* Whatever was shared, recomputed, preempted, abandoned or left behind by *)
(* a failed forward pass, a sequence attends to entries computed from its  *)
(* own history, and a block a prefix lookup can return holds the tokens    *)
(* its identity names (KvCacheManager, reshape_and_cache, execute_plan).   *)
THEOREM EngineKvIsFaithful == EngineSpec => []KvIsFaithful
<1>1. EngineInv => KvIsFaithful
  <2> SUFFICES ASSUME EngineInv PROVE KvIsFaithful
    OBVIOUS
  <2>1. SchedInv /\ CachedKv /\ PublishedKvIntact
    BY DEF EngineInv, SystemInv, KvOK
  <2>2. Range(running) \subseteq SeqId
    BY <2>1, QueueTypes
  <2>3. KvMatchesHistory
    BY <2>1, <2>2 DEF KvMatchesHistory, CachedKv, KvHolds
  <2> QED
    BY <2>1, <2>3 DEF KvIsFaithful
<1> QED
  BY <1>1, EngineStarts, EngineSteps, PTL DEF EngineSpec

(* When execute_plan has sampled, every sampled token came from a hidden   *)
(* state that attended to the whole history of its request.                *)
THEOREM EngineSamplesSeeWholeHistory == EngineSpec => []SamplesSeeWholeHistory
<1>1. EngineInv => SamplesSeeWholeHistory
  <2> SUFFICES ASSUME EngineInv, stage = "computed",
                      NEW k \in DOMAIN inFlight, inFlight[k].sampling
               PROVE  KvAt(inFlight[k].id, inFlight[k].last) = tokens[inFlight[k].id]
    BY DEF SamplesSeeWholeHistory
  <2>1. PICK s : s = inFlight[k].id
    OBVIOUS
  <2>2. PICK l : l = inFlight[k].last
    OBVIOUS
  <2>3. SchedInv /\ PlannedKv /\ pc = "execute"
    BY DEF EngineInv, SystemInv, KvOK, CallOK
  <2>4. inFlight \in Seq(PlanEntry) /\ inFlight[k] \in PlanEntry /\ k \in Nat \ {0}
    <3>1. inFlight \in Seq(PlanEntry)
      BY <2>3 DEF SchedInv, SchedTypeOK
    <3> QED
      BY <3>1, ElementOfSeq
  <2>5. s \in SeqId /\ l \in Nat /\ inFlight[k].first \in Nat
    BY <2>1, <2>2, <2>4 DEF PlanEntry
  <2>6. k > applied
    <3>1. applied = 0
      BY <2>3 DEF SchedInv, PlanOK
    <3> QED
      BY <2>4, <3>1
  <2>7. EntryOK(k)
    BY <2>3 DEF SchedInv, PlanOK
  <2>8. l = Len(tokens[s]) /\ inFlight[k].first <= l
    BY <2>1, <2>2, <2>5, <2>6, <2>7 DEF EntryOK
  <2>9. l \in inFlight[k].first .. inFlight[k].last
    BY <2>2, <2>5, <2>8
  <2>10. KvHolds(s, l)
    BY <2>1, <2>3, <2>6, <2>9 DEF PlannedKv
  <2>11. tokens[s] \in Seq(Token)
    BY <2>3, <2>5, RequestTypes DEF SchedInv
  <2>12. SubSeq(tokens[s], 1, Len(tokens[s])) = tokens[s]
    BY <2>11, SubSeqFull
  <2> QED
    BY <2>1, <2>2, <2>8, <2>10, <2>12 DEF KvHolds
<1> QED
  BY <1>1, EngineStarts, EngineSteps, PTL DEF EngineSpec

(* Between calls of generate, returned or failed, every block is free, the *)
(* queues and the plan are empty, the attention context is idle and the    *)
(* default layout is bound (cleanup_failed_step, end_generation).          *)
THEOREM EngineCleanBetweenCalls == EngineSpec => []CleanBetweenCalls
<1>1. EngineInv => CleanBetweenCalls
  <2> SUFFICES ASSUME EngineInv, call \notin {"submit", "loop"}
               PROVE  /\ used = {} /\ Len(free) = NumBlocks
                      /\ ~IsRunning /\ inFlight = <<>>
                      /\ AttnIdle
                      /\ projection = 0
    BY DEF CleanBetweenCalls
  <2>1. SchedInv /\ CacheInv /\ CallOK /\ AttentionOK
    BY DEF EngineInv, SystemInv
  <2>2. ~IsRunning /\ projection = 0 /\ pc = "idle"
    BY <2>1 DEF CallOK
  <2>3. AttnIdle
    BY <2>1, <2>2 DEF CallOK, AttentionOK
  <2>4. inFlight = <<>>
    BY <2>1, <2>2, NotExecuting DEF Executing
  <2>5. Range(running) = {}
    BY <2>2 DEF IsRunning, Range
  <2>6. used = {}
    BY <2>1, <2>5, UsedByRunning
  <2>7. Len(free) = NumBlocks
    <3>1. Cardinality(used) = 0
      BY <2>6, FS_EmptySet
    <3>2. NumBlocks \in Nat
      BY PoolSizes
    <3> QED
      BY <2>1, <3>1, <3>2, FreeCount
  <2> QED
    BY <2>2, <2>3, <2>4, <2>6, <2>7
<1> QED
  BY <1>1, EngineStarts, EngineSteps, PTL DEF EngineSpec

(* The model reads attention metadata only of the plan in flight, and no   *)
(* step finds the attention context taken by an earlier one, failed steps  *)
(* included (AttentionStepGuard, AttentionConsumerGuard).                  *)
THEOREM EngineAttentionFollowsPlan == EngineSpec => []AttentionFollowsPlan
<1>1. EngineInv => AttentionFollowsPlan
  BY DEF EngineInv, CallOK, AttentionOK, AttentionFollowsPlan, AttnIdle, MetadataReadable
<1> QED
  BY <1>1, EngineStarts, EngineSteps, PTL DEF EngineSpec
-----------------------------------------------------------------------------
(***************************************************************************)
(* The scheduler implements Generation: seen from outside, every request   *)
(* grows by one sampled token at a time until it must stop, or is aborted. *)
(* Hence generate returns one output for each prompt, in the order of the  *)
(* prompts, with exactly the tokens generated for it.                      *)
(***************************************************************************)

(* The inductive invariant: what outputs say of the requests.              *)

(* An output of s was returned.                                            *)
Produced(s) == \E i \in DOMAIN outputs : outputs[i].request = s

(* An output is the only one of its request, final, and all that was       *)
(* generated.                                                              *)
OutputOK(i) ==
  LET s == outputs[i].request
  IN  /\ \A j \in DOMAIN outputs : outputs[j].request = s => j = i
      /\ s < nextId
      /\ Queued(s) => s \in finished
      /\ outputs[i].completion = SubSeq(tokens[s], numPrompt[s] + 1, Len(tokens[s]))

(* What the outputs say of the requests; requests not yet added have no    *)
(* parameters.                                                             *)
OutputsOK ==
  /\ \A i \in DOMAIN outputs : OutputOK(i)
  /\ \A s \in finished : Produced(s)
  /\ \A s \in SeqId : s >= nextId => numPrompt[s] = 0 /\ maxTokens[s] = 0 /\ ~ignoreEos[s]

(* The inductive invariant of the refinement.                              *)
GenInv == SystemInv /\ OutputsOK

(* The requests of the call in progress are the ones that are queued and   *)
(* the ones it has outputs of.                                             *)
ProducedInCall(s) == \E i \in DOMAIN outputs : i > callStart /\ outputs[i].request = s

(* What a call of generate knows of its requests.                          *)
CallOutputs ==
  /\ callStart \in Nat
  /\ callStart <= Len(outputs)
  /\ requestIds \in Seq(SeqId)
  /\ call \in {"submit", "loop", "returned"} =>
       /\ NoDuplicates(requestIds)
       /\ \A s \in Range(requestIds) : s < nextId
       /\ \A i \in DOMAIN outputs : i <= callStart => outputs[i].request \notin Range(requestIds)
       /\ \A s \in SeqId : s \in Range(requestIds) <=> Queued(s) \/ ProducedInCall(s)
-----------------------------------------------------------------------------
(* Steps that cannot be seen from outside.                                 *)

(* The stage of a request, read off the queues and the outputs.            *)
StageOf(s) ==
  IF s >= nextId THEN "absent"
  ELSE IF Produced(s) THEN "done"
  ELSE IF Queued(s) THEN "active" ELSE "aborted"

(* The stages of all requests.                                             *)
Stages == [s \in SeqId |-> StageOf(s)]

(* The stages of the abstract specification, restated.                     *)
LEMMA StageIs == SchedTypeOK => RequestStage = Stages
<1> SUFFICES ASSUME SchedTypeOK PROVE RequestStage = Stages
  OBVIOUS
<1>1. Range(running \o waiting) = Range(running) \cup Range(waiting)
  BY RangeConcatenation DEF SchedTypeOK
<1> QED
  BY <1>1 DEF RequestStage, Stages, StageOf, Produced, Queued

(* Neither the histories nor the set of queued requests changes.           *)
Quiet ==
  /\ UNCHANGED <<tokens, numPrompt, maxTokens, ignoreEos, nextId, outputs, finished>>
  /\ \A s : Queued(s)' <=> Queued(s)

(* A quiet step cannot be seen from outside.                               *)
LEMMA QuietStep ==
  ASSUME SystemInv, SchedTypeOK', Quiet, OutputsOK
  PROVE  OutputsOK' /\ UNCHANGED <<RequestStage, Asked, Completion>>
<1>1. OutputsOK'
  <2>1. \A i \in DOMAIN outputs' : OutputOK(i)'
    BY DEF Quiet, OutputsOK, OutputOK
  <2>2. \A s \in finished' : Produced(s)'
    BY DEF Quiet, OutputsOK, Produced
  <2>3. \A s \in SeqId : s >= nextId' => numPrompt'[s] = 0 /\ maxTokens'[s] = 0 /\ ~ignoreEos'[s]
    BY DEF Quiet, OutputsOK
  <2> QED
    BY <2>1, <2>2, <2>3 DEF OutputsOK
<1>2. RequestStage = Stages
  BY StageIs DEF SystemInv, SchedInv
<1>3. (RequestStage = Stages)'
  BY StageIs, PTL
<1>4. \A s \in SeqId : StageOf(s)' = StageOf(s)
  BY DEF StageOf, Quiet, Produced
<1>5. UNCHANGED RequestStage
  BY <1>2, <1>3, <1>4 DEF Stages
<1>6. UNCHANGED <<Asked, Completion>>
  BY DEF Quiet, Asked, Completion
<1> QED
  BY <1>1, <1>5, <1>6

(* Planning a step, preemption, admission and rollback included, and       *)
(* executing it are quiet.                                                 *)
LEMMA PlanIsQuiet ==
  ASSUME SystemInv, PlanStep \/ ExecuteStep \/ UNCHANGED schedVars
  PROVE  Quiet
<1>0. SchedInv
  BY DEF SystemInv
<1>1. running \in Seq(SeqId) /\ waiting \in Seq(SeqId)
  BY <1>0, QueueTypes
<1>2. CASE BeginStep \/ AdmissionEnds \/ ExecuteStep \/ UNCHANGED schedVars
  BY <1>2 DEF BeginStep, AdmissionEnds, ExecuteStep, Execute, schedVars, poolVars, seqVars,
              callVars, Quiet, Queued
<1>3. CASE ScheduleRunning
  BY <1>3 DEF ScheduleRunning, poolVars, Quiet, Queued
<1>4. CASE CapturePlan
  BY <1>4 DEF CapturePlan, poolVars, Quiet, Queued
<1>5. CASE ReserveDecodeCache
  BY <1>5 DEF ReserveDecodeCache, MayAppendBatch, seqVars, callVars, Quiet, Queued
<1>6. CASE Preempt \/ RollbackLastAdmission
  <2>1. PICK s : s = Last(running)
    OBVIOUS
  <2>2. /\ running' = Front(running) /\ waiting' = <<s>> \o waiting
        /\ UNCHANGED <<tokens, numPrompt, maxTokens, ignoreEos, nextId, callVars>>
    BY <1>6, <2>1 DEF Preempt, RollbackLastAdmission, Requeue, DeallocateBatch
  <2>3. running # <<>>
    <3>1. CASE Preempt
      BY <1>0, <3>1, VictimExists DEF Preempt
    <3>2. CASE RollbackLastAdmission
      <4>1. Len(running) > runningBefore /\ runningBefore \in Nat
        BY <1>0, <3>2 DEF RollbackLastAdmission, SchedInv, SchedTypeOK
      <4> QED
        BY <4>1
    <3> QED
      BY <1>6, <3>1, <3>2
  <2>4. Range(running) = Range(running') \cup {s} /\ s \in SeqId
    BY <1>1, <2>1, <2>2, <2>3, FrontProperties
  <2>5. Range(waiting') = {s} \cup Range(waiting)
    BY <1>1, <2>2, <2>4, PushFrontProperties
  <2>6. \A r : Queued(r)' <=> Queued(r)
    BY <2>4, <2>5 DEF Queued
  <2> QED
    BY <2>2, <2>6 DEF Quiet, callVars
<1>7. CASE AdmitHead
  <2>1. PICK s : s = Head(waiting)
    OBVIOUS
  <2>2. /\ running' = Append(running, s) /\ waiting' = Tail(waiting) /\ waiting # <<>>
        /\ UNCHANGED <<tokens, numPrompt, maxTokens, ignoreEos, nextId, callVars>>
    BY <1>7, <2>1 DEF AdmitHead, CanAdmit, Admit, Allocate
  <2>3. Range(waiting) = {s} \cup Range(waiting') /\ s \in SeqId
    BY <1>1, <2>1, <2>2, PopProperties
  <2>4. Range(running') = Range(running) \cup {s}
    BY <1>1, <2>2, <2>3, PushBackProperties
  <2>5. \A r : Queued(r)' <=> Queued(r)
    BY <2>3, <2>4 DEF Queued
  <2> QED
    BY <2>2, <2>5 DEF Quiet, callVars
<1> QED
  BY <1>2, <1>3, <1>4, <1>5, <1>6, <1>7 DEF PlanStep
-----------------------------------------------------------------------------
(* Steps that can be seen.                                                 *)

(* Outputs name requests.                                                  *)
LEMMA OutputTypes ==
  ASSUME SchedTypeOK, NEW i \in DOMAIN outputs
  PROVE  outputs[i].request \in SeqId
<1>1. PICK S : S = [request : SeqId, completion : Seq(Token)]
  OBVIOUS
<1>2. outputs \in Seq(S)
  BY <1>1 DEF SchedTypeOK
<1>3. outputs[i] \in S
  BY <1>2, ElementOfSeq
<1> QED
  BY <1>1, <1>3

(* A request arrives.                                                      *)
LEMMA ArrivalIsAccept ==
  ASSUME SystemInv, SchedTypeOK', OutputsOK,
         NEW p \in Prompt, NEW m \in MaxTokens, NEW i \in BOOLEAN, AddRequest(p, m, i)
  PROVE  /\ OutputsOK'
         /\ \A s : Queued(s)' <=> Queued(s) \/ s = nextId
         /\ Gen!Accept(nextId, [prompt |-> p, max |-> m, ignoreEos |-> i])
<1> DEFINE r == [prompt |-> p, max |-> m, ignoreEos |-> i]
<1>0. SchedInv /\ SchedTypeOK
  BY DEF SystemInv, SchedInv
<1>1. PICK n : n = nextId
  OBVIOUS
<1>2. /\ n \in SeqId /\ tokens[n] = <<>>
      /\ tokens' = [tokens EXCEPT ![n] = p]
      /\ numPrompt' = [numPrompt EXCEPT ![n] = Len(p)]
      /\ maxTokens' = [maxTokens EXCEPT ![n] = m]
      /\ ignoreEos' = [ignoreEos EXCEPT ![n] = i]
      /\ waiting' = Append(waiting, n)
      /\ nextId' = n + 1
      /\ UNCHANGED <<running, outputs, finished>>
  BY <1>1 DEF AddRequest, NewSequence, callVars
<1>3. /\ waiting \in Seq(SeqId) /\ n \in Int /\ SeqId \subseteq Int
      /\ p \in Seq(Token)
  BY <1>0, <1>1, <1>2, QueueTypes, RequestTypes, PoolSizes
<1>4. Range(waiting') = Range(waiting) \cup {n}
  BY <1>2, <1>3, PushBackProperties
<1>5. \A s : Queued(s)' <=> Queued(s) \/ s = n
  BY <1>2, <1>4 DEF Queued
<1>6. \A j \in DOMAIN outputs : outputs[j].request \in SeqId /\ outputs[j].request < n
  BY <1>0, <1>1, OutputTypes DEF OutputsOK, OutputOK
<1>7. \A j \in DOMAIN outputs : outputs[j].request # n
  BY <1>3, <1>6
<1>8. /\ tokens \in [SeqId -> Seq(Token)] /\ numPrompt \in [SeqId -> Nat]
      /\ maxTokens \in [SeqId -> Nat] /\ ignoreEos \in [SeqId -> BOOLEAN]
  BY <1>0 DEF SchedTypeOK, PoolTypeOK
<1>9. \A s \in SeqId : s # n =>
        /\ tokens'[s] = tokens[s] /\ numPrompt'[s] = numPrompt[s]
        /\ maxTokens'[s] = maxTokens[s] /\ ignoreEos'[s] = ignoreEos[s]
  BY <1>2, <1>8
<1>10. /\ tokens'[n] = p /\ numPrompt'[n] = Len(p) /\ maxTokens'[n] = m /\ ignoreEos'[n] = i
       /\ numPrompt[n] = 0
  BY <1>1, <1>2, <1>3, <1>8 DEF OutputsOK
<1>11. OutputsOK'
  <2>1. ASSUME NEW j \in DOMAIN outputs PROVE OutputOK(j)'
    <3>1. OutputOK(j)
      BY DEF OutputsOK
    <3>2. PICK s \in SeqId : s = outputs[j].request
      BY <1>6
    <3>3. s # n /\ s < nextId'
      BY <1>2, <1>3, <1>6, <1>7, <3>2
    <3>4. Queued(s)' => s \in finished'
      BY <1>2, <1>5, <3>1, <3>2, <3>3 DEF OutputOK
    <3>5. tokens'[s] = tokens[s] /\ numPrompt'[s] = numPrompt[s]
      BY <1>9, <3>3
    <3> QED
      BY <1>2, <3>1, <3>2, <3>3, <3>4, <3>5 DEF OutputOK
  <2>2. \A s \in finished' : Produced(s)'
    BY <1>2 DEF OutputsOK, Produced
  <2>3. ASSUME NEW s \in SeqId, s >= nextId'
        PROVE  numPrompt'[s] = 0 /\ maxTokens'[s] = 0 /\ ~ignoreEos'[s]
    <3>1. s >= n /\ s # n
      BY <1>2, <1>3, <2>3
    <3> QED
      BY <1>1, <1>9, <3>1 DEF OutputsOK
  <2> QED
    BY <1>2, <2>1, <2>2, <2>3 DEF OutputsOK
<1>12. RequestStage[n] = "absent" /\ RequestStage' = [RequestStage EXCEPT ![n] = "active"]
  <2>1. RequestStage = Stages
    BY <1>0, StageIs
  <2>2. (RequestStage = Stages)'
    BY StageIs, PTL
  <2>3. StageOf(n) = "absent"
    BY <1>1, <1>3 DEF StageOf
  <2>4. StageOf(n)' = "active"
    <3>1. ~(n >= nextId')
      BY <1>2, <1>3
    <3>2. ~Produced(n)' /\ Queued(n)'
      BY <1>2, <1>5, <1>7 DEF Produced
    <3> QED
      BY <3>1, <3>2 DEF StageOf
  <2>5. ASSUME NEW s \in SeqId, s # n PROVE StageOf(s)' = StageOf(s)
    <3>1. s >= nextId' <=> s >= nextId
      BY <1>1, <1>2, <1>3, <2>5
    <3>2. Produced(s)' <=> Produced(s)
      BY <1>2 DEF Produced
    <3>3. Queued(s)' <=> Queued(s)
      BY <1>5, <2>5
    <3> QED
      BY <3>1, <3>2, <3>3 DEF StageOf
  <2> QED
    BY <1>2, <2>1, <2>2, <2>3, <2>4, <2>5 DEF Stages
<1>13. Asked' = [Asked EXCEPT ![n] = r]
  <2>1. SubSeq(p, 1, Len(p)) = p
    BY <1>3, SubSeqFull
  <2>2. Asked'[n] = r
    BY <1>2, <1>10, <2>1 DEF Asked
  <2>3. \A s \in SeqId : s # n => Asked'[s] = Asked[s]
    BY <1>9 DEF Asked
  <2>4. Asked' = [s \in SeqId |-> Asked'[s]] /\ Asked = [s \in SeqId |-> Asked[s]]
    BY DEF Asked
  <2> QED
    BY <1>2, <2>2, <2>3, <2>4
<1>14. UNCHANGED Completion
  <2>1. SubSeq(p, Len(p) + 1, Len(p)) = <<>> /\ SubSeq(tokens[n], 0 + 1, Len(tokens[n])) = <<>>
    <3>1. Len(p) \in Nat /\ Len(tokens[n]) = 0
      BY <1>2, <1>3
    <3> QED
      BY <1>2, <1>3, <3>1
  <2>2. Completion'[n] = Completion[n]
    BY <1>2, <1>10, <2>1 DEF Completion
  <2>3. \A s \in SeqId : s # n => Completion'[s] = Completion[s]
    BY <1>9 DEF Completion
  <2>4. Completion' = [s \in SeqId |-> Completion'[s]] /\ Completion = [s \in SeqId |-> Completion[s]]
    BY DEF Completion
  <2> QED
    BY <2>2, <2>3, <2>4
<1> QED
  BY <1>1, <1>5, <1>11, <1>12, <1>13, <1>14 DEF Gen!Accept

(* One sequence of a result: a token is generated, or the chunk of a       *)
(* prefill was not the last one and nothing is seen.                       *)
LEMMA HistoryGrowsByOne ==
  ASSUME NEW T, NEW h \in Seq(T), NEW t \in T, NEW m \in Nat, m <= Len(h)
  PROVE  /\ Len(h \o <<t>>) = Len(h) + 1
         /\ SubSeq(h \o <<t>>, 1, m) = SubSeq(h, 1, m)
         /\ Len(SubSeq(h, m + 1, Len(h))) = Len(h) - m
         /\ SubSeq(h \o <<t>>, m + 1, Len(h \o <<t>>)) = Append(SubSeq(h, m + 1, Len(h)), t)
<1> DEFINE g == h \o <<t>>
           n == Len(h)
           d == SubSeq(h, m + 1, n)
           e == SubSeq(g, m + 1, n + 1)
<1>1. n \in Nat /\ m <= n /\ \A i \in 1 .. n : h[i] \in T
  OBVIOUS
<1>2. /\ g \in Seq(T) /\ Len(g) = n + 1 /\ g[n + 1] = t
      /\ \A i \in 1 .. n : g[i] = h[i]
  <2>1. <<t>> \in Seq(T) /\ Len(<<t>>) = 1 /\ <<t>>[1] = t
    OBVIOUS
  <2>2. g \in Seq(T) /\ Len(g) = n + 1 /\ \A i \in 1 .. n + 1 : g[i] = IF i <= n THEN h[i] ELSE <<t>>[i - n]
    BY <2>1, ConcatProperties
  <2>3. n + 1 \in 1 .. n + 1 /\ ~(n + 1 <= n) /\ (n + 1) - n = 1
    BY <1>1
  <2> QED
    BY <1>1, <2>1, <2>2, <2>3
<1>3. SubSeq(g, 1, m) = SubSeq(h, 1, m)
  <2>2. m \in 0 .. n
    BY <1>1
  <2>3. \A i \in 1 .. m : g[i] \in T /\ h[i] \in T /\ g[i] = h[i]
    BY <1>1, <1>2
  <2>4. /\ SubSeq(g, 1, m) \in Seq(T) /\ Len(SubSeq(g, 1, m)) = m
        /\ \A i \in 1 .. m : SubSeq(g, 1, m)[i] = g[i]
    BY <1>2, <2>2, <2>3
  <2>5. /\ SubSeq(h, 1, m) \in Seq(T) /\ Len(SubSeq(h, 1, m)) = m
        /\ \A i \in 1 .. m : SubSeq(h, 1, m)[i] = h[i]
    BY <1>1, <2>2, <2>3
  <2> QED
    BY <2>3, <2>4, <2>5, SeqEqual
<1>4. /\ d \in Seq(T) /\ Len(d) = n - m /\ \A i \in 1 .. n - m : d[i] = h[m + i]
  <2>1. \A i \in m + 1 .. n : h[i] \in T
    BY <1>1
  <2> QED
    BY <1>1, <2>1
<1>5. /\ e \in Seq(T) /\ Len(e) = n - m + 1 /\ \A i \in 1 .. n - m + 1 : e[i] = g[m + i]
  <2>1. \A i \in m + 1 .. n + 1 : g[i] \in T
    BY <1>1, <1>2
  <2> QED
    BY <1>1, <1>2, <2>1
<1> HIDE DEF g, n, d, e
<1>6. e = Append(d, t)
  <2>1. PICK a : a = Append(d, t)
    OBVIOUS
  <2>2. a \in Seq(T) /\ Len(a) = n - m + 1 /\ a[n - m + 1] = t /\ \A i \in 1 .. n - m : a[i] = d[i]
    BY <1>1, <1>4, <2>1, AppendProperties
  <2>3. ASSUME NEW i \in 1 .. n - m + 1 PROVE e[i] = a[i]
    <3>1. CASE i = n - m + 1
      <4>1. m + i = n + 1
        BY <1>1, <3>1
      <4> QED
        BY <1>2, <1>5, <2>2, <3>1, <4>1
    <3>2. CASE i # n - m + 1
      <4>1. i \in 1 .. n - m /\ m + i \in 1 .. n
        BY <1>1, <3>2
      <4> QED
        BY <1>2, <1>4, <1>5, <2>2, <4>1
    <3> QED
      BY <3>1, <3>2
  <2> QED
    BY <1>5, <2>1, <2>2, <2>3, SeqEqual
<1> QED
  BY <1>2, <1>3, <1>4, <1>6 DEF g, n, d, e

(* Applying one result is a step of Generation, or cannot be seen.         *)
LEMMA ResultIsGenerated ==
  ASSUME SystemInv, SchedTypeOK', OutputsOK, ApplyOne
  PROVE  /\ OutputsOK'
         /\ \A s : Queued(s)' <=> Queued(s)
         /\ \/ outputs' = outputs
            \/ \E e \in [request : Range(running), completion : Seq(Token)] :
                 outputs' = Append(outputs, e)
         /\ \/ UNCHANGED <<RequestStage, Asked, Completion>>
            \/ \E s \in SeqId, t \in Token : Gen!Generate(s, t)
<1>0. SchedInv /\ SchedTypeOK /\ pc = "apply" /\ applied < Len(inFlight)
  BY DEF SystemInv, SchedInv, ApplyOne
<1>1. PICK k : k = applied + 1
  OBVIOUS
<1>2. PICK p : p = inFlight[k]
  OBVIOUS
<1>3. PICK s : s = p.id
  OBVIOUS
<1>4. PICK L : L = Len(tokens[s])
  OBVIOUS
<1>5. /\ s \in SeqId /\ s \in Range(running) /\ s \notin finished
      /\ result[k] \in Sampled /\ (result[k] # <<>>) = p.sampling
      /\ LengthsOK(s) /\ L < numPrompt[s] + maxTokens[s]
  BY <1>0, <1>1, <1>2, <1>3, <1>4, NextEntry
<1>6. PICK stops : stops = (p.sampling /\ Stops(s, L + 1 - numPrompt[s], result[k][1]))
  OBVIOUS
<1>7. /\ tokens' = [tokens EXCEPT ![s] = @ \o result[k]]
      /\ finished' = finished \cup {r \in {s} : stops}
      /\ outputs' = IF stops
                    THEN Append(outputs, [request |-> s,
                           completion |-> SubSeq(tokens'[s], numPrompt[s] + 1, Len(tokens'[s]))])
                    ELSE outputs
      /\ UNCHANGED <<numPrompt, maxTokens, ignoreEos, waiting, running, nextId>>
  <2>1. tokens' = [tokens EXCEPT ![s] = @ \o result[k]]
        /\ UNCHANGED <<numPrompt, maxTokens, ignoreEos, waiting, running, nextId>>
    BY <1>1, <1>2, <1>3 DEF ApplyOne
  <2>2. finished' = finished \cup {r \in {s} : stops}
    BY <1>1, <1>2, <1>3, <1>4, <1>6, Zenon DEF ApplyOne
  <2>3. outputs' = IF stops
                    THEN Append(outputs, [request |-> s,
                           completion |-> SubSeq(tokens'[s], numPrompt[s] + 1, Len(tokens'[s]))])
                    ELSE outputs
    <3>1. outputs' = IF p.sampling /\ Stops(s, L + 1 - numPrompt[s], result[k][1])
                     THEN Append(outputs, [request |-> s,
                            completion |-> SubSeq(tokens'[s], numPrompt[s] + 1, Len(tokens'[s]))])
                     ELSE outputs
      BY <1>1, <1>2, <1>3, <1>4 DEF ApplyOne
    <3> QED
      BY <1>6, <3>1
  <2> QED
    BY <2>1, <2>2, <2>3
<1>8. \A r : Queued(r)' <=> Queued(r)
  BY <1>7 DEF Queued
<1>9. /\ tokens \in [SeqId -> Seq(Token)] /\ numPrompt[s] \in Nat /\ maxTokens[s] \in Nat
      /\ tokens[s] \in Seq(Token) /\ L \in Nat /\ numPrompt[s] <= L
      /\ s \in Int /\ nextId \in Int
  <2>1. numPrompt[s] \in 1 .. Len(tokens[s])
    BY <1>5 DEF LengthsOK
  <2>2. tokens[s] \in Seq(Token) /\ numPrompt[s] \in Nat /\ maxTokens[s] \in Nat /\ s \in Nat \ {0}
    BY <1>0, <1>5, RequestTypes
  <2>3. tokens \in [SeqId -> Seq(Token)] /\ nextId \in Nat
    BY <1>0 DEF SchedTypeOK, PoolTypeOK
  <2>4. L \in Nat /\ numPrompt[s] <= L
    BY <1>4, <2>1, <2>2
  <2> QED
    BY <2>2, <2>3, <2>4
<1>10. Queued(s) /\ s < nextId
  BY <1>0, <1>5 DEF Queued, SchedInv, Ordered
<1>11. ~Produced(s)
  BY <1>5, <1>10 DEF OutputsOK, OutputOK, Produced
<1>12. \A r \in SeqId : r # s => tokens'[r] = tokens[r]
  BY <1>7, <1>9
<1>13. tokens'[s] = tokens[s] \o result[k]
  BY <1>5, <1>7, <1>9
<1>14. CASE result[k] = <<>>
  <2>1. ~stops
    BY <1>5, <1>6, <1>14
  <2>2. tokens' = tokens
    <3>1. tokens[s] \o <<>> = tokens[s]
      BY <1>9, ConcatEmptySeq
    <3> QED
      BY <1>7, <1>9, <1>14, <3>1
  <2>3. outputs' = outputs /\ finished' = finished
    BY <1>7, <2>1
  <2>4. Quiet
    BY <1>7, <1>8, <2>2, <2>3 DEF Quiet
  <2> QED
    BY <1>8, <2>3, <2>4, QuietStep
<1>15. CASE result[k] # <<>>
  <2>1. PICK t \in Token : result[k] = <<t>>
    BY <1>5, <1>15 DEF Sampled
  <2>2. PICK m : m = numPrompt[s]
    OBVIOUS
  <2>3. /\ Len(tokens'[s]) = L + 1
        /\ SubSeq(tokens'[s], 1, m) = SubSeq(tokens[s], 1, m)
        /\ Len(SubSeq(tokens[s], m + 1, L)) = L - m
        /\ SubSeq(tokens'[s], m + 1, Len(tokens'[s])) = Append(SubSeq(tokens[s], m + 1, L), t)
    <3>1. PICK h \in Seq(Token) : h = tokens[s]
      BY <1>9
    <3>2. m \in Nat /\ m <= Len(h) /\ L = Len(h) /\ tokens'[s] = h \o <<t>>
      BY <1>4, <1>9, <1>13, <2>1, <2>2, <3>1
    <3>3. /\ Len(h \o <<t>>) = Len(h) + 1
          /\ SubSeq(h \o <<t>>, 1, m) = SubSeq(h, 1, m)
          /\ Len(SubSeq(h, m + 1, Len(h))) = Len(h) - m
          /\ SubSeq(h \o <<t>>, m + 1, Len(h \o <<t>>)) = Append(SubSeq(h, m + 1, Len(h)), t)
      BY <3>2, HistoryGrowsByOne
    <3> QED
      BY <3>1, <3>2, <3>3, Zenon
  <2>4. Completion'[s] = Append(Completion[s], t) /\ Len(Completion[s]) = L - m
    BY <1>4, <1>5, <1>7, <2>2, <2>3 DEF Completion
  <2>5. \A r \in SeqId : r # s => Completion'[r] = Completion[r] /\ Asked'[r] = Asked[r]
    <3> SUFFICES ASSUME NEW r \in SeqId, r # s
                 PROVE  Completion'[r] = Completion[r] /\ Asked'[r] = Asked[r]
      OBVIOUS
    <3>1. tokens'[r] = tokens[r] /\ UNCHANGED <<numPrompt, maxTokens, ignoreEos>>
      BY <1>7, <1>12
    <3> QED
      BY <3>1 DEF Completion, Asked
  <2>6. Asked'[s] = Asked[s] /\ Asked[s].max = maxTokens[s] /\ Asked[s].ignoreEos = ignoreEos[s]
    BY <1>5, <1>7, <2>2, <2>3 DEF Asked
  <2>7. stops <=> L + 1 - m >= maxTokens[s] \/ (t \in EosTokens /\ ~ignoreEos[s])
    <3>0. p.sampling
      BY <1>5, <1>15
    <3>1. result[k][1] = t
      BY <2>1
    <3> QED
      BY <1>6, <2>2, <3>0, <3>1 DEF Stops
  <2>8. stops <=> Gen!IsLast(s, t)
    <3>1. L + 1 - m >= maxTokens[s] <=> (L - m) + 1 = maxTokens[s]
      BY <1>5, <1>9, <2>2
    <3> QED
      BY <2>4, <2>6, <2>7, <3>1 DEF Gen!IsLast
  <2>9. PICK e : e = [request |-> s, completion |-> Completion'[s]]
    OBVIOUS
  <2>10. outputs' = IF stops THEN Append(outputs, e) ELSE outputs
    BY <1>5, <1>7, <2>9 DEF Completion
  <2>11. PICK S : S = [request : SeqId, completion : Seq(Token)]
    OBVIOUS
  <2>12. outputs \in Seq(S) /\ e \in S /\ e \in [request : Range(running), completion : Seq(Token)]
    <3>1. Completion'[s] \in Seq(Token)
      <4>1. tokens'[s] \in Seq(Token)
        BY <1>5 DEF SchedTypeOK, PoolTypeOK
      <4>2. m + 1 \in Nat /\ Len(tokens'[s]) \in Nat /\ \A i \in m + 1 .. Len(tokens'[s]) : tokens'[s][i] \in Token
        BY <1>9, <2>2, <4>1
      <4>3. SubSeq(tokens'[s], m + 1, Len(tokens'[s])) \in Seq(Token)
        BY <4>2, SubSeqProperties
      <4> QED
        BY <1>5, <1>7, <2>2, <4>3 DEF Completion
    <3> QED
      BY <1>0, <1>5, <2>9, <2>11, <3>1 DEF SchedTypeOK
  <2>13. /\ DOMAIN outputs = 1 .. Len(outputs) /\ Len(outputs) \in Nat
         /\ stops => /\ DOMAIN outputs' = 1 .. Len(outputs) + 1
                     /\ outputs'[Len(outputs) + 1] = e
         /\ \A i \in DOMAIN outputs : i \in DOMAIN outputs' /\ outputs'[i] = outputs[i]
    BY <2>10, <2>12
  <2>14. \A i \in DOMAIN outputs' :
           \/ i \in DOMAIN outputs /\ outputs'[i] = outputs[i]
           \/ stops /\ i = Len(outputs) + 1 /\ outputs'[i] = e
    BY <2>10, <2>13
  <2>15. \A r : Produced(r)' <=> Produced(r) \/ (stops /\ r = s)
    <3>1. e.request = s
      BY <2>9
    <3>2. stops => Len(outputs) + 1 \in DOMAIN outputs'
      BY <2>13
    <3> QED
      BY <2>13, <2>14, <3>1, <3>2 DEF Produced
  <2>16. OutputsOK'
    <3>1. ASSUME NEW i \in DOMAIN outputs' PROVE OutputOK(i)'
      <4>1. CASE i \in DOMAIN outputs /\ outputs'[i] = outputs[i]
        <5>1. OutputOK(i)
          BY <4>1 DEF OutputsOK
        <5>2. PICK r \in SeqId : r = outputs[i].request
          BY <1>0, <4>1, OutputTypes
        <5>3. r # s
          BY <1>11, <4>1, <5>2 DEF Produced
        <5>4. \A j \in DOMAIN outputs' : outputs'[j].request = r => j = i
          BY <2>9, <2>14, <5>1, <5>2, <5>3 DEF OutputOK
        <5>5. r < nextId' /\ (Queued(r)' => r \in finished')
          BY <1>7, <1>8, <5>1, <5>2 DEF OutputOK
        <5>6. tokens'[r] = tokens[r]
          BY <1>12, <5>3
        <5> QED
          BY <1>7, <4>1, <5>1, <5>2, <5>4, <5>5, <5>6 DEF OutputOK
      <4>2. CASE stops /\ i = Len(outputs) + 1 /\ outputs'[i] = e
        <5>1. outputs'[i].request = s /\ outputs'[i].completion = Completion'[s]
          BY <2>9, <4>2
        <5>2. \A j \in DOMAIN outputs' : outputs'[j].request = s => j = i
          BY <1>11, <2>14, <4>2 DEF Produced
        <5>3. s < nextId' /\ s \in finished'
          BY <1>7, <1>10, <4>2
        <5>4. Completion'[s] = SubSeq(tokens'[s], numPrompt'[s] + 1, Len(tokens'[s]))
          BY <1>5 DEF Completion
        <5> QED
          BY <5>1, <5>2, <5>3, <5>4 DEF OutputOK
      <4> QED
        BY <2>14, <3>1, <4>1, <4>2
    <3>2. \A r \in finished' : Produced(r)'
      BY <1>7, <2>15 DEF OutputsOK
    <3>3. \A r \in SeqId : r >= nextId' => numPrompt'[r] = 0 /\ maxTokens'[r] = 0 /\ ~ignoreEos'[r]
      BY <1>7 DEF OutputsOK
    <3> QED
      BY <3>1, <3>2, <3>3 DEF OutputsOK
  <2>17. RequestStage[s] = "active"
         /\ RequestStage' = [RequestStage EXCEPT ![s] = IF stops THEN "done" ELSE @]
    <3>1. RequestStage = Stages
      BY <1>0, StageIs
    <3>2. (RequestStage = Stages)'
      BY StageIs, PTL
    <3>3. StageOf(s) = "active"
      BY <1>9, <1>10, <1>11 DEF StageOf
    <3>4. StageOf(s)' = IF stops THEN "done" ELSE "active"
      BY <1>7, <1>8, <1>9, <1>10, <1>11, <2>15 DEF StageOf
    <3>5. \A r \in SeqId : r # s => StageOf(r)' = StageOf(r)
      BY <1>7, <1>8, <2>15 DEF StageOf
    <3> QED
      BY <1>5, <3>1, <3>2, <3>3, <3>4, <3>5 DEF Stages
  <2>18. Completion' = [Completion EXCEPT ![s] = Append(@, t)] /\ Asked' = Asked
    <3>1. /\ Completion' = [r \in SeqId |-> Completion'[r]] /\ Completion = [r \in SeqId |-> Completion[r]]
          /\ Asked' = [r \in SeqId |-> Asked'[r]] /\ Asked = [r \in SeqId |-> Asked[r]]
      BY DEF Completion, Asked
    <3> QED
      BY <1>5, <2>4, <2>5, <2>6, <3>1
  <2>19. Gen!Generate(s, t)
    BY <2>8, <2>17, <2>18 DEF Gen!Generate
  <2> QED
    BY <1>5, <1>8, <2>1, <2>10, <2>12, <2>16, <2>19
<1> QED
  BY <1>14, <1>15

(* The finished requests leave; their outputs were given before.           *)
LEMMA LeavingIsUnseen ==
  ASSUME SystemInv, SchedTypeOK', OutputsOK, ApplyEnds
  PROVE  /\ OutputsOK'
         /\ \A s : Queued(s)' <=> Queued(s) /\ s \notin finished
         /\ UNCHANGED <<RequestStage, Asked, Completion>>
<1>0. SchedInv /\ SchedTypeOK /\ finished \subseteq Range(running)
  BY DEF SystemInv, SchedInv, PlanOK
<1>1. /\ running' = Retain(running, SeqId \ finished) /\ finished' = {}
      /\ UNCHANGED <<numPrompt, maxTokens, ignoreEos, waiting, nextId, outputs>>
  BY DEF ApplyEnds, ReturnFromStep
<1>2. tokens' = tokens
  BY DEF ApplyEnds, DeallocateBatch, poolVars
<1>3. Range(running') = Range(running) \cap (SeqId \ finished)
  <2>1. running \in Seq(SeqId)
    BY <1>0, QueueTypes
  <2>2. Range(Retain(running, SeqId \ finished)) = Range(running) \cap (SeqId \ finished)
    BY <2>1, RetainProperties, Zenon
  <2> QED
    BY <1>1, <2>2
<1>4. \A s : Queued(s)' <=> Queued(s) /\ s \notin finished
  <2>1. Range(running) \subseteq SeqId /\ Range(running) \cap Range(waiting) = {}
    BY <1>0, QueueTypes
  <2> QED
    BY <1>0, <1>1, <1>3, <2>1 DEF Queued
<1>5. \A s : Produced(s)' <=> Produced(s)
  BY <1>1 DEF Produced
<1>6. OutputsOK'
  <2>1. \A i \in DOMAIN outputs' : OutputOK(i)'
    BY <1>1, <1>2, <1>4 DEF OutputsOK, OutputOK
  <2>2. \A s \in SeqId : s >= nextId' => numPrompt'[s] = 0 /\ maxTokens'[s] = 0 /\ ~ignoreEos'[s]
    BY <1>1 DEF OutputsOK
  <2> QED
    BY <1>1, <2>1, <2>2 DEF OutputsOK
<1>7. UNCHANGED RequestStage
  <2>1. RequestStage = Stages
    BY <1>0, StageIs
  <2>2. (RequestStage = Stages)'
    BY StageIs, PTL
  <2>3. \A s \in SeqId : StageOf(s)' = StageOf(s)
    BY <1>1, <1>4, <1>5 DEF StageOf, OutputsOK
  <2> QED
    BY <2>1, <2>2, <2>3 DEF Stages
<1>8. UNCHANGED <<Asked, Completion>>
  BY <1>1, <1>2 DEF Asked, Completion
<1> QED
  BY <1>4, <1>6, <1>7, <1>8

(* abort_all_requests ends every request that has no output yet.           *)
LEMMA AbortIsAbort ==
  ASSUME SystemInv, SchedTypeOK', OutputsOK, AbortAllRequests
  PROVE  /\ OutputsOK'
         /\ \A s : ~Queued(s)'
         /\ Gen!Abort
<1>0. SchedInv /\ SchedTypeOK
  BY DEF SystemInv, SchedInv
<1>1. /\ running' = <<>> /\ waiting' = <<>> /\ finished' = {}
      /\ UNCHANGED <<numPrompt, maxTokens, ignoreEos, nextId, outputs>>
  BY DEF AbortAllRequests, ReturnFromStep
<1>2. tokens' = tokens
  BY DEF AbortAllRequests, DeallocateBatch, poolVars
<1>3. \A s : ~Queued(s)'
  BY <1>1 DEF Queued, Range
<1>4. \A s : Produced(s)' <=> Produced(s)
  BY <1>1 DEF Produced
<1>5. OutputsOK'
  <2>1. \A i \in DOMAIN outputs' : OutputOK(i)'
    BY <1>1, <1>2, <1>3 DEF OutputsOK, OutputOK
  <2>2. \A s \in SeqId : s >= nextId' => numPrompt'[s] = 0 /\ maxTokens'[s] = 0 /\ ~ignoreEos'[s]
    BY <1>1 DEF OutputsOK
  <2> QED
    BY <1>1, <2>1, <2>2 DEF OutputsOK
<1>6. RequestStage' = [s \in SeqId |->
                         IF RequestStage[s] = "active" THEN "aborted" ELSE RequestStage[s]]
  <2>1. RequestStage = Stages
    BY <1>0, StageIs
  <2>2. (RequestStage = Stages)'
    BY StageIs, PTL
  <2>3. \A s \in SeqId : StageOf(s)' = IF StageOf(s) = "active" THEN "aborted" ELSE StageOf(s)
    BY <1>1, <1>3, <1>4 DEF StageOf
  <2> QED
    BY <2>1, <2>2, <2>3 DEF Stages
<1>7. UNCHANGED <<Asked, Completion>>
  BY <1>1, <1>2 DEF Asked, Completion
<1> QED
  BY <1>3, <1>5, <1>6, <1>7 DEF Gen!Abort
-----------------------------------------------------------------------------
(* The initial states are initial states of Generation.                    *)
LEMMA GenStarts == SchedInit => GenInv /\ Gen!GenInit
<1> SUFFICES ASSUME SchedInit PROVE GenInv /\ Gen!GenInit
  OBVIOUS
<1>1. SystemInv /\ SchedTypeOK
  BY SystemInit DEF SystemInv, SchedInv
<1>2. /\ outputs = <<>> /\ finished = {} /\ nextId = 1
      /\ numPrompt = [s \in SeqId |-> 0] /\ maxTokens = [s \in SeqId |-> 0]
      /\ ignoreEos = [s \in SeqId |-> FALSE] /\ tokens = [s \in SeqId |-> <<>>]
  BY DEF SchedInit, PoolInit
<1>3. OutputsOK
  BY <1>2 DEF OutputsOK
<1>4. RequestStage = [s \in SeqId |-> "absent"]
  <2>1. \A s \in SeqId : s \in Nat \ {0}
    BY <1>1, RequestTypes
  <2>2. \A s \in SeqId : s >= nextId
    BY <1>2, <2>1
  <2> QED
    BY <2>2 DEF RequestStage
<1>5. \A s \in SeqId : SubSeq(tokens[s], 1, numPrompt[s]) = <<>>
                       /\ SubSeq(tokens[s], numPrompt[s] + 1, Len(tokens[s])) = <<>>
  BY <1>2
<1>6. Asked = [s \in SeqId |-> Gen!NoRequest] /\ Completion = [s \in SeqId |-> <<>>]
  BY <1>2, <1>5 DEF Asked, Completion, Gen!NoRequest
<1> QED
  BY <1>1, <1>3, <1>4, <1>6 DEF GenInv, Gen!GenInit

(* Every step of the scheduler is a step of Generation or cannot be seen.  *)
LEMMA GenSteps ==
  GenInv /\ [SchedNext]_schedVars => GenInv' /\ [Gen!GenNext]_<<RequestStage, Asked, Completion>>
<1> SUFFICES ASSUME GenInv, [SchedNext]_schedVars
             PROVE  GenInv' /\ [Gen!GenNext]_<<RequestStage, Asked, Completion>>
  OBVIOUS
<1>0. SystemInv /\ OutputsOK
  BY DEF GenInv
<1>1. SystemInv' /\ SchedTypeOK'
  BY <1>0, SystemStep DEF SystemInv, SchedInv
<1>2. ASSUME NEW p \in Prompt, NEW m \in MaxTokens, NEW i \in BOOLEAN, AddRequest(p, m, i)
      PROVE  OutputsOK' /\ Gen!GenNext
  <2>1. nextId \in SeqId
    BY <1>2 DEF AddRequest
  <2>2. OutputsOK' /\ Gen!Accept(nextId, [prompt |-> p, max |-> m, ignoreEos |-> i])
    BY <1>0, <1>1, <1>2, ArrivalIsAccept
  <2> QED
    BY <2>1, <2>2 DEF Gen!GenNext
<1>3. CASE PlanStep \/ ExecuteStep \/ UNCHANGED schedVars
  BY <1>0, <1>1, <1>3, PlanIsQuiet, QuietStep DEF GenInv
<1>4. CASE ApplyOne
  BY <1>0, <1>1, <1>4, ResultIsGenerated DEF GenInv, Gen!GenNext
<1>5. CASE ApplyEnds
  BY <1>0, <1>1, <1>5, LeavingIsUnseen DEF GenInv
<1>6. CASE AbortAllRequests
  BY <1>0, <1>1, <1>6, AbortIsAbort DEF GenInv, Gen!GenNext
<1> QED
  BY <1>1, <1>2, <1>3, <1>4, <1>5, <1>6 DEF SchedNext, ApplyStep, GenInv

(* Batching, chunked prefill, preemption with recomputation, prefix        *)
(* sharing and rollback are invisible: each request's history grows by one *)
(* sampled token at a time and stops at max_tokens or an end of sequence   *)
(* token, neither earlier nor later, or the request is aborted.            *)
THEOREM SchedulerImplementsGeneration == SchedSpec => ImplementsGeneration
<1>1. SchedInit => Gen!GenInit
  BY GenStarts
<1>2. GenInv /\ [SchedNext]_schedVars => [Gen!GenNext]_(Gen!genVars)
  BY GenSteps DEF Gen!genVars
<1> QED
  BY <1>1, <1>2, GenStarts, GenSteps, PTL DEF SchedSpec, ImplementsGeneration, Gen!GenSpec

(* The engine's steps are the scheduler's, so the same holds of every      *)
(* sequence of generate calls, failed ones included.                       *)
THEOREM EngineImplementsGeneration == EngineSpec => ImplementsGeneration
<1>1. EngineInit => GenInv /\ Gen!GenInit
  BY GenStarts DEF EngineInit
<1>2. EngineInv /\ [EngineNext]_vars => [SchedNext]_schedVars
  BY StepUsesScheduler
<1>3. GenInv /\ [SchedNext]_schedVars => [Gen!GenNext]_(Gen!genVars)
  BY GenSteps DEF Gen!genVars
<1>4. GenInv /\ [SchedNext]_schedVars => GenInv'
  BY GenSteps
<1> QED
  BY <1>1, <1>2, <1>3, <1>4, EngineStarts, EngineSteps, PTL
     DEF EngineSpec, ImplementsGeneration, Gen!GenSpec
-----------------------------------------------------------------------------
(* The outputs of a call.                                                  *)

(* A call is in progress, or has returned.                                 *)
Collecting == call \in {"submit", "loop", "returned"}

(* Steps that neither add requests nor return outputs.                     *)
LEMMA CallKept ==
  ASSUME CallOutputs, Collecting' => Collecting,
         UNCHANGED <<requestIds, callStart, nextId, outputs>>,
         Collecting' => \A s \in SeqId : Queued(s)' <=> Queued(s)
  PROVE  CallOutputs'
<1>1. callStart' \in Nat /\ callStart' <= Len(outputs') /\ requestIds' \in Seq(SeqId)
  BY DEF CallOutputs
<1>2. ASSUME Collecting'
      PROVE  /\ NoDuplicates(requestIds')
             /\ \A s \in Range(requestIds') : s < nextId'
             /\ \A i \in DOMAIN outputs' : i <= callStart' => outputs'[i].request \notin Range(requestIds')
             /\ \A s \in SeqId : s \in Range(requestIds') <=> Queued(s)' \/ ProducedInCall(s)'
  <2>1. /\ NoDuplicates(requestIds)
        /\ \A s \in Range(requestIds) : s < nextId
        /\ \A i \in DOMAIN outputs : i <= callStart => outputs[i].request \notin Range(requestIds)
        /\ \A s \in SeqId : s \in Range(requestIds) <=> Queued(s) \/ ProducedInCall(s)
    BY <1>2 DEF CallOutputs, Collecting
  <2>2. \A s : ProducedInCall(s)' <=> ProducedInCall(s)
    BY DEF ProducedInCall
  <2> QED
    BY <1>2, <2>1, <2>2
<1> QED
  BY <1>1, <1>2 DEF CallOutputs, Collecting

(* A new call starts with no request of its own.                           *)
LEMMA CallBegins ==
  ASSUME SystemInv, CallOutputs, NEW n, BeginCall(n)
  PROVE  CallOutputs'
<1>1. /\ running = <<>> /\ waiting = <<>> /\ requestIds' = <<>> /\ callStart' = Len(outputs)
      /\ UNCHANGED <<running, waiting, outputs, nextId>>
  BY DEF BeginCall, IsRunning, schedVars, callVars
<1>2. \A s : ~Queued(s)'
  BY <1>1 DEF Queued, Range
<1>3. Len(outputs) \in Nat /\ DOMAIN outputs = 1 .. Len(outputs)
  <2>1. PICK S : outputs \in Seq(S)
    BY DEF SystemInv, SchedInv, SchedTypeOK
  <2> QED
    BY <2>1
<1>4. \A s : ~ProducedInCall(s)'
  BY <1>1, <1>3 DEF ProducedInCall
<1>5. Range(requestIds') = {} /\ NoDuplicates(requestIds') /\ requestIds' \in Seq(SeqId)
  BY <1>1 DEF Range, NoDuplicates
<1> QED
  BY <1>1, <1>2, <1>3, <1>4, <1>5 DEF CallOutputs

(* A submitted request belongs to the call and is queued.                  *)
LEMMA CallSubmits ==
  ASSUME SystemInv, SchedTypeOK', OutputsOK, CallOutputs,
         NEW p \in Prompt, NEW m \in MaxTokens, NEW i \in BOOLEAN, Submit(p, m, i)
  PROVE  CallOutputs'
<1>0. AddRequest(p, m, i) /\ call = "submit" /\ SchedTypeOK
  BY DEF Submit, SystemInv, SchedInv
<1>1. PICK n : n = nextId
  OBVIOUS
<1>2. /\ n \in SeqId /\ nextId' = n + 1 /\ outputs' = outputs
      /\ requestIds' = Append(requestIds, n) /\ callStart' = callStart
  BY <1>0, <1>1 DEF Submit, AddRequest, callVars
<1>3. \A s : Queued(s)' <=> Queued(s) \/ s = n
  BY <1>0, <1>1, ArrivalIsAccept
<1>4. n \in Int /\ SeqId \subseteq Int
  BY <1>0, <1>2, RequestTypes
<1>5. /\ requestIds \in Seq(SeqId) /\ NoDuplicates(requestIds)
      /\ \A s \in Range(requestIds) : s < n
      /\ \A j \in DOMAIN outputs : j <= callStart => outputs[j].request \notin Range(requestIds)
      /\ \A s \in SeqId : s \in Range(requestIds) <=> Queued(s) \/ ProducedInCall(s)
  BY <1>0, <1>1 DEF CallOutputs
<1>6. Range(requestIds) \subseteq SeqId
  BY <1>5 DEF Range
<1>7. n \notin Range(requestIds)
  BY <1>4, <1>5
<1>8. /\ requestIds' \in Seq(SeqId) /\ Range(requestIds') = Range(requestIds) \cup {n}
      /\ Len(requestIds') = Len(requestIds) + 1
      /\ \A j \in 1 .. Len(requestIds) : requestIds'[j] = requestIds[j]
      /\ requestIds'[Len(requestIds) + 1] = n
  BY <1>2, <1>5, PushBackProperties
<1>9. NoDuplicates(requestIds')
  <2>1. PICK l : l = Len(requestIds)
    OBVIOUS
  <2>2. /\ l \in Nat /\ DOMAIN requestIds = 1 .. l /\ DOMAIN requestIds' = 1 .. l + 1
        /\ \A j \in 1 .. l : requestIds'[j] = requestIds[j] /\ requestIds'[j] # n
        /\ requestIds'[l + 1] = n
    BY <1>5, <1>7, <1>8, <2>1 DEF Range
  <2>3. \A j \in 1 .. l + 1 : j \in 1 .. l \/ j = l + 1
    BY <2>2
  <2> QED
    BY <1>5, <2>2, <2>3 DEF NoDuplicates
<1>10. \A s \in Range(requestIds') : s < nextId'
  <2> SUFFICES ASSUME NEW s \in Range(requestIds') PROVE s < n + 1
    BY <1>2
  <2>1. s \in Int /\ (s < n \/ s = n)
    BY <1>4, <1>5, <1>6, <1>8
  <2> QED
    BY <1>4, <2>1
<1>11. \A j \in DOMAIN outputs : outputs[j].request \in SeqId /\ outputs[j].request < n
  BY <1>0, <1>1, OutputTypes DEF OutputsOK, OutputOK
<1>12. \A j \in DOMAIN outputs' : j <= callStart' => outputs'[j].request \notin Range(requestIds')
  BY <1>2, <1>4, <1>5, <1>8, <1>11
<1>13. \A s : ProducedInCall(s)' <=> ProducedInCall(s)
  BY <1>2 DEF ProducedInCall
<1>14. \A s \in SeqId : s \in Range(requestIds') <=> Queued(s)' \/ ProducedInCall(s)'
  BY <1>3, <1>5, <1>8, <1>13
<1> QED
  BY <1>2, <1>8, <1>9, <1>10, <1>12, <1>14 DEF CallOutputs

(* A request of the call leaves the queues with its output.                *)
LEMMA CallApplies ==
  ASSUME SystemInv, SchedTypeOK', OutputsOK, CallOutputs, Apply
  PROVE  CallOutputs'
<1>0. /\ call = "loop" /\ SchedTypeOK /\ finished \subseteq Range(running)
      /\ Range(running) \subseteq SeqId
      /\ UNCHANGED <<requestIds, callStart>>
  BY QueueTypes DEF Apply, SystemInv, SchedInv, PlanOK
<1>1. /\ requestIds \in Seq(SeqId) /\ NoDuplicates(requestIds)
      /\ callStart \in Nat /\ callStart <= Len(outputs)
      /\ \A s \in Range(requestIds) : s < nextId
      /\ \A j \in DOMAIN outputs : j <= callStart => outputs[j].request \notin Range(requestIds)
      /\ \A s \in SeqId : s \in Range(requestIds) <=> Queued(s) \/ ProducedInCall(s)
  BY <1>0 DEF CallOutputs
<1>2. nextId' = nextId
  BY DEF Apply, ApplyStep, ApplyOne, ApplyEnds
<1>3. PICK S : S = [request : SeqId, completion : Seq(Token)]
  OBVIOUS
<1>4. outputs \in Seq(S) /\ Len(outputs) \in Nat /\ DOMAIN outputs = 1 .. Len(outputs)
  BY <1>0, <1>3 DEF SchedTypeOK
<1>5. CASE ApplyEnds
  <2>1. outputs' = outputs
    BY <1>5 DEF ApplyEnds
  <2>2. \A s : Queued(s)' <=> Queued(s) /\ s \notin finished
    BY <1>5, LeavingIsUnseen
  <2>3. \A s \in SeqId : ProducedInCall(s)' <=> ProducedInCall(s)
    BY <1>0, <2>1 DEF ProducedInCall
  <2>4. ASSUME NEW s \in finished PROVE ProducedInCall(s)
    <3>1. s \in SeqId /\ Queued(s)
      BY <1>0, <2>4 DEF Queued
    <3>2. s \in Range(requestIds)
      BY <1>1, <3>1
    <3>3. PICK j \in DOMAIN outputs : outputs[j].request = s
      BY <2>4 DEF OutputsOK, Produced
    <3>4. ~(j <= callStart)
      BY <1>1, <3>2, <3>3
    <3>5. j > callStart
      BY <1>1, <1>4, <3>4
    <3> QED
      BY <3>3, <3>5 DEF ProducedInCall
  <2>5. \A s \in SeqId : s \in Range(requestIds') <=> Queued(s)' \/ ProducedInCall(s)'
    BY <1>0, <1>1, <2>2, <2>3, <2>4
  <2> QED
    BY <1>0, <1>1, <1>2, <2>1, <2>5 DEF CallOutputs
<1>6. CASE ApplyOne
  <2>1. \A s : Queued(s)' <=> Queued(s)
    BY <1>6, ResultIsGenerated
  <2>2. CASE outputs' = outputs
    <3>1. \A s \in SeqId : ProducedInCall(s)' <=> ProducedInCall(s)
      BY <1>0, <2>2 DEF ProducedInCall
    <3> QED
      BY <1>0, <1>1, <1>2, <2>1, <2>2, <3>1 DEF CallOutputs
  <2>3. ASSUME NEW e \in [request : Range(running), completion : Seq(Token)],
               outputs' = Append(outputs, e)
        PROVE  CallOutputs'
    <3>1. PICK l : l = Len(outputs)
      OBVIOUS
    <3>2. e \in S /\ e.request \in Range(running)
      BY <1>0, <1>3
    <3>3. /\ l \in Nat /\ DOMAIN outputs = 1 .. l /\ DOMAIN outputs' = 1 .. l + 1
          /\ Len(outputs') = l + 1
          /\ outputs'[l + 1] = e /\ \A j \in 1 .. l : outputs'[j] = outputs[j]
      BY <1>4, <2>3, <3>1, <3>2, AppendProperties
    <3>4. \A j \in 1 .. l + 1 : j \in 1 .. l \/ j = l + 1
      BY <3>3
    <3>5. l + 1 > callStart /\ ~(l + 1 <= callStart) /\ callStart <= l + 1 /\ l + 1 \in 1 .. l + 1
          /\ 1 .. l \subseteq 1 .. l + 1
      BY <1>1, <3>1, <3>3
    <3>6. \A j \in DOMAIN outputs' : j <= callStart => outputs'[j].request \notin Range(requestIds)
      BY <1>1, <3>3, <3>4, <3>5
    <3>7. \A s : ProducedInCall(s)' <=> ProducedInCall(s) \/ s = e.request
      BY <1>0, <3>3, <3>4, <3>5 DEF ProducedInCall
    <3>8. \A s \in SeqId : s \in Range(requestIds) <=> Queued(s)' \/ ProducedInCall(s)'
      BY <1>1, <2>1, <3>2, <3>7 DEF Queued
    <3> QED
      BY <1>0, <1>1, <1>2, <3>3, <3>5, <3>6, <3>8 DEF CallOutputs
  <2> QED
    BY <1>6, <2>2, <2>3, ResultIsGenerated
<1> QED
  BY <1>5, <1>6 DEF Apply, ApplyStep

(* The inductive invariant of the results of a call.                       *)
ResultsInv == EngineInv /\ OutputsOK /\ CallOutputs

(* The invariant holds at the start.                                       *)
LEMMA ResultsStart == EngineInit => ResultsInv
<1> SUFFICES ASSUME EngineInit PROVE ResultsInv
  OBVIOUS
<1>1. EngineInv /\ OutputsOK
  BY EngineStarts, GenStarts DEF EngineInit, GenInv
<1>2. CallOutputs
  BY DEF EngineInit, SchedInit, CallOutputs
<1> QED
  BY <1>1, <1>2 DEF ResultsInv

(* Every step of the engine keeps the invariant of the results.            *)
LEMMA ResultsStep == ResultsInv /\ [EngineNext]_vars => ResultsInv'
<1> SUFFICES ASSUME ResultsInv, [EngineNext]_vars PROVE ResultsInv'
  OBVIOUS
<1>0. EngineInv /\ OutputsOK /\ CallOutputs /\ SystemInv
  BY DEF ResultsInv, EngineInv
<1>1. EngineInv' /\ OutputsOK'
  <2>1. [SchedNext]_schedVars
    BY <1>0, StepUsesScheduler
  <2>2. GenInv
    BY <1>0 DEF GenInv
  <2>3. GenInv'
    BY <2>1, <2>2, GenSteps
  <2> QED
    BY <1>0, <2>3, EngineSteps DEF GenInv
<1>2. SchedTypeOK'
  BY <1>1 DEF EngineInv, SystemInv, SchedInv
<1>3. CASE \E n \in 1 .. MaxCallSize : BeginCall(n)
  BY <1>0, <1>1, <1>3, CallBegins DEF ResultsInv
<1>4. CASE \E p \in Prompt, m \in MaxTokens, i \in BOOLEAN : Submit(p, m, i)
  BY <1>0, <1>1, <1>2, <1>4, CallSubmits DEF ResultsInv
<1>5. CASE Plan
  <2>1. Quiet /\ UNCHANGED <<call, requestIds, callStart>>
    BY <1>0, <1>5, PlanIsQuiet DEF Plan
  <2>2. CallOutputs'
    BY <1>0, <2>1, CallKept DEF Quiet, Collecting
  <2> QED
    BY <1>1, <2>2 DEF ResultsInv
<1>6. CASE FinishStep
  <2>1. Quiet /\ UNCHANGED <<call, requestIds, callStart>>
    <3>1. ExecuteStep
      BY <1>0, <1>6 DEF FinishStep, EngineInv, CallOK, ExecuteStep
    <3> QED
      BY <1>0, <1>6, <3>1, PlanIsQuiet DEF FinishStep
  <2>2. CallOutputs'
    BY <1>0, <2>1, CallKept DEF Quiet, Collecting
  <2> QED
    BY <1>1, <2>2 DEF ResultsInv
<1>7. CASE \/ ReserveAttention \/ PublishAttention \/ Bind \/ ForwardFails \/ FinishConsumer
           \/ \E r \in Results(inFlight) : Forward(r)
           \/ UNCHANGED vars
  <2>1. UNCHANGED <<schedVars, call, requestIds, callStart>>
    BY <1>7 DEF ReserveAttention, PublishAttention, Bind, ForwardFails, FinishConsumer, Forward,
                vars, engineVars
  <2>2. UNCHANGED schedVars /\ UNCHANGED <<call, requestIds, callStart>>
    BY <2>1
  <2>3. Quiet
    BY <1>0, <2>2, PlanIsQuiet
  <2>4. CallOutputs'
    BY <1>0, <2>2, <2>3, CallKept DEF Quiet, Collecting
  <2> QED
    BY <1>1, <2>4 DEF ResultsInv
<1>8. CASE PrepareFails \/ FinishFailedStep
  <2>1. call' = "failed" /\ UNCHANGED <<requestIds, callStart, nextId, outputs>>
    BY <1>8 DEF PrepareFails, FinishFailedStep, CleanupFailedStep, AbortAllRequests
  <2>2. CallOutputs'
    BY <1>0, <2>1, CallKept DEF Collecting
  <2> QED
    BY <1>1, <2>2 DEF ResultsInv
<1>9. CASE Apply
  BY <1>0, <1>1, <1>2, <1>9, CallApplies DEF ResultsInv
<1> QED
  BY <1>3, <1>4, <1>5, <1>6, <1>7, <1>8, <1>9 DEF EngineNext, EngineStep

(* generate returns exactly one output for each prompt of the call and     *)
(* none of another call, in the order of the prompts, with the tokens      *)
(* generated for that prompt: order_request_outputs never fails.           *)
THEOREM EngineResultsComplete == EngineSpec => []ResultsComplete
<1>1. ResultsInv => ResultsComplete
  <2> SUFFICES ASSUME ResultsInv, call = "returned"
               PROVE  /\ ~OrderErrs
                      /\ \A k \in DOMAIN requestIds :
                           OrderedOutputs[k].completion =
                             SubSeq(tokens[requestIds[k]], numPrompt[requestIds[k]] + 1,
                                    Len(tokens[requestIds[k]]))
    BY DEF ResultsComplete
  <2>0. SchedInv /\ SchedTypeOK /\ OutputsOK /\ CallOutputs /\ ~IsRunning
    BY DEF ResultsInv, EngineInv, SystemInv, SchedInv, CallOK
  <2>1. \A s : ~Queued(s)
    BY <2>0 DEF IsRunning, Queued, Range
  <2>2. /\ callStart \in Nat /\ callStart <= Len(outputs) /\ requestIds \in Seq(SeqId)
        /\ NoDuplicates(requestIds)
        /\ \A s \in SeqId : s \in Range(requestIds) <=> ProducedInCall(s)
    BY <2>0, <2>1 DEF CallOutputs
  <2>3. PICK S : S = [request : SeqId, completion : Seq(Token)]
    OBVIOUS
  <2>4. PICK l : l = Len(outputs)
    OBVIOUS
  <2>5. PICK c : c = callStart
    OBVIOUS
  <2>6. outputs \in Seq(S) /\ l \in Nat /\ DOMAIN outputs = 1 .. l
        /\ \A i \in 1 .. l : outputs[i] \in S
    <3>1. outputs \in Seq(S)
      BY <2>0, <2>3 DEF SchedTypeOK
    <3> QED
      BY <2>4, <3>1
  <2>7. PICK q : q = Collected
    OBVIOUS
  <2>8. q \in Seq(S) /\ DOMAIN q = 1 .. l - c
        /\ \A i \in 1 .. l - c : q[i] = outputs[c + i] /\ c + i \in DOMAIN outputs /\ c + i > c
    <3>1. c \in Nat /\ c <= l /\ q = SubSeq(outputs, c + 1, l)
      BY <2>2, <2>4, <2>5, <2>7 DEF Collected
    <3>2. \A i \in c + 1 .. l : outputs[i] \in S
      BY <2>6, <3>1
    <3>3. q \in Seq(S) /\ Len(q) = (IF c + 1 <= l THEN l - (c + 1) + 1 ELSE 0)
          /\ \A i \in 1 .. l - (c + 1) + 1 : q[i] = outputs[(c + 1) + i - 1]
      <4>1. c + 1 \in Int /\ l \in Int
        BY <2>6, <3>1
      <4> QED
        BY <3>1, <3>2, <4>1, SubSeqProperties
    <3>4. Len(q) = l - c
      BY <2>6, <3>1, <3>3
    <3>5. DOMAIN q = 1 .. l - c
      BY <3>3, <3>4
    <3>6. ASSUME NEW i \in 1 .. l - c
          PROVE  q[i] = outputs[c + i] /\ c + i \in DOMAIN outputs /\ c + i > c
      <4>1. i \in 1 .. l - (c + 1) + 1 /\ (c + 1) + i - 1 = c + i /\ c + i \in 1 .. l /\ c + i > c
        BY <2>6, <3>1
      <4> QED
        BY <2>6, <3>3, <4>1
    <3> QED
      BY <3>3, <3>5, <3>6
  <2>9. \A i, j \in DOMAIN q : q[i].request = q[j].request => i = j
    <3> SUFFICES ASSUME NEW i \in DOMAIN q, NEW j \in DOMAIN q, q[i].request = q[j].request
                 PROVE  i = j
      OBVIOUS
    <3>1. i \in Int /\ j \in Int /\ c \in Int
      BY <2>2, <2>5, <2>6, <2>8
    <3>2. c + j = c + i
      BY <2>0, <2>8 DEF OutputsOK, OutputOK
    <3>3. \A a, b, d \in Int : d + a = d + b => b = a
      OBVIOUS
    <3> QED
      BY <3>1, <3>2, <3>3, Zenon
  <2>10. \A i \in DOMAIN q : q[i].request \in SeqId
    BY <2>0, <2>8, OutputTypes
  <2>11. ASSUME NEW s \in SeqId, ProducedInCall(s) PROVE \E i \in DOMAIN q : q[i].request = s
    <3>1. PICK j \in DOMAIN outputs : j > c /\ outputs[j].request = s
      BY <2>5, <2>11 DEF ProducedInCall
    <3>2. j - c \in 1 .. l - c /\ c + (j - c) = j
      BY <2>2, <2>5, <2>6, <3>1
    <3> QED
      BY <2>8, <3>1, <3>2
  <2>12. {q[i].request : i \in DOMAIN q} = Range(requestIds)
    <3>1. ASSUME NEW i \in DOMAIN q PROVE q[i].request \in Range(requestIds)
      <4>1. ProducedInCall(q[i].request)
        BY <2>5, <2>8 DEF ProducedInCall
      <4> QED
        BY <2>2, <2>10, <4>1
    <3>2. Range(requestIds) \subseteq SeqId
      BY <2>2 DEF Range
    <3> QED
      BY <2>2, <2>11, <3>1, <3>2
  <2>13. ~OrderErrs
    <3>1. NoDuplicates([i \in DOMAIN q |-> q[i].request])
      BY <2>9 DEF NoDuplicates
    <3> QED
      BY <2>2, <2>7, <2>12, <3>1 DEF OrderErrs
  <2>14. ASSUME NEW k \in DOMAIN requestIds
         PROVE  OrderedOutputs[k].completion =
                  SubSeq(tokens[requestIds[k]], numPrompt[requestIds[k]] + 1,
                         Len(tokens[requestIds[k]]))
    <3>1. PICK s : s = requestIds[k]
      OBVIOUS
    <3>2. \E i \in DOMAIN q : q[i].request = s
      BY <2>12, <3>1 DEF Range
    <3>3. PICK i : i = CHOOSE x \in DOMAIN q : q[x].request = s
      OBVIOUS
    <3>4. i \in DOMAIN q /\ q[i].request = s
      BY <3>2, <3>3, Zenon
    <3>5. OrderedOutputs[k] = q[i]
      BY <2>7, <3>1, <3>3 DEF OrderedOutputs
    <3>6. OutputOK(c + i) /\ q[i] = outputs[c + i]
      BY <2>0, <2>8, <3>4 DEF OutputsOK
    <3> QED
      BY <3>1, <3>4, <3>5, <3>6 DEF OutputOK
  <2> QED
    BY <2>13, <2>14
<1> QED
  BY <1>1, ResultsStart, ResultsStep, PTL DEF EngineSpec
=============================================================================
