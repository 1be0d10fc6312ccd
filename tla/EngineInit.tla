---------------------------- MODULE EngineInit ----------------------------
(***************************************************************************)
(* LLM::new from the options to the first admissible request               *)
(* (crates/vllm-oxide/src/llm.rs, llm/initialization.rs, the configuration *)
(* checks of models/qwen3.rs and the one-time buffer of PagedKVCache in    *)
(* attention/mod.rs).  usize is 0 .. MaxUsize, so that the checked and the *)
(* unchecked products of the sizing can be told apart; a utilization is a  *)
(* pair <<p, q>> for p/q.  The free memory is one reading of the driver:   *)
(* what the device can really give may have changed by the time of the     *)
(* allocation.  The attention workspace and the tensors are abstracted to  *)
(* calls that may fail.                                                    *)
(***************************************************************************)
EXTENDS Integers, Sequences, FiniteSets, AttentionContext

CONSTANTS
  MaxUsize, MaxIsize, \* bounds of usize and isize
  BlockSize,          \* 256
  DtypeBytes,         \* size_in_bytes of BF16 and F16
  Options,            \* EngineOptions tried
  Configs,            \* model configurations tried
  FreeBytes,          \* readings of cuMemGetInfo tried
  PrivateBlocks       \* values of the private capacity variable, -1 unset

ASSUME SizingShape ==
  /\ {MaxUsize, MaxIsize, BlockSize, DtypeBytes} \subseteq Nat \ {0}
  /\ FreeBytes \subseteq 0 .. MaxUsize
  /\ PrivateBlocks \subseteq -1 .. MaxUsize
  /\ \A o \in Options :
       /\ {o.maxBatched, o.maxSeqs, o.maxModelLen} \subseteq 0 .. MaxUsize
       /\ o.util \in Int \X (Nat \ {0})
  /\ \A c \in Configs :
       /\ {c.hidden, c.layers, c.heads, c.kvHeads, c.inter, c.vocab, c.maxPos} \subseteq 0 .. MaxUsize
       /\ c.headDim \in -1 .. MaxUsize

VARIABLES
  stage,              \* the next call of LLM::new, "ready" or "failed"
  options,            \* EngineOptions
  config,             \* the model's configuration, NoConfig before it is read
  free,               \* free_bytes of DeviceMemory, 0 before it is queried
  plan,               \* KvCachePlan: bytesPerBlock, poolBytes, numBlocks
  buffer,             \* blocks of the cache's buffer, 0 before allocate
  limits,             \* compute_limits: <<tokens, workspace>>, <<>> for None
  warmed              \* forwards of the warm-up that completed, in order

initVars == <<stage, options, config, free, plan, buffer, limits, warmed>>

allVars == <<initVars, attnVars>>

NoPlan == [bytesPerBlock |-> 0, poolBytes |-> 0, numBlocks |-> 0]

NoConfig == [plain |-> FALSE]

StartInit ==
  /\ stage = "validate"
  /\ options \in Options
  /\ config = NoConfig
  /\ free = 0
  /\ plan = NoPlan
  /\ buffer = 0
  /\ limits = <<>>
  /\ warmed = <<>>
  /\ AttnInit

-----------------------------------------------------------------------------
(* A call of LLM::new returns to its next stage or fails the construction. *)

Goes(from, ok, to) == stage = from /\ stage' = IF ok THEN to ELSE "failed"

(* EngineOptions::validate.                                                *)
OptionsOK(o) ==
  /\ o.eager
  /\ o.maxBatched > 0 /\ o.maxSeqs > 0
  /\ o.maxModelLen >= 2
  /\ 0 < o.util[1] /\ o.util[1] <= o.util[2]
  /\ o.dtype \in {"none", "BF16", "F16"}

Validate ==
  /\ Goes("validate", OptionsOK(options), "device")
  /\ UNCHANGED <<options, config, free, plan, buffer, limits, warmed, attnVars>>

(* CUDA device, compute capability, reduction mode.                        *)
FindDevice(found) ==
  /\ Goes("device", found, "resolve")
  /\ UNCHANGED <<options, config, free, plan, buffer, limits, warmed, attnVars>>

(* The outcome of ResolvedModel::resolve, whose configuration is c, and    *)
(* read_max_position_embeddings.                                           *)
Resolve(found, c) ==
  /\ Goes("resolve", found /\ options.maxModelLen <= c.maxPos, "build")
  /\ config' = IF found THEN c ELSE config
  /\ UNCHANGED <<options, free, plan, buffer, limits, warmed, attnVars>>

-----------------------------------------------------------------------------
(* Qwen3ForCausalLM::build.                                                *)

(* Qwen3Config::head_dim: 0 stands for every refusal.                      *)
HeadDim(c) ==
  LET d == IF c.headDim # -1 THEN c.headDim
           ELSE IF c.hidden % c.heads = 0 THEN c.hidden \div c.heads ELSE 0
  IN IF d % 2 = 0 THEN d ELSE 0

Elements(c, blocks) == 2 * c.layers * blocks * BlockSize * c.kvHeads * HeadDim(c)

(* validate_cache_geometry.                                                *)
CacheGeometryOK(c, blocks) ==
  /\ Elements(c, blocks) <= MaxUsize
  /\ Elements(c, blocks) <= MaxIsize
  /\ Elements(c, blocks) * DtypeBytes <= MaxUsize
  /\ Elements(c, blocks) * DtypeBytes <= MaxIsize

(* Qwen3Config::validate; `plain' stands for the unsupported modes         *)
(* (rope_scaling, sliding window, layer types, activation, scalars).       *)
ConfigOK(c) ==
  /\ 0 \notin {c.hidden, c.layers, c.heads, c.kvHeads, c.inter, c.vocab, c.maxPos}
  /\ c.heads % c.kvHeads = 0
  /\ HeadDim(c) > 0
  /\ (c.heads + 2 * c.kvHeads) * HeadDim(c) <= MaxUsize
  /\ 2 * c.inter <= MaxUsize
  /\ CacheGeometryOK(c, 1)
  /\ c.plain

(* build: the configuration, then the weights; the cache is only geometry. *)
Build(loaded) ==
  /\ Goes("build", ConfigOK(config) /\ options.maxModelLen <= config.maxPos /\ loaded, "sizing")
  /\ UNCHANGED <<options, config, free, plan, buffer, limits, warmed, attnVars>>

-----------------------------------------------------------------------------
(* initialize_model: KvCachePlan::from_budget and the allocation.          *)

BytesPerBlock(c) == 2 * c.layers * BlockSize * c.kvHeads * HeadDim(c) * DtypeBytes

(* (available as f64 * utilization) as usize: the product is rounded to    *)
(* the nearest double before it is truncated, so it may come out one above *)
(* the exact floor; rounding is monotone, so never above the whole.        *)
PoolBytes(available, u) ==
  LET floor == (available * u[1]) \div u[2] IN
  {b \in floor .. floor + 1 : b <= available /\ (b - 1) * u[2] < available * u[1]}

DivCeil(a, b) == (a + b - 1) \div b

RequiredBlocks == DivCeil(options.maxModelLen, BlockSize)

PlanOf(pool) ==
  [bytesPerBlock |-> BytesPerBlock(config), poolBytes |-> pool,
   numBlocks |-> pool \div BytesPerBlock(config)]

(* Mutant of BudgetOK: the pool need not hold one full context.            *)
MutBudgetOK(pool) ==
  /\ BytesPerBlock(config) <= MaxUsize
  /\ PlanOf(pool).numBlocks > 0

BudgetOK(pool) ==
  /\ BytesPerBlock(config) <= MaxUsize
  /\ PlanOf(pool).numBlocks >= RequiredBlocks

(* from_budget; a failed synchronization or memory query also fails here.  *)
Size(available, pool, queried) ==
  /\ pool \in PoolBytes(available, options.util)
  /\ Goes("sizing", queried /\ BudgetOK(pool), "capacity")
  /\ free' = available
  /\ plan' = IF stage' = "failed" THEN plan ELSE PlanOf(pool)
  /\ UNCHANGED <<options, config, buffer, limits, warmed, attnVars>>

(* The private capacity of a fixed-prefix plan, when the variable is set.  *)
OverrideCapacity(blocks, fixedPrefix) ==
  /\ blocks \in PrivateBlocks
  /\ Goes("capacity",
          blocks = -1 \/ /\ fixedPrefix
                         /\ blocks > 0
                         /\ blocks >= RequiredBlocks
                         /\ blocks <= plan.numBlocks,
          "allocate")
  /\ plan' = IF blocks = -1 \/ stage' = "failed" THEN plan
             ELSE [plan EXCEPT !.numBlocks = blocks, !.poolBytes = blocks * plan.bytesPerBlock]
  /\ UNCHANGED <<options, config, free, buffer, limits, warmed, attnVars>>

(* PagedKVCache::allocate: once, and the device may have no room left.     *)
Allocate(room) ==
  /\ Goes("allocate", buffer = 0 /\ plan.numBlocks > 0 /\ room, "limits")
  /\ buffer' = IF stage' = "failed" THEN buffer ELSE plan.numBlocks
  /\ UNCHANGED <<options, config, free, plan, limits, warmed, attnVars>>

(* Mutant of Workspace: half of all free memory.                           *)
MutWorkspace == free \div 2

(* Half of what the pool leaves (saturating_sub).                          *)
Workspace ==
  LET used == plan.numBlocks * plan.bytesPerBlock IN
  IF used > free THEN 0 ELSE (free - used) \div 2

SetComputeLimits ==
  /\ Goes("limits", AttnIdle, "shape")
  /\ limits' = <<options.maxBatched, Workspace>>
  /\ UNCHANGED <<options, config, free, plan, buffer, warmed, attnVars>>

-----------------------------------------------------------------------------
(* warmup_model: one prefill of WarmupTokens positions in slots 0 .., then *)
(* one decode in the next slot.                                            *)

Smaller(a, b) == IF a <= b THEN a ELSE b

(* Mutant of WarmupTokens: leaves no room for the decode.                  *)
MutWarmupTokens == Smaller(options.maxBatched, options.maxModelLen)

WarmupTokens == Smaller(options.maxBatched, options.maxModelLen - 1)

WarmupShape ==
  /\ Goes("shape",
          WarmupTokens > 0 /\ buffer * BlockSize <= MaxUsize
            /\ WarmupTokens + 1 <= buffer * BlockSize,
          "reserve")
  /\ UNCHANGED <<options, config, free, plan, buffer, limits, warmed, attnVars>>

Prefill == 1
Decode == 2

Warming == IF Len(warmed) = 0 THEN Prefill ELSE Decode

(* prepare, first half; a context that is not idle refuses.                *)
Reserve ==
  /\ stage = "reserve"
  /\ IF AttnIdle
       THEN ReserveEpoch(Warming) /\ stage' = "publish"
       ELSE UNCHANGED attnVars /\ stage' = "failed"
  /\ UNCHANGED <<options, config, free, plan, buffer, limits, warmed>>

(* prepare, second half: the layout needs the limits; a failure drops the  *)
(* reservation.                                                            *)
Publish(ok) ==
  /\ Goes("publish", ok /\ limits # <<>>, "bind")
  /\ IF stage' = "failed" THEN CancelPreparation(Warming) ELSE PublishEpoch(Warming)
  /\ UNCHANGED <<options, config, free, plan, buffer, limits, warmed>>

Bind ==
  /\ stage = "bind"
  /\ BindConsumer(Warming)
  /\ stage' = "forward"
  /\ UNCHANGED <<options, config, free, plan, buffer, limits, warmed>>

(* forward, the row, dtype and logits contracts: a failure drops the       *)
(* guards, the consumer's first.                                           *)
Forward(ok) ==
  /\ Goes("forward", ok /\ MetadataReadable, "consumer")
  /\ UNCHANGED <<options, config, free, plan, buffer, limits, warmed, attnVars>>

FinishConsumer ==
  /\ stage = "consumer"
  /\ ReleaseConsumer(Warming)
  /\ stage' = "step"
  /\ UNCHANGED <<options, config, free, plan, buffer, limits, warmed>>

FinishStep ==
  /\ stage = "step"
  /\ ReleaseEpoch(Warming)
  /\ warmed' = Append(warmed, Warming)
  /\ stage' = IF Warming = Prefill THEN "reserve" ELSE "engine"
  /\ UNCHANGED <<options, config, free, plan, buffer, limits>>

DropConsumer ==
  /\ stage = "failed" /\ consumer # NoEpoch
  /\ ReleaseConsumer(consumer)
  /\ UNCHANGED initVars

DropStep ==
  /\ stage = "failed" /\ consumer = NoEpoch /\ lifecycle = "ready"
  /\ ReleaseEpoch(epoch)
  /\ UNCHANGED initVars

(* The last synchronization, then the scheduler, the pool and the engine.  *)
Construct(ok) ==
  /\ Goes("engine", ok, "ready")
  /\ UNCHANGED <<options, config, free, plan, buffer, limits, warmed, attnVars>>

(* initialize_model and the rest of LLM::new, once the model is built.     *)
Initialize ==
  \/ \E ok \in BOOLEAN : Allocate(ok) \/ Publish(ok) \/ Forward(ok) \/ Construct(ok)
  \/ \E ok \in BOOLEAN, available \in FreeBytes :
       \E pool \in PoolBytes(available, options.util) : Size(available, pool, ok)
  \/ \E fixed \in BOOLEAN : \E b \in PrivateBlocks : OverrideCapacity(b, fixed)
  \/ SetComputeLimits
  \/ WarmupShape
  \/ Reserve \/ Bind \/ FinishConsumer \/ FinishStep \/ DropConsumer \/ DropStep

-----------------------------------------------------------------------------
(* The pool and the attention workspace together fit the free memory that  *)
(* was read, and the unchecked product of the allocation does not wrap.    *)
PoolFitsMemory ==
  buffer > 0 =>
    /\ buffer * plan.bytesPerBlock <= plan.poolBytes
    /\ plan.poolBytes <= free
    /\ limits # <<>> => buffer * plan.bytesPerBlock + limits[2] <= free

(* An engine that admits requests can hold one request of max_model_len    *)
(* tokens and passes the checks the scheduler relies on, whatever was      *)
(* configured, read or overridden on the way.                              *)
ReadyHoldsOneRequest ==
  stage = "ready" =>
    /\ buffer * BlockSize >= options.maxModelLen
    /\ options.maxModelLen >= 2
    /\ options.maxBatched > 0 /\ options.maxSeqs > 0

(* No request before both kernels ran, prefill then decode, with slots of  *)
(* the cache and positions below max_model_len, each on its own epoch, and *)
(* the context handed to the engine is idle.                               *)
WarmedBeforeReady ==
  stage = "ready" =>
    /\ warmed = <<Prefill, Decode>>
    /\ AttnIdle
    /\ limits # <<>>
    /\ WarmupTokens >= 1
    /\ WarmupTokens < options.maxModelLen

(* Options that pass validation never fail for the shape of the warm-up:   *)
(* a pool that holds one context has the slots of the prefill and the      *)
(* decode.                                                                 *)
WarmupAlwaysFits ==
  stage \in {"shape", "reserve"} =>
    WarmupTokens \in 1 .. buffer * BlockSize - 1

=============================================================================
