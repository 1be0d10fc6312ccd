--------------------------- MODULE StartupProofs ---------------------------
(***************************************************************************)
(* What LLM::new establishes before it returns, for memory, options and    *)
(* configurations of every size: the pool and the workspace fit the memory *)
(* that was read, the engine holds one request of max_model_len tokens and *)
(* both kernels have run.                                                  *)
(***************************************************************************)
EXTENDS Startup, SeqOrderProofs

-----------------------------------------------------------------------------
(* The stages of LLM::new, by what is known from then on.                  *)
Warmups == {"reserve", "publish", "bind", "forward", "consumer", "step"}
Warm == {"engine", "ready"}
Limited == {"shape"} \cup Warmups \cup Warm
Allocated == {"limits"} \cup Limited
Sized == {"capacity", "allocate"} \cup Allocated
Built == {"sizing"} \cup Sized

(* A planned pool holds one request and lies within the memory read.       *)
PlanOK ==
  /\ plan \in [bytesPerBlock : Nat, poolBytes : Nat, numBlocks : Nat]
  /\ plan.numBlocks * plan.bytesPerBlock <= plan.poolBytes
  /\ plan.poolBytes <= free
  /\ plan.numBlocks >= RequiredBlocks

(* What is known at each stage, and of a buffer also after a failure.      *)
StartInv ==
  /\ options \in Options
  /\ buffer \in Nat /\ free \in Nat
  /\ stage \in {"validate", "device", "resolve", "build", "failed"} \cup Built
  /\ stage \notin {"validate", "failed"} => OptionsOK(options)
  /\ stage = "build" => config \in Configs
  /\ stage \in Built => config \in Configs /\ ConfigOK(config)
  /\ stage \in Sized => PlanOK
  /\ stage \in Allocated => buffer = plan.numBlocks
  /\ stage \notin Allocated \cup {"failed"} => buffer = 0
  /\ stage \notin Limited \cup {"failed"} => limits = <<>>
  /\ stage \in Limited => limits # <<>>
  /\ stage \in Warmups => warmed \in {<<>>, <<Prefill>>}
  /\ stage \in Warm => warmed = <<Prefill, Decode>> /\ AttnIdle
  /\ stage \notin Warmups \cup Warm \cup {"failed"} => warmed = <<>>
  /\ buffer > 0 => plan.bytesPerBlock \in Nat /\ plan.poolBytes \in Nat
  /\ PoolFitsMemory

-----------------------------------------------------------------------------
(* Arithmetic of the sizing.                                               *)

(* Products grow with a factor.                                            *)
LEMMA TimesMonotone ==
  ASSUME NEW i \in Nat, NEW j \in Nat, NEW b \in Nat, i <= j
  PROVE  i * b <= j * b
<1>1. CASE b = 0 \/ i = j
  BY <1>1
<1>2. CASE b # 0 /\ i < j
  BY <1>2, ProductMonotone
<1> QED
  BY <1>1, <1>2

(* The second element of a sequence.                                       *)
LEMMA AppendToOne ==
  ASSUME NEW x, NEW y
  PROVE  Len(<<x>>) = 1 /\ Append(<<x>>, y) = <<x, y>>
<1> DEFINE T == {x, y}
<1>1. <<x>> \in Seq(T) /\ <<x, y>> \in Seq(T) /\ y \in T
  OBVIOUS
<1>2. Len(<<x>>) = 1 /\ Len(<<x, y>>) = 2 /\ <<x>>[1] = x /\ <<x, y>>[1] = x /\ <<x, y>>[2] = y
  OBVIOUS
<1> HIDE DEF T
<1>3. /\ Append(<<x>>, y) \in Seq(T) /\ Len(Append(<<x>>, y)) = 2
      /\ Append(<<x>>, y)[1] = x /\ Append(<<x>>, y)[2] = y
  BY <1>1, <1>2, AppendProperties
<1>4. PICK a : a = Append(<<x>>, y)
  OBVIOUS
<1>5. PICK b : b = <<x, y>>
  OBVIOUS
<1>6. \A i \in 1 .. Len(a) : a[i] = b[i]
  <2>1. \A i \in 1 .. 2 : i = 1 \/ i = 2
    OBVIOUS
  <2> QED
    BY <1>2, <1>3, <1>4, <1>5, <2>1
<1>7. a = b
  <2>1. a \in Seq(T) /\ b \in Seq(T) /\ Len(a) = Len(b)
    BY <1>1, <1>2, <1>3, <1>4, <1>5
  <2> QED
    BY <1>6, <2>1, SeqEqual
<1> QED
  BY <1>2, <1>4, <1>5, <1>7

(* A block of an accepted configuration has a size.                        *)
LEMMA BlockHasBytes ==
  ASSUME NEW c \in Configs, ConfigOK(c)
  PROVE  BytesPerBlock(c) \in Nat \ {0}
<1>1. /\ c.layers \in Nat \ {0} /\ c.kvHeads \in Nat \ {0} /\ c.heads \in Nat \ {0}
      /\ c.hidden \in Nat /\ c.headDim \in Int
  BY SizingShape DEF ConfigOK
<1>2. HeadDim(c) \in Nat \ {0}
  <2>1. HeadDim(c) > 0
    BY DEF ConfigOK
  <2>2. HeadDim(c) \in Int
    <3>1. c.headDim # -1 \/ c.hidden \div c.heads \in Int
      BY <1>1
    <3> QED
      BY <1>1, <3>1 DEF HeadDim
  <2> QED
    BY <2>1, <2>2
<1>3. BlockSize \in Nat \ {0} /\ DtypeBytes \in Nat \ {0}
  BY SizingShape
<1>4. \A a, b \in Nat \ {0} : a * b \in Nat \ {0}
  OBVIOUS
<1>5. 2 * c.layers * BlockSize * c.kvHeads \in Nat \ {0}
  BY <1>1, <1>3, <1>4
<1> QED
  BY <1>2, <1>3, <1>4, <1>5 DEF BytesPerBlock

(* As many blocks as a request of max_model_len tokens needs hold it.      *)
LEMMA RequiredBlocksHold ==
  ASSUME options \in Options, NEW n \in Nat, n >= RequiredBlocks
  PROVE  n * BlockSize >= options.maxModelLen
<1> DEFINE m == options.maxModelLen
           q == (m + BlockSize - 1) \div BlockSize
<1>1. m \in Nat /\ BlockSize \in Nat \ {0}
  BY SizingShape
<1>2. m + BlockSize - 1 \in Nat
  BY <1>1
<1>3. q \in Nat /\ m + BlockSize - 1 < (q + 1) * BlockSize
  BY <1>1, <1>2, DivProperties
<1>4. n >= q
  BY DEF RequiredBlocks, DivCeil
<1> HIDE DEF q, m
<1>5. (q + 1) * BlockSize = q * BlockSize + BlockSize /\ q * BlockSize \in Nat
  BY <1>1, <1>3
<1>6. n * BlockSize >= q * BlockSize /\ n * BlockSize \in Nat
  <2>1. CASE n = q
    BY <1>1, <1>3, <2>1
  <2>2. CASE n > q
    BY <1>1, <1>3, <2>2, ProductMonotone
  <2> QED
    BY <1>3, <1>4, <2>1, <2>2
<1>7. n * BlockSize >= m
  BY <1>1, <1>3, <1>5, <1>6
<1> QED
  BY <1>7 DEF m
-----------------------------------------------------------------------------
(* The steps.                                                              *)

(* The invariant holds at the start.                                       *)
LEMMA StartInitInv == StartupInit => StartInv
<1> SUFFICES ASSUME StartupInit PROVE StartInv
  OBVIOUS
<1> USE DEF StartupInit, StartInit
<1> QED
  BY DEF StartInv, PoolFitsMemory, Built, Sized, Allocated, Limited, Warmups, Warm

(* The checks before the model is built.                                   *)
LEMMA CheckingPreserves ==
  ASSUME StartInv,
         \/ Validate
         \/ \E found \in BOOLEAN : FindDevice(found)
         \/ \E c \in Configs : Resolve(TRUE, c)
         \/ Resolve(FALSE, config)
         \/ \E built \in BOOLEAN : Build(built)
  PROVE  StartInv'
<1> USE DEF StartInv, Goes, PoolFitsMemory, Built, Sized, Allocated, Limited, Warmups, Warm
<1>1. CASE Validate
  BY <1>1 DEF Validate, OptionsOK
<1>2. CASE \E found \in BOOLEAN : FindDevice(found)
  BY <1>2 DEF FindDevice, OptionsOK
<1>3. CASE \E c \in Configs : Resolve(TRUE, c)
  BY <1>3 DEF Resolve, OptionsOK
<1>4. CASE Resolve(FALSE, config)
  BY <1>4 DEF Resolve
<1>5. CASE \E built \in BOOLEAN : Build(built)
  <2>1. stage = "build" /\ stage' \in {"sizing", "failed"} /\ (stage' = "sizing" => ConfigOK(config))
    BY <1>5 DEF Build
  <2>2. UNCHANGED <<options, config, free, plan, buffer, limits, warmed, attnVars>>
    BY <1>5 DEF Build
  <2>3. ConfigOK(config)' <=> ConfigOK(config)
    BY <2>2 DEF ConfigOK, CacheGeometryOK, Elements, HeadDim
  <2> QED
    BY <2>1, <2>2, <2>3 DEF OptionsOK
<1> QED
  BY <1>1, <1>2, <1>3, <1>4, <1>5

(* from_budget: the quotient of the pool is within the memory.             *)
LEMMA SizePreserves ==
  ASSUME StartInv, NEW ok \in BOOLEAN, NEW available \in FreeBytes,
         NEW pool \in PoolBytes(available, options.util), Size(available, pool, ok)
  PROVE  StartInv'
<1> DEFINE bytes == BytesPerBlock(config)
<1>1. /\ stage = "sizing" /\ stage' \in {"capacity", "failed"} /\ free' = available
      /\ UNCHANGED <<options, config, buffer, limits, warmed, attnVars>>
      /\ stage' = "capacity" => BudgetOK(pool) /\ plan' = PlanOf(pool)
  BY DEF Size, Goes
<1>2. available \in Nat
  BY SizingShape
<1>3. pool \in Int /\ pool <= available
  <2>1. options.util[1] \in Int /\ options.util[2] \in Nat \ {0}
    BY SizingShape DEF StartInv
  <2>2. (available * options.util[1]) \div options.util[2] \in Int
    BY <1>2, <2>1
  <2> QED
    BY <2>2 DEF PoolBytes
<1>4. config \in Configs /\ ConfigOK(config) /\ OptionsOK(options)
  BY <1>1 DEF StartInv, Built, Sized, Allocated, Limited, Warmups, Warm
<1>5. bytes \in Nat \ {0}
  BY <1>4, BlockHasBytes
<1>6. pool \in Nat
  <2>1. options.util[1] \in Nat /\ options.util[2] \in Nat \ {0}
    BY <1>4, SizingShape DEF StartInv, OptionsOK
  <2>2. (available * options.util[1]) \in Nat
    BY <1>2, <2>1
  <2>3. (available * options.util[1]) \div options.util[2] \in Nat
    BY <2>1, <2>2, DivProperties
  <2> QED
    BY <2>3, <1>3 DEF PoolBytes
<1>7. pool \div bytes \in Nat /\ (pool \div bytes) * bytes <= pool
  BY <1>5, <1>6, DivProperties
<1>8. ConfigOK(config)' <=> ConfigOK(config)
  BY <1>1 DEF ConfigOK, CacheGeometryOK, Elements, HeadDim
<1>9. RequiredBlocks' = RequiredBlocks
  BY <1>1 DEF RequiredBlocks
<1> HIDE DEF bytes
<1>10. stage' = "capacity" => PlanOK'
  <2> SUFFICES ASSUME stage' = "capacity" PROVE PlanOK'
    OBVIOUS
  <2>1. plan' = [bytesPerBlock |-> bytes, poolBytes |-> pool, numBlocks |-> pool \div bytes]
    BY <1>1 DEF PlanOf, bytes
  <2>2. plan'.numBlocks >= RequiredBlocks
    BY <1>1 DEF BudgetOK
  <2> QED
    BY <1>1, <1>2, <1>3, <1>5, <1>6, <1>7, <1>9, <2>1, <2>2 DEF PlanOK
<1> QED
  BY <1>1, <1>2, <1>4, <1>8, <1>10
  DEF StartInv, PoolFitsMemory, Built, Sized, Allocated, Limited, Warmups, Warm, OptionsOK

(* The private capacity is at most the one that was planned.               *)
LEMMA OverridePreserves ==
  ASSUME StartInv, NEW b \in PrivateBlocks, NEW fixed \in BOOLEAN, OverrideCapacity(b, fixed)
  PROVE  StartInv'
<1>1. /\ stage = "capacity" /\ stage' \in {"allocate", "failed"}
      /\ UNCHANGED <<options, config, free, buffer, limits, warmed, attnVars>>
  BY DEF OverrideCapacity, Goes
<1>2. PlanOK /\ config \in Configs /\ ConfigOK(config) /\ buffer = 0
  BY <1>1 DEF StartInv, Built, Sized, Allocated, Limited, Warmups, Warm
<1>3. ConfigOK(config)' <=> ConfigOK(config)
  BY <1>1 DEF ConfigOK, CacheGeometryOK, Elements, HeadDim
<1>4. RequiredBlocks' = RequiredBlocks
  BY <1>1 DEF RequiredBlocks
<1>5. stage' = "allocate" => PlanOK'
  <2>1. CASE plan' = plan
    BY <1>1, <1>2, <1>4, <2>1 DEF PlanOK
  <2>2. CASE plan' # plan /\ stage' = "allocate"
    <3>1. /\ b > 0 /\ b >= RequiredBlocks /\ b <= plan.numBlocks
          /\ plan' = [plan EXCEPT !.numBlocks = b, !.poolBytes = b * plan.bytesPerBlock]
      BY <2>2 DEF OverrideCapacity, Goes
    <3>2. b \in Nat
      BY <3>1, SizingShape
    <3>3. plan.bytesPerBlock \in Nat /\ plan.numBlocks \in Nat
      BY <1>2 DEF PlanOK
    <3>4. b * plan.bytesPerBlock \in Nat
      BY <3>2, <3>3
    <3>5. b * plan.bytesPerBlock <= plan.numBlocks * plan.bytesPerBlock
      BY <3>1, <3>2, <3>3, TimesMonotone
    <3>6. /\ plan' \in [bytesPerBlock : Nat, poolBytes : Nat, numBlocks : Nat]
          /\ plan'.numBlocks = b /\ plan'.poolBytes = b * plan.bytesPerBlock
          /\ plan'.bytesPerBlock = plan.bytesPerBlock
      BY <1>2, <3>1, <3>2, <3>4 DEF PlanOK
    <3>7. /\ plan.numBlocks * plan.bytesPerBlock \in Nat /\ plan.poolBytes \in Nat
          /\ plan.numBlocks * plan.bytesPerBlock <= plan.poolBytes /\ plan.poolBytes <= free
      BY <1>2, <3>3 DEF PlanOK
    <3>8. free \in Nat
      BY DEF StartInv
    <3> QED
      BY <1>1, <1>4, <3>1, <3>4, <3>5, <3>6, <3>7, <3>8 DEF PlanOK
  <2> QED
    BY <2>1, <2>2
<1> QED
  BY <1>1, <1>2, <1>3, <1>5
  DEF StartInv, PoolFitsMemory, Built, Sized, Allocated, Limited, Warmups, Warm, OptionsOK

(* The pool is allocated once; the workspace is half of what it leaves.    *)
LEMMA AllocatePreserves ==
  ASSUME StartInv, (\E ok \in BOOLEAN : Allocate(ok)) \/ SetComputeLimits
  PROVE  StartInv'
<1>1. CASE \E ok \in BOOLEAN : Allocate(ok)
  <2>1. /\ stage = "allocate" /\ stage' \in {"limits", "failed"}
        /\ stage' = "failed" => buffer' = buffer
        /\ stage' = "limits" => buffer' = plan.numBlocks
        /\ UNCHANGED <<options, config, free, plan, limits, warmed, attnVars>>
    BY <1>1 DEF Allocate, Goes
  <2>2. PlanOK /\ config \in Configs /\ ConfigOK(config) /\ buffer = 0 /\ limits = <<>>
    BY <2>1 DEF StartInv, Built, Sized, Allocated, Limited, Warmups, Warm
  <2>3. ConfigOK(config)' <=> ConfigOK(config)
    BY <2>1 DEF ConfigOK, CacheGeometryOK, Elements, HeadDim
  <2>4. PlanOK'
    BY <2>1, <2>2 DEF PlanOK, RequiredBlocks
  <2>5. plan.bytesPerBlock \in Nat /\ plan.poolBytes \in Nat /\ plan.numBlocks \in Nat
    BY <2>2 DEF PlanOK
  <2>6. PoolFitsMemory'
    BY <2>1, <2>2, <2>5 DEF PlanOK, PoolFitsMemory
  <2> QED
    BY <2>1, <2>2, <2>3, <2>4, <2>5, <2>6
    DEF StartInv, Built, Sized, Allocated, Limited, Warmups, Warm, OptionsOK
<1>2. CASE SetComputeLimits
  <2>1. /\ stage = "limits" /\ stage' \in {"shape", "failed"}
        /\ limits' = <<options.maxBatched, Workspace>>
        /\ UNCHANGED <<options, config, free, plan, buffer, warmed, attnVars>>
    BY <1>2 DEF SetComputeLimits, Goes
  <2>2. PlanOK /\ config \in Configs /\ ConfigOK(config) /\ buffer = plan.numBlocks
    BY <2>1 DEF StartInv, Built, Sized, Allocated, Limited, Warmups, Warm
  <2>3. ConfigOK(config)' <=> ConfigOK(config)
    BY <2>1 DEF ConfigOK, CacheGeometryOK, Elements, HeadDim
  <2>4. PlanOK'
    BY <2>1, <2>2 DEF PlanOK, RequiredBlocks
  <2>5. /\ plan.bytesPerBlock \in Nat /\ plan.poolBytes \in Nat /\ plan.numBlocks \in Nat
        /\ free \in Nat
    BY <2>2 DEF PlanOK, StartInv
  <2>6. PoolFitsMemory'
    <3> DEFINE taken == plan.numBlocks * plan.bytesPerBlock
    <3>1. taken \in Nat /\ taken <= plan.poolBytes /\ plan.poolBytes <= free
      BY <2>2, <2>5 DEF PlanOK
    <3>2. Workspace = (free - taken) \div 2
      BY <2>5, <3>1 DEF Workspace
    <3> HIDE DEF taken
    <3>3. taken + ((free - taken) \div 2) <= free
      BY <2>5, <3>1
    <3>4. limits'[2] = Workspace
      BY <2>1
    <3>5. buffer' * plan'.bytesPerBlock = taken /\ plan'.poolBytes = plan.poolBytes /\ free' = free
      BY <2>1, <2>2 DEF taken
    <3> QED
      BY <3>1, <3>2, <3>3, <3>4, <3>5 DEF PoolFitsMemory
  <2> QED
    BY <2>1, <2>2, <2>3, <2>4, <2>5, <2>6
    DEF StartInv, Built, Sized, Allocated, Limited, Warmups, Warm, OptionsOK
<1> QED
  BY <1>1, <1>2

(* The warm-up and what is left after it touch neither plan nor buffer.    *)
WarmStep ==
  \/ \E ok \in BOOLEAN : Publish(ok) \/ Forward(ok) \/ Construct(ok)
  \/ WarmupShape
  \/ Reserve \/ Bind \/ FinishConsumer \/ FinishStep \/ DropConsumer \/ DropStep

(* The warmup runs both kernels.                                           *)
LEMMA WarmStepPreserves ==
  ASSUME StartInv, WarmStep
  PROVE  StartInv'
<1>1. UNCHANGED <<options, config, free, plan, buffer, limits>>
  BY DEF WarmStep, Publish, Forward, Construct, WarmupShape, Reserve, Bind, FinishConsumer,
         FinishStep, DropConsumer, DropStep, initVars
<1>2. ConfigOK(config)' <=> ConfigOK(config)
  BY <1>1 DEF ConfigOK, CacheGeometryOK, Elements, HeadDim
<1>3. PlanOK' <=> PlanOK
  BY <1>1 DEF PlanOK, RequiredBlocks
<1>4. PoolFitsMemory' <=> PoolFitsMemory
  BY <1>1 DEF PoolFitsMemory
<1>5. OptionsOK(options)' <=> OptionsOK(options)
  BY <1>1 DEF OptionsOK
<1>6. \/ /\ stage \in Limited /\ stage' \in Warmups \cup {"failed"}
         /\ stage' # "failed" => warmed' \in {<<>>, <<Prefill>>}
      \/ /\ stage \in Warmups /\ stage' = "engine"
         /\ warmed' = <<Prefill, Decode>> /\ AttnIdle'
      \/ /\ stage = "engine" /\ stage' \in {"ready", "failed"}
         /\ warmed' = warmed /\ UNCHANGED attnVars
      \/ stage = "failed" /\ stage' = "failed"
  <2> USE DEF Goes, Limited, Warmups, Warm
  <2>1. CASE \E ok \in BOOLEAN : Publish(ok) \/ Forward(ok)
    BY <2>1 DEF Publish, Forward, StartInv
  <2>2. CASE \E ok \in BOOLEAN : Construct(ok)
    BY <2>2 DEF Construct
  <2>3. CASE WarmupShape
    BY <2>3 DEF WarmupShape, StartInv
  <2>4. CASE Reserve \/ Bind \/ FinishConsumer
    BY <2>4 DEF Reserve, Bind, FinishConsumer, StartInv
  <2>5. CASE FinishStep
    <3>1. /\ stage = "step" /\ warmed \in {<<>>, <<Prefill>>} /\ warmed' = Append(warmed, Warming)
          /\ stage' = IF Warming = Prefill THEN "reserve" ELSE "engine"
          /\ AttnIdle'
      BY <2>5 DEF FinishStep, StartInv, ReleaseEpoch, AttnIdle
    <3>2. CASE warmed = <<>>
      <4>1. Warming = Prefill /\ warmed' = <<Prefill>>
        BY <3>1, <3>2 DEF Warming
      <4> QED
        BY <3>1, <4>1
    <3>3. CASE warmed = <<Prefill>>
      <4>0. Len(<<Prefill>>) = 1 /\ Append(<<Prefill>>, Decode) = <<Prefill, Decode>>
        BY AppendToOne
      <4>1. Warming = Decode /\ warmed' = <<Prefill, Decode>> /\ Decode # Prefill
        <5>1. Warming = Decode
          BY <3>3, <4>0 DEF Warming
        <5>2. Decode # Prefill
          BY DEF Prefill, Decode
        <5> QED
          BY <3>1, <3>3, <4>0, <5>1, <5>2
      <4> QED
        BY <3>1, <4>1
    <3> QED
      BY <3>1, <3>2, <3>3
  <2>6. CASE DropConsumer \/ DropStep
    BY <2>6 DEF DropConsumer, DropStep, initVars
  <2> QED
    BY <2>1, <2>2, <2>3, <2>4, <2>5, <2>6 DEF WarmStep
<1>7. UNCHANGED attnVars => (AttnIdle' <=> AttnIdle)
  BY DEF attnVars, AttnIdle
<1> QED
  BY <1>1, <1>2, <1>3, <1>4, <1>5, <1>6, <1>7
  DEF StartInv, Built, Sized, Allocated, Limited, Warmups, Warm

(* Every step keeps it.                                                    *)
LEMMA StartStepPreserves == StartInv /\ [StartupNext]_startVars => StartInv'
<1> SUFFICES ASSUME StartInv, [StartupNext]_startVars PROVE StartInv'
  OBVIOUS
<1>1. ASSUME UNCHANGED allVars PROVE StartInv'
  BY <1>1 DEF allVars, initVars, attnVars, StartInv, PoolFitsMemory, PlanOK, RequiredBlocks, ConfigOK,
     CacheGeometryOK, Elements, HeadDim, OptionsOK, AttnIdle
<1>2. CASE Preparing
  BY <1>1, <1>2, CheckingPreserves DEF Preparing
<1>3. CASE Outside
  BY <1>1, <1>3 DEF Outside
<1>4. CASE Initialize
  <2>1. CASE (\E ok \in BOOLEAN : Allocate(ok)) \/ SetComputeLimits
    BY <2>1, AllocatePreserves
  <2>2. CASE \E ok \in BOOLEAN, available \in FreeBytes :
               \E pool \in PoolBytes(available, options.util) : Size(available, pool, ok)
    BY <2>2, SizePreserves
  <2>3. CASE \E fixed \in BOOLEAN : \E b \in PrivateBlocks : OverrideCapacity(b, fixed)
    BY <2>3, OverridePreserves
  <2>4. CASE WarmStep
    BY <2>4, WarmStepPreserves
  <2> QED
    BY <1>4, <2>1, <2>2, <2>3, <2>4 DEF Initialize, WarmStep
<1>5. CASE UNCHANGED startVars
  BY <1>1, <1>5 DEF startVars
<1> QED
  BY <1>2, <1>3, <1>4, <1>5 DEF StartupNext

(* The pool and the attention workspace fit the free memory that was read, *)
(* whatever the driver reported and however the budget was overridden:     *)
(* KvCachePlan::from_budget, the allocation and the compute limits agree.  *)
THEOREM StartupPoolFitsMemory == StartupSpec => []PoolFitsMemory
<1>1. StartInv => PoolFitsMemory
  BY DEF StartInv
<1> QED
  BY <1>1, StartInitInv, StartStepPreserves, PTL DEF StartupSpec

(* What a stage's facts amount to when requests are admitted.              *)
LEMMA ReadyFacts == StartInv => ReadyCanServe /\ WarmupAlwaysFits
<1> SUFFICES ASSUME StartInv PROVE ReadyCanServe /\ WarmupAlwaysFits
  OBVIOUS
<1>1. ASSUME stage \in Limited
      PROVE  /\ OptionsOK(options) /\ buffer * BlockSize >= options.maxModelLen
             /\ WarmupTokens >= 1 /\ WarmupTokens < options.maxModelLen
             /\ WarmupTokens \in Nat /\ options.maxModelLen \in Nat
  <2>1. OptionsOK(options) /\ buffer = plan.numBlocks /\ PlanOK /\ options \in Options
    BY <1>1 DEF StartInv, Sized, Allocated, Limited, Warmups, Warm
  <2>2. buffer \in Nat /\ buffer >= RequiredBlocks
    BY <2>1 DEF PlanOK
  <2>3. buffer * BlockSize >= options.maxModelLen
    BY <2>1, <2>2, RequiredBlocksHold
  <2>4. /\ options.maxModelLen \in Nat /\ options.maxBatched \in Nat
        /\ options.maxModelLen >= 2 /\ options.maxBatched > 0
    BY <2>1, SizingShape DEF OptionsOK
  <2> QED
    BY <2>1, <2>3, <2>4 DEF WarmupTokens, Smaller
<1>2. buffer * BlockSize \in Nat
  BY SizingShape DEF StartInv
<1>3. stage \in {"shape", "reserve", "ready"} => stage \in Limited
  BY DEF Limited, Warmups, Warm
<1>4. WarmupAlwaysFits
  BY <1>1, <1>2, <1>3 DEF WarmupAlwaysFits
<1>5. ReadyHoldsOneRequest
  BY <1>1, <1>3 DEF ReadyHoldsOneRequest, OptionsOK
<1>6. WarmedBeforeReady
  BY <1>1, <1>3 DEF WarmedBeforeReady, StartInv, Warm
<1> QED
  BY <1>4, <1>5, <1>6 DEF ReadyCanServe

(* An engine that admits requests holds one request of max_model_len       *)
(* tokens, and its prefill and its decode kernel have run on slots of the  *)
(* cache: LLM::new returns nothing else.                                   *)
THEOREM StartupReadyCanServe == StartupSpec => []ReadyCanServe
<1>1. StartInv => ReadyCanServe
  BY ReadyFacts
<1> QED
  BY <1>1, StartInitInv, StartStepPreserves, PTL DEF StartupSpec
-----------------------------------------------------------------------------
(* The resolution of the model.  pc tells what is already known of the     *)
(* artifacts; everything taken comes from the pinned snapshot, whatever    *)
(* the name designates by now and whatever is left of the cache.           *)
Unpinned == {"dtype", "revision", "root"}
Opening == {"load", "factory", "map", "loaded"}
HubLate == {"weights", "single", "index", "shards", "select"}
HubCalls == {"required", "config", "tokenizer", "generation"} \cup HubLate
PinnedCalls == {"local"} \cup HubCalls \cup Opening

(* The files fetched before the weights.                                   *)
SmallFiles == {"config", "tokenizer", "generation", "index"}

(* A directory that an orderly download has written: weights come last.    *)
Orderly(files, s) ==
  /\ files \subseteq Snapshot[s].files
  /\ files \cap Range(Shards) # {} => Snapshot[s].files \cap SmallFiles \subseteq files

(* The listing is that of the pinned snapshot, as much of it as offline    *)
(* has.                                                                    *)
ListingOK ==
  IF source.mode = "offline" THEN Orderly(listing, pinned) ELSE listing = Snapshot[pinned].files

(* The shards the listing leads to, and the artifacts they become.         *)
ChosenShards ==
  CASE WeightRoute(listing) = "index" -> ShardNames(pinned)
    [] WeightRoute(listing) = "single" -> <<"model">>
    [] OTHER -> Retain(Shards, listing)

(* The weights are those shards, all of the pinned snapshot.               *)
WeightsTaken ==
  /\ ChosenShards # <<>> /\ Range(ChosenShards) \subseteq listing
  /\ weights = [i \in DOMAIN ChosenShards |-> <<pinned, ChosenShards[i]>>]
  /\ Hub => WeightRoute(listing) # "bare"

(* Between two shards: what is taken and what is still to do.              *)
ShardsUnderway ==
  LET names == ShardNames(pinned)
  IN  /\ WeightRoute(listing) = "index" /\ names # <<>>
      /\ weights \in Seq(Snapshots \X Range(Shards)) /\ todo \in Seq(Range(Shards))
      /\ Len(weights) + Len(todo) = Len(names)
      /\ \A i \in 1 .. Len(weights) : weights[i] = <<pinned, names[i]>> /\ names[i] \in listing
      /\ \A i \in 1 .. Len(todo) : todo[i] = names[Len(weights) + i]

(* The stop tokens are the declared ones, within the vocabulary.           *)
StopsOK ==
  /\ Range(stops) = Declared("eos").ids /\ Range(stops) # {}
  /\ Range(stops) \subseteq Snapshot[pinned].vocab

(* generation_config.json, where there is one.                             *)
GenerationFile == IF "generation" \in listing THEN <<pinned, "generation">> ELSE <<>>

(* What is known at each stage of the resolution.                          *)
ResInv ==
  /\ source \in Sources /\ ref \in Snapshots
  /\ source.mode = "offline" => \A s \in Snapshots : Orderly(cached[s], s)
  /\ pc \in {"failed"} \cup Unpinned \cup PinnedCalls
  /\ pc \notin {"dtype", "failed"} => source.dtype = "none" \/ Supported(source.dtype)
  /\ pc \in Unpinned => Designated \in named /\ pinned = "none"
  /\ pc \in PinnedCalls => pinned \in named /\ pinned \in Snapshots /\ ListingOK
  /\ pc \in {"revision"} \cup HubCalls => Hub
  /\ pc \in {"root", "local"} => ~Hub
  /\ pc \in {"tokenizer", "generation"} \cup HubLate \cup Opening => configFile = <<pinned, "config">>
  /\ pc \in {"generation"} \cup HubLate \cup Opening => tokenizer = <<pinned, "tokenizer">>
  /\ pc \in HubLate \cup Opening => generation = GenerationFile
  /\ pc \in (HubCalls \ HubLate) \cup Unpinned => generation = <<>>
  /\ pc = "generation" => "generation" \in listing
  /\ pc \in (HubCalls \ {"shards", "select"}) \cup Unpinned => weights = <<>>
  /\ pc \in {"index", "single"} => WeightRoute(listing) = pc
  /\ pc = "shards" => ShardsUnderway
  /\ pc \in {"select"} \cup Opening => WeightsTaken
  /\ pc \in Opening => dtype = SelectDtype(pinned) /\ dtype # "none"
  /\ pc \in Opening \ {"load"} => StopsOK
  /\ RefusalHasCause
  /\ stage \in Built => pc = "loaded"

(* What a sequence of S ranges over, and only the empty one over nothing.  *)
LEMMA RangeOfSequence ==
  ASSUME NEW S, NEW q \in Seq(S)
  PROVE  /\ Range(q) \subseteq S
         /\ q \in Seq(Range(q))
         /\ Range(q) = {} => q = <<>>
<1>1. q \in [1 .. Len(q) -> S] /\ Len(q) \in Nat /\ DOMAIN q = 1 .. Len(q)
  OBVIOUS
<1>2. Range(q) \subseteq S
  BY <1>1 DEF Range
<1>3. q \in Seq(Range(q))
  BY <1>1 DEF Range
<1>4. Range(q) = {} => q = <<>>
  <2> SUFFICES ASSUME Range(q) = {} PROVE q = <<>>
    OBVIOUS
  <2>1. Len(q) = 0
    <3> SUFFICES ASSUME Len(q) # 0 PROVE FALSE
      OBVIOUS
    <3>1. 1 \in DOMAIN q
      BY <1>1
    <3>2. q[1] \in Range(q)
      BY <3>1 DEF Range
    <3> QED
      BY <3>2
  <2> QED
    BY <2>1
<1> QED
  BY <1>2, <1>3, <1>4

(* Joining sequences joins their ranges.                                   *)
LEMMA RangeOfJoin ==
  ASSUME NEW S, NEW a \in Seq(S), NEW b \in Seq(S)
  PROVE  a \o b \in Seq(S) /\ Range(a \o b) = Range(a) \cup Range(b)
<1>1. a \o b \in Seq(S)
  BY ConcatProperties
<1>2. Range(a \o b) = Range(a) \cup Range(b)
  BY RangeConcatenation
<1> QED
  BY <1>1, <1>2

(* The shard names of an index: each once, all of them, or a refusal.      *)
LEMMA ShardNamesProperties ==
  ASSUME NEW s \in Snapshots
  PROVE  /\ ShardNames(s) \in Seq(Range(Shards)) /\ NoDuplicates(ShardNames(s))
         /\ ShardNames(s) # <<>> =>
              /\ Range(ShardNames(s)) = Range(Snapshot[s].shards)
              /\ Range(Snapshot[s].shards) \cap Unsafe = {}
         /\ ShardNames(s) = <<>> =>
              Snapshot[s].shards = <<>> \/ Range(Snapshot[s].shards) \cap Unsafe # {}
<1> DEFINE inIndex == Range(Snapshot[s].shards)
<1>1. Shards \in Seq(Range(Shards)) /\ NoDuplicates(Shards)
  BY ResolutionShape DEF Range
<1>2. inIndex \subseteq Range(Shards) \cup Unsafe /\ (inIndex = {} => Snapshot[s].shards = <<>>)
  <2>1. Snapshot[s].shards \in Seq(Range(Shards) \cup Unsafe)
    BY ResolutionShape, Zenon
  <2>2. PICK q : q = Snapshot[s].shards
    OBVIOUS
  <2>3. PICK S : S = Range(Shards) \cup Unsafe
    OBVIOUS
  <2>4. q \in Seq(S)
    BY <2>1, <2>2, <2>3
  <2>5. Range(q) \subseteq S /\ (Range(q) = {} => q = <<>>)
    BY <2>4, RangeOfSequence
  <2> QED
    BY <2>2, <2>3, <2>5
<1>3. CASE inIndex \cap Unsafe # {}
  <2>1. ShardNames(s) = <<>>
    BY <1>3 DEF ShardNames
  <2> QED
    BY <1>3, <2>1 DEF NoDuplicates
<1>4. CASE inIndex \cap Unsafe = {}
  <2>1. ShardNames(s) = Retain(Shards, inIndex)
    BY <1>4 DEF ShardNames
  <2> HIDE DEF inIndex
  <2>2. /\ Retain(Shards, inIndex) \in Seq(Range(Shards)) /\ NoDuplicates(Retain(Shards, inIndex))
        /\ Range(Retain(Shards, inIndex)) = Range(Shards) \cap inIndex
    BY <1>1, RetainProperties
  <2>3. Range(Retain(Shards, inIndex)) = inIndex
    BY <1>2, <1>4, <2>2
  <2>4. Retain(Shards, inIndex) = <<>> => inIndex = {}
    BY <2>3 DEF Range
  <2> QED
    BY <1>2, <1>4, <2>1, <2>2, <2>3, <2>4 DEF inIndex
<1> QED
  BY <1>3, <1>4

(* A download that was cut short leaves the small files before any shard.  *)
LEMMA CutShortIsOrderly ==
  ASSUME NEW n \in Nat, NEW s \in Snapshots
  PROVE  Orderly(CutShort(n)[s], s)
<1> DEFINE files == Snapshot[s].files
           small == <<"config", "tokenizer", "generation", "index">>
           wanted == files \cap Range(Snapshot[s].shards)
           A == Retain(small, files)
           B == Retain(Shards, wanted)
           C == IF "index" \in files THEN <<>> ELSE Retain(<<"model">>, files)
           T == Range(Shards) \cup SmallFiles
           cut == {FetchOrder(s)[i] : i \in {j \in DOMAIN FetchOrder(s) : j <= n}}
<1>1. small \in Seq(T) /\ Range(small) = SmallFiles /\ Shards \in Seq(T) /\ <<"model">> \in Seq(T)
      /\ Range(<<"model">>) = {"model"} /\ "model" \in Range(Shards)
  <2>1. small \in Seq(SmallFiles) /\ DOMAIN small = 1 .. 4
    BY DEF SmallFiles
  <2>2. small[1] = "config" /\ small[2] = "tokenizer" /\ small[3] = "generation" /\ small[4] = "index"
    OBVIOUS
  <2>3. Range(small) = SmallFiles
    <3>1. \A i \in 1 .. 4 : i = 1 \/ i = 2 \/ i = 3 \/ i = 4
      OBVIOUS
    <3> QED
      BY <2>1, <2>2, <3>1 DEF Range, SmallFiles
  <2>4. Shards \in Seq(Range(Shards)) /\ "model" \in Range(Shards)
    BY ResolutionShape DEF Range
  <2> QED
    BY <2>1, <2>3, <2>4 DEF Range
<1>0. wanted \subseteq files
  OBVIOUS
<1>14. PICK one : one = <<"model">>
  OBVIOUS
<1>15. one \in Seq(T) /\ Range(one) = {"model"}
  BY <1>1, <1>14
<1> HIDE DEF small, T, wanted, files
<1>2. A \in Seq(T) /\ Range(A) = SmallFiles \cap files
  BY <1>1, RetainProperties
<1>3. B \in Seq(T) /\ Range(B) \subseteq Range(Shards) \cap files
  <2>1. B \in Seq(T) /\ Range(B) = Range(Shards) \cap wanted
    BY <1>1, RetainProperties
  <2> QED
    BY <1>0, <2>1
<1>4. C \in Seq(T) /\ Range(C) \subseteq Range(Shards) \cap files
  <2>1. Retain(one, files) \in Seq(T) /\ Range(Retain(one, files)) = Range(one) \cap files
    BY <1>15, RetainProperties
  <2>2. Range(Retain(one, files)) \subseteq Range(Shards) \cap files
    BY <1>1, <1>15, <2>1
  <2>3. CASE "index" \in files
    <3>1. C = <<>>
      BY <2>3
    <3>2. <<>> \in Seq(T) /\ Range(<<>>) = {}
      BY DEF Range
    <3> HIDE DEF C
    <3> QED
      BY <3>1, <3>2
  <2>4. CASE "index" \notin files
    <3>1. C = Retain(one, files)
      BY <1>14, <2>4
    <3> QED
      BY <2>1, <2>2, <3>1
  <2> QED
    BY <2>3, <2>4
<1>5. FetchOrder(s) = (A \o B) \o C
  BY DEF FetchOrder, small, files, wanted
<1>6. CutShort(n)[s] = cut
  BY DEF CutShort
<1>7. SmallFiles \cap Range(Shards) = {}
  BY ResolutionShape DEF SmallFiles
<1> HIDE DEF A, B, C
<1>8. PICK D : D \in Seq(T) /\ D = B \o C /\ Range(D) \subseteq Range(Shards) \cap files
  <2>1. B \o C \in Seq(T) /\ Range(B \o C) = Range(B) \cup Range(C)
    BY <1>3, <1>4, RangeOfJoin
  <2> QED
    BY <1>3, <1>4, <2>1
<1>9. PICK F : F = A \o D
  OBVIOUS
<1>10. FetchOrder(s) = F
  BY <1>2, <1>3, <1>4, <1>5, <1>8, <1>9, ConcatAssociative
<1>11. /\ F \in Seq(T) /\ Len(F) = Len(A) + Len(D) /\ Len(A) \in Nat /\ Len(D) \in Nat
       /\ \A i \in 1 .. Len(A) : F[i] = A[i]
       /\ \A i \in Len(A) + 1 .. Len(F) : F[i] = D[i - Len(A)]
  BY <1>2, <1>8, <1>9, ConcatProperties
<1>12. cut \subseteq files
  <2>1. Range(F) = Range(A) \cup Range(D)
    <3>1. A \in Seq(T) /\ D \in Seq(T)
      BY <1>2, <1>8
    <3>2. Range(A \o D) = Range(A) \cup Range(D)
      BY <3>1, RangeOfJoin
    <3> QED
      BY <1>9, <3>2
  <2>2. Range(F) \subseteq files
    BY <1>2, <1>8, <2>1
  <2> QED
    BY <1>10, <2>2 DEF Range
<1>13. ASSUME cut \cap Range(Shards) # {} PROVE files \cap SmallFiles \subseteq cut
  <2>1. PICK j \in DOMAIN F : j <= n /\ F[j] \in Range(Shards)
    BY <1>10, <1>13
  <2>2. j \in 1 .. Len(F)
    BY <1>11, <2>1
  <2>3. ~(j <= Len(A))
    <3>1. SUFFICES ASSUME j <= Len(A) PROVE FALSE
      OBVIOUS
    <3>2. F[j] = A[j] /\ j \in DOMAIN A
      BY <1>2, <1>11, <2>2, <3>1
    <3>3. A[j] \in SmallFiles
      BY <1>2, <3>2 DEF Range
    <3> QED
      BY <1>7, <2>1, <3>2, <3>3
  <2>4. \A i \in 1 .. Len(A) : i <= n /\ i \in DOMAIN F
    BY <1>11, <2>1, <2>2, <2>3
  <2>5. Range(A) \subseteq cut
    <3>1. \A i \in 1 .. Len(A) : A[i] \in cut
      BY <1>10, <1>11, <2>4
    <3>2. DOMAIN A = 1 .. Len(A)
      BY <1>2
    <3> QED
      BY <3>1, <3>2 DEF Range
  <2> QED
    BY <1>2, <2>5
<1> QED
  BY <1>6, <1>12, <1>13 DEF Orderly, files

(* The stop tokens as a sequence.                                          *)
LEMMA SequenceOfSet ==
  ASSUME NEW S, IsFiniteSet(S)
  PROVE  Range(SetToSeq(S)) = S
<1> DEFINE n == Cardinality(S)
           f == SetToSeq(S)
<1>1. n \in Nat /\ ExistsBijection(1 .. n, S)
  BY FS_CardinalityType
<1>2. \E g \in [1 .. n -> S] : IsInjective(g)
  <2>1. PICK g : g \in Bijection(1 .. n, S)
    BY <1>1 DEF ExistsBijection
  <2> QED
    BY <2>1 DEF Bijection, Injection
<1>3. f \in [1 .. n -> S] /\ IsInjective(f)
  BY <1>2 DEF SetToSeq
<1>4. f \in Injection(1 .. n, S)
  BY <1>3 DEF Injection
<1>5. IsFiniteSet(1 .. n) /\ Cardinality(1 .. n) = n
  <2>1. Cardinality(1 .. n) = IF 1 > n THEN 0 ELSE n - 1 + 1
    BY <1>1, FS_Interval
  <2>2. IsFiniteSet(1 .. n)
    BY <1>1, FS_Interval
  <2> HIDE DEF n
  <2> QED
    BY <1>1, <2>1, <2>2
<1> HIDE DEF n, f
<1>6. f \in Surjection(1 .. n, S)
  <2>1. Cardinality(1 .. n) = Cardinality(S)
    BY <1>5 DEF n
  <2>2. PICK I : I = 1 .. n
    OBVIOUS
  <2>3. Cardinality(I) = Cardinality(S) <=> f \in Surjection(I, S)
    BY <1>4, <2>2, FS_Injection
  <2> QED
    BY <2>1, <2>2, <2>3
<1>7. Range(f) = S
  BY <1>3, <1>6 DEF Surjection, Range
<1> QED
  BY <1>7 DEF f

(* What may make a resolution fail that nothing disturbed.                 *)
Cause ==
  \/ source.dtype \notin {"none", "BF16", "F16"}
  \/ ~Sound(pinned)
  \/ source.mode = "offline" /\ listing # Snapshot[pinned].files

(* The invariant of the resolution holds at the start.                     *)
LEMMA ResInitInv == StartupInit => ResInv
<1> SUFFICES ASSUME StartupInit PROVE ResInv
  OBVIOUS
<1>1. ResInit /\ stage = "validate"
  BY DEF StartupInit, StartInit
<1>2. \A s \in Snapshots : Orderly(cached[s], s)
  <2> SUFFICES ASSUME NEW s \in Snapshots PROVE Orderly(cached[s], s)
    OBVIOUS
  <2>1. PICK n \in 0 .. Len(Shards) + 4 : cached = CutShort(n)
    BY <1>1 DEF ResInit
  <2>2. n \in Nat
    BY ResolutionShape
  <2> QED
    BY <2>1, <2>2, CutShortIsOrderly
<1>3. RefusalHasCause
  BY <1>1 DEF ResInit, RefusalHasCause
<1> QED
  BY <1>1, <1>2, <1>3 DEF ResInit, ResInv, Unpinned, PinnedCalls, HubCalls, HubLate, Opening,
     Built, Sized, Allocated, Limited, Warmups, Warm

(* A resolution that ends with an error, disturbed or for a cause.         *)
LEMMA FailingPreserves ==
  ASSUME ResInv, stage \notin Built, UNCHANGED <<source, ref, named, pinned, listing, allVars>>,
         source.mode = "offline" => cached' = cached,
         pc' = "failed", disturbed' \/ Cause
  PROVE  ResInv'
<1>1. Cause' <=> Cause
  BY DEF Cause, Sound, Hub
<1>2. RefusalHasCause'
  BY <1>1 DEF RefusalHasCause, Cause
<1>3. source'.mode = "offline" => \A s \in Snapshots : Orderly(cached[s], s)'
  BY DEF ResInv, Orderly
<1>4. stage' \notin Built
  BY DEF allVars, initVars
<1> QED
  BY <1>2, <1>3, <1>4 DEF ResInv, Unpinned, PinnedCalls, HubCalls, HubLate, Opening

(* A failed call of the hub.                                               *)
LEMMA DisturbedPreserves ==
  ASSUME ResInv, stage \notin Built, UNCHANGED allVars, Disturbed
  PROVE  ResInv'
BY FailingPreserves DEF Disturbed, To, hubVars

(* A refused artifact.                                                     *)
LEMMA RefusePreserves ==
  ASSUME ResInv, stage \notin Built, UNCHANGED allVars, Refuse, Cause
  PROVE  ResInv'
BY FailingPreserves DEF Refuse, To, hubVars

(* What only depends on the source, the snapshot and the listing.          *)
LEMMA PinnedFacts ==
  ASSUME UNCHANGED <<source, pinned, listing>>
  PROVE  /\ ListingOK' <=> ListingOK
         /\ GenerationFile' = GenerationFile
         /\ ChosenShards' = ChosenShards
         /\ Hub' <=> Hub
         /\ WeightRoute(listing)' = WeightRoute(listing)
         /\ SelectDtype(pinned)' = SelectDtype(pinned)
         /\ ShardNames(pinned)' = ShardNames(pinned)
BY DEF ListingOK, GenerationFile, ChosenShards, Hub, WeightRoute, SelectDtype, ShardNames, Orderly

(* The parts that no call of the resolution touches.                       *)
LEMMA StandingFacts ==
  ASSUME ResInv, stage \notin Built, UNCHANGED <<source, ref, named, allVars>>,
         source.mode = "offline" => cached' = cached, pc' \in PinnedCalls,
         pc \notin {"dtype", "failed"}
  PROVE  /\ source' \in Sources /\ ref' \in Snapshots
         /\ source'.mode = "offline" => \A s \in Snapshots : Orderly(cached[s], s)'
         /\ (source.dtype = "none" \/ Supported(source.dtype))'
         /\ pc' # "failed" /\ pc' \notin Unpinned
         /\ RefusalHasCause'
         /\ (stage \in Built => pc = "loaded")'
<1>1. pc' # "failed" /\ pc' \notin Unpinned
  BY DEF PinnedCalls, HubCalls, HubLate, Opening, Unpinned
<1> QED
  BY <1>1 DEF ResInv, Orderly, Supported, RefusalHasCause, allVars, initVars

(* dtype, revision, root: nothing is taken yet, and the name designates    *)
(* the snapshot when it is pinned.                                         *)
LEMMA PinningPreserves ==
  ASSUME ResInv, stage \notin Built, UNCHANGED allVars,
         CheckDtype \/ ResolveRevision \/ Canonicalize
  PROVE  ResInv'
<1> USE DEF Unpinned, PinnedCalls, HubCalls, HubLate, Opening
<1>1. CASE CheckDtype
  <2>1. CASE source.dtype = "none" \/ Supported(source.dtype)
    <3>1. /\ pc = "dtype" /\ pc' = IF Hub THEN "revision" ELSE "root"
          /\ UNCHANGED <<source, ref, cached, named, pinned, listing, todo, takenVars, dtype, stops,
                         disturbed>>
      BY <1>1, <2>1 DEF CheckDtype, To, Same, hubVars
    <3>2. stage' \notin Built
      BY DEF allVars, initVars
    <3>3. Designated' = Designated /\ (Hub' <=> Hub)
      BY <3>1 DEF Designated, Hub
    <3>4. source'.mode = "offline" => \A s \in Snapshots : Orderly(cached[s], s)'
      BY <3>1 DEF ResInv, Orderly
    <3> QED
      BY <2>1, <3>1, <3>2, <3>3, <3>4 DEF ResInv, Supported, RefusalHasCause, takenVars
  <2>2. CASE ~(source.dtype = "none" \/ Supported(source.dtype))
    <3>1. Refuse
      BY <1>1, <2>2 DEF CheckDtype
    <3>2. Cause
      BY <2>2 DEF Cause, Supported
    <3> QED
      BY <3>1, <3>2, RefusePreserves
  <2> QED
    BY <2>1, <2>2
<1>2. ASSUME pc \in {"revision", "root"},
             pinned' = Designated,
             listing' = Snapshot[Designated].files
               \/ (source.mode = "offline" /\ listing' = cached[Designated]),
             pc' = IF pc = "revision" THEN "required" ELSE "local",
             UNCHANGED <<source, ref, cached, named, todo, takenVars, dtype, stops, disturbed>>
      PROVE  ResInv'
  <2>1. /\ pc' \in PinnedCalls /\ pc' # "failed" /\ pc' \notin Unpinned
        /\ Designated \in named /\ Designated \in Snapshots
    BY <1>2, ResolutionShape DEF ResInv, Designated
  <2>2. ListingOK'
    <3>1. source.mode = "offline" => Orderly(cached[Designated], Designated)
      BY <2>1 DEF ResInv
    <3>2. Orderly(Snapshot[Designated].files, Designated)
      BY DEF Orderly
    <3> QED
      BY <1>2, <3>1, <3>2 DEF ListingOK, Orderly
  <2>3. Hub' <=> Hub
    BY <1>2 DEF Hub
  <2>4. /\ source' \in Sources /\ ref' \in Snapshots
        /\ source'.mode = "offline" => \A s \in Snapshots : Orderly(cached[s], s)'
        /\ (source.dtype = "none" \/ Supported(source.dtype))'
        /\ RefusalHasCause'
        /\ (stage \in Built => pc = "loaded")'
    BY <1>2, <2>1, StandingFacts
  <2> QED
    BY <1>2, <2>1, <2>2, <2>3, <2>4 DEF ResInv, takenVars
<1>3. CASE ResolveRevision
  <2>1. CASE Disturbed
    BY <2>1, DisturbedPreserves
  <2>2. CASE ~Disturbed
    <3>1. /\ pc = "revision" /\ pinned' = Designated
          /\ listing' = IF source.mode = "online" THEN Snapshot[Designated].files ELSE cached[Designated]
          /\ pc' = "required"
          /\ UNCHANGED <<source, ref, cached, named, todo, takenVars, dtype, stops, disturbed>>
      BY <1>3, <2>2 DEF ResolveRevision, To, hubVars
    <3>2. source.mode \in {"online", "offline"}
      BY <3>1, ResolutionShape DEF ResInv, Hub
    <3>3. listing' = Snapshot[Designated].files
             \/ (source.mode = "offline" /\ listing' = cached[Designated])
      BY <3>1, <3>2
    <3>4. /\ pc \in {"revision", "root"} /\ pinned' = Designated
          /\ pc' = IF pc = "revision" THEN "required" ELSE "local"
          /\ UNCHANGED <<source, ref, cached, named, todo, takenVars, dtype, stops, disturbed>>
      BY <3>1
    <3> HIDE DEF Unpinned, PinnedCalls, HubCalls, HubLate, Opening
    <3> QED
      BY <1>2, <3>3, <3>4, Zenon
  <2> QED
    BY <2>1, <2>2
<1>4. CASE Canonicalize
  <2>1. /\ pc \in {"revision", "root"} /\ pinned' = Designated
        /\ pc' = IF pc = "revision" THEN "required" ELSE "local"
        /\ UNCHANGED <<source, ref, cached, named, todo, takenVars, dtype, stops, disturbed>>
    BY <1>4 DEF Canonicalize, To, hubVars
  <2>2. listing' = Snapshot[Designated].files
           \/ (source.mode = "offline" /\ listing' = cached[Designated])
    BY <1>4 DEF Canonicalize
  <2> HIDE DEF Unpinned, PinnedCalls, HubCalls, HubLate, Opening
  <2> QED
    BY <1>2, <2>1, <2>2, Zenon
<1> QED
  BY <1>1, <1>3, <1>4

(* The small files of a Hub revision, and the route to its weights.        *)
LEMMA MetadataPreserves ==
  ASSUME ResInv, stage \notin Built, UNCHANGED allVars,
         CheckRequired \/ GetConfig \/ GetTokenizer \/ GetGeneration \/ ChooseWeights
  PROVE  ResInv'
<1> USE DEF Unpinned, PinnedCalls, HubCalls, HubLate, Opening
<1>1. ASSUME pc \in {"required", "config", "tokenizer", "generation", "weights"}
      PROVE  /\ Hub /\ weights = <<>> /\ pinned \in named /\ pinned \in Snapshots /\ ListingOK
             /\ pc # "weights" => generation = <<>>
  BY <1>1 DEF ResInv
<1>2. ASSUME pc \in {"required", "config", "tokenizer", "generation", "weights"},
             <<pc, pc'>> \in
               {<<"required", "config">>, <<"config", "tokenizer">>, <<"tokenizer", "generation">>,
                <<"tokenizer", "weights">>, <<"generation", "weights">>, <<"weights", "index">>,
                <<"weights", "single">>},
             UNCHANGED <<source, ref, named, pinned, listing, todo, weights, dtype, stops, disturbed>>,
             source.mode = "offline" => cached' = cached,
             configFile' = IF pc = "config" THEN <<pinned, "config">> ELSE configFile,
             tokenizer' = IF pc = "tokenizer" THEN <<pinned, "tokenizer">> ELSE tokenizer,
             generation' = IF pc = "generation" THEN <<pinned, "generation">> ELSE generation,
             pc = "tokenizer" => (pc' = "generation" <=> "generation" \in listing),
             pc' \in {"index", "single"} => WeightRoute(listing) = pc'
      PROVE  ResInv'
  <2>1. /\ pc' \in {"config", "tokenizer", "generation", "weights", "index", "single"}
        /\ pc' = "tokenizer" => pc = "config"
        /\ pc' = "generation" => pc = "tokenizer"
        /\ pc' = "weights" => pc \in {"tokenizer", "generation"}
        /\ pc' \in {"index", "single"} => pc = "weights"
        /\ pc' = "config" => pc = "required"
    BY <1>2
  <2>2. /\ Hub /\ weights = <<>> /\ pinned \in named /\ pinned \in Snapshots /\ ListingOK
        /\ pc # "weights" => generation = <<>>
    BY <1>1, <1>2
  <2>3. /\ ListingOK' <=> ListingOK
        /\ GenerationFile' = GenerationFile
        /\ Hub' <=> Hub
        /\ WeightRoute(listing)' = WeightRoute(listing)
    BY <1>2, PinnedFacts
  <2>4. pc' = "weights" => generation' = GenerationFile
    BY <1>2, <2>1, <2>2 DEF GenerationFile, ResInv
  <2>5. /\ source' \in Sources /\ ref' \in Snapshots
        /\ source'.mode = "offline" => \A s \in Snapshots : Orderly(cached[s], s)'
        /\ (source.dtype = "none" \/ Supported(source.dtype))'
        /\ RefusalHasCause'
        /\ (stage \in Built => pc = "loaded")'
    BY <1>2, <2>1, StandingFacts
  <2>6. /\ pc' \in {"tokenizer", "generation", "weights", "index", "single"}
             => configFile' = <<pinned, "config">>
        /\ pc' \in {"generation", "weights", "index", "single"} => tokenizer' = <<pinned, "tokenizer">>
        /\ pc' \in {"weights", "index", "single"} => generation' = GenerationFile
        /\ pc' \in {"config", "tokenizer", "generation"} => generation' = <<>>
        /\ pc' = "generation" => "generation" \in listing
    BY <1>2, <2>1, <2>2, <2>4 DEF ResInv
  <2> QED
    BY <1>2, <2>1, <2>2, <2>3, <2>5, <2>6 DEF ResInv
<1>3. ASSUME NEW from, NEW file \in SmallFiles, NEW next, Fetch(from, file, next), ~Disturbed
      PROVE  /\ pc = from /\ pc' = next
             /\ UNCHANGED <<source, ref, named, pinned, listing, todo, weights, dtype, stops, disturbed>>
             /\ source.mode = "offline" => cached' = cached
             /\ configFile' = IF file = "config" THEN <<pinned, "config">> ELSE configFile
             /\ tokenizer' = IF file = "tokenizer" THEN <<pinned, "tokenizer">> ELSE tokenizer
             /\ generation' = IF file = "generation" THEN <<pinned, "generation">> ELSE generation
  BY <1>3, ResolutionShape DEF Fetch, Downloads, Got, SmallFiles
<1>4. CASE CheckRequired
  <2>1. CASE {"config", "tokenizer"} \subseteq listing
    BY <1>2, <1>4, <2>1 DEF CheckRequired, To, Same, hubVars, takenVars
  <2>2. CASE ~({"config", "tokenizer"} \subseteq listing)
    <3>1. Refuse /\ pc = "required"
      BY <1>4, <2>2 DEF CheckRequired
    <3>2. Cause
      BY <1>1, <2>2, <3>1 DEF Cause, Sound, ListingOK
    <3> QED
      BY <3>1, <3>2, RefusePreserves
  <2> QED
    BY <2>1, <2>2
<1>5. CASE Disturbed
  BY <1>5, DisturbedPreserves
<1>6. CASE GetConfig /\ ~Disturbed
  BY <1>2, <1>3, <1>6 DEF GetConfig, SmallFiles
<1>7. CASE GetTokenizer /\ ~Disturbed
  BY <1>2, <1>3, <1>7 DEF GetTokenizer, SmallFiles
<1>8. CASE GetGeneration /\ ~Disturbed
  <2>1. Fetch("generation", "generation", "weights") /\ "generation" \in SmallFiles
    BY <1>8 DEF GetGeneration, SmallFiles
  <2>2. /\ pc = "generation" /\ pc' = "weights"
        /\ UNCHANGED <<source, ref, named, pinned, listing, todo, weights, dtype, stops, disturbed>>
        /\ source.mode = "offline" => cached' = cached
        /\ configFile' = configFile /\ tokenizer' = tokenizer
        /\ generation' = <<pinned, "generation">>
    BY <1>3, <1>8, <2>1
  <2> QED
    BY <1>2, <2>2
<1>9. CASE ChooseWeights
  <2>1. CASE WeightRoute(listing) # "bare"
    <3>1. WeightRoute(listing) \in {"index", "single"}
      BY <2>1 DEF WeightRoute
    <3> QED
      BY <1>2, <1>9, <2>1, <3>1 DEF ChooseWeights, To, Same, hubVars, takenVars
  <2>2. CASE WeightRoute(listing) = "bare"
    <3>1. Refuse /\ pc = "weights"
      BY <1>9, <2>2 DEF ChooseWeights
    <3>2. Cause
      BY <1>1, <2>2, <3>1 DEF Cause, Sound, ListingOK, WeightRoute
    <3> QED
      BY <3>1, <3>2, RefusePreserves
  <2> QED
    BY <2>1, <2>2
<1> QED
  BY <1>4, <1>5, <1>6, <1>7, <1>8, <1>9

(* The weights of a Hub revision, one file at a time.                      *)
LEMMA WeightFilesPreserve ==
  ASSUME ResInv, stage \notin Built, UNCHANGED allVars,
         GetSingle \/ GetIndex \/ GetShard
  PROVE  ResInv'
<1> DEFINE names == ShardNames(pinned)
<1>1. /\ pc \in {"single", "index", "shards"} /\ Hub
      /\ pinned \in named /\ pinned \in Snapshots /\ ListingOK
      /\ configFile = <<pinned, "config">> /\ tokenizer = <<pinned, "tokenizer">>
      /\ generation = GenerationFile
      /\ pc # "shards" => weights = <<>> /\ WeightRoute(listing) = pc
  BY DEF ResInv, GetSingle, GetIndex, GetShard, Fetch, HubCalls, HubLate, PinnedCalls
<1>2. ASSUME pc' \in {"shards", "select"},
             UNCHANGED <<source, ref, named, pinned, listing, configFile, tokenizer, generation,
                         dtype, stops, disturbed>>,
             source.mode = "offline" => cached' = cached,
             pc' = "shards" => ShardsUnderway',
             pc' = "select" => WeightsTaken'
      PROVE  ResInv'
  <2>1. /\ ListingOK' <=> ListingOK
        /\ GenerationFile' = GenerationFile
        /\ Hub' <=> Hub
    BY <1>2, PinnedFacts
  <2>2. pc' \in PinnedCalls /\ pc \notin {"dtype", "failed"}
    BY <1>1, <1>2 DEF PinnedCalls, HubCalls, HubLate
  <2>3. /\ source' \in Sources /\ ref' \in Snapshots
        /\ source'.mode = "offline" => \A s \in Snapshots : Orderly(cached[s], s)'
        /\ (source.dtype = "none" \/ Supported(source.dtype))'
        /\ RefusalHasCause'
        /\ (stage \in Built => pc = "loaded")'
    BY <1>2, <2>2, StandingFacts
  <2> QED
    BY <1>1, <1>2, <2>1, <2>2, <2>3 DEF ResInv, Unpinned, PinnedCalls, HubCalls, HubLate, Opening
<1>3. /\ names \in Seq(Range(Shards)) /\ Len(names) \in Nat
      /\ names # <<>> => Range(names) = Range(Snapshot[pinned].shards)
                         /\ Range(Snapshot[pinned].shards) \cap Unsafe = {}
      /\ names = <<>> => Snapshot[pinned].shards = <<>>
                         \/ Range(Snapshot[pinned].shards) \cap Unsafe # {}
  BY <1>1, ShardNamesProperties
<1>4. CASE Disturbed
  BY <1>4, DisturbedPreserves
<1>5. CASE GetSingle /\ ~Disturbed
  <2>1. "model" \in Range(Shards) /\ "model" \notin SmallFiles
    BY ResolutionShape DEF SmallFiles
  <2>2. /\ pc = "single" /\ pc' = "select"
        /\ UNCHANGED <<source, ref, named, pinned, listing, configFile, tokenizer, generation,
                       dtype, stops, disturbed>>
        /\ source.mode = "offline" => cached' = cached
        /\ weights' = Append(weights, <<pinned, "model">>)
    BY <1>5, <2>1 DEF GetSingle, Fetch, Downloads, Got, SmallFiles
  <2>3. WeightRoute(listing) = "single" /\ "model" \in listing /\ weights = <<>>
    BY <1>1, <2>2 DEF WeightRoute
  <2>4. WeightRoute(listing)' = "single" /\ "model" \in listing' /\ ChosenShards' = <<"model">>
    BY <2>2, <2>3 DEF WeightRoute, ChosenShards
  <2>5. weights' = <<<<pinned, "model">>>>
    BY <2>2, <2>3
  <2>6. weights' = [i \in 1 .. 1 |-> <<pinned', <<"model">>[i]>>]
    BY <2>2, <2>5
  <2>7. DOMAIN <<"model">> = 1 .. 1 /\ <<"model">> # <<>> /\ Range(<<"model">>) \subseteq {"model"}
    BY DEF Range
  <2>8. WeightsTaken'
    BY <2>4, <2>6, <2>7 DEF WeightsTaken
  <2> QED
    BY <1>2, <2>2, <2>8
<1>6. CASE GetIndex /\ ~Disturbed
  <2>1. /\ pc = "index" /\ todo' = names
        /\ pc' = IF names # <<>> THEN "shards" ELSE "failed"
        /\ source.mode = "offline" => cached' = cached
        /\ UNCHANGED <<source, ref, named, pinned, listing, configFile, tokenizer, generation, weights,
                       dtype, stops, disturbed>>
    BY <1>6 DEF GetIndex, Downloads, Got, takenVars
  <2>2. CASE names # <<>>
    <3>1. names' = names /\ WeightRoute(listing)' = "index" /\ weights' = <<>> /\ pinned' = pinned
      BY <1>1, <2>1, PinnedFacts
    <3>2. weights' \in Seq(Snapshots \X Range(Shards)) /\ Len(weights') = 0
      BY <3>1
    <3> HIDE DEF names
    <3>3. ShardsUnderway'
      BY <1>3, <2>1, <2>2, <3>1, <3>2 DEF ShardsUnderway, names
    <3> QED
      BY <1>2, <2>1, <2>2, <3>3
  <2>3. CASE names = <<>>
    <3>1. "index" \in listing
      BY <1>1, <2>1 DEF WeightRoute
    <3>2. Cause
      BY <1>1, <1>3, <2>3, <3>1 DEF Cause, Sound, ListingOK
    <3> QED
      BY <2>1, <2>3, <3>2, FailingPreserves
  <2> QED
    BY <2>2, <2>3
<1>7. CASE GetShard /\ ~Disturbed
  <2>1. pc = "shards" /\ ShardsUnderway
    BY <1>7 DEF GetShard, ResInv
  <2>2. /\ WeightRoute(listing) = "index" /\ "index" \in listing /\ names # <<>>
        /\ weights \in Seq(Snapshots \X Range(Shards)) /\ todo \in Seq(Range(Shards))
        /\ Len(weights) + Len(todo) = Len(names)
        /\ \A i \in 1 .. Len(weights) : weights[i] = <<pinned, names[i]>> /\ names[i] \in listing
        /\ \A i \in 1 .. Len(todo) : todo[i] = names[Len(weights) + i]
        /\ Len(weights) \in Nat /\ Len(todo) \in Nat
    BY <2>1 DEF ShardsUnderway, WeightRoute
  <2> HIDE DEF names
  <2>3. CASE todo = <<>>
    <3>1. /\ pc' = "select"
          /\ UNCHANGED <<source, ref, cached, named, pinned, listing, todo, configFile, tokenizer,
                         generation, weights, dtype, stops, disturbed>>
      BY <1>7, <2>3 DEF GetShard, To, Same, hubVars, takenVars
    <3>2. ChosenShards = names
      BY <2>2 DEF ChosenShards, names
    <3>3. Len(weights) = Len(names) /\ DOMAIN names = 1 .. Len(names) /\ DOMAIN weights = 1 .. Len(weights)
      BY <1>3, <2>2, <2>3
    <3>4. weights = [i \in DOMAIN names |-> <<pinned, names[i]>>]
      BY <2>2, <3>3
    <3>5. Range(names) \subseteq listing
      BY <2>2, <3>3 DEF Range
    <3>6. WeightsTaken
      BY <2>2, <3>2, <3>4, <3>5 DEF WeightsTaken
    <3>7. ChosenShards' = ChosenShards /\ (Hub' <=> Hub) /\ WeightRoute(listing)' = WeightRoute(listing)
      BY <3>1, PinnedFacts
    <3>8. WeightsTaken'
      BY <3>1, <3>6, <3>7 DEF WeightsTaken
    <3> QED
      BY <1>2, <3>1, <3>8
  <2>4. CASE todo # <<>>
    <3>1. Len(todo) > 0 /\ Head(todo) = todo[1] /\ Head(todo) = names[Len(weights) + 1]
          /\ Head(todo) \in Range(Shards)
      BY <2>2, <2>4
    <3>2. CASE Head(todo) \notin listing
      <4>1. Refuse
        BY <1>7, <2>4, <3>2 DEF GetShard
      <4>2. Head(todo) \in Range(Snapshot[pinned].shards)
        <5>1. Len(weights) + 1 \in DOMAIN names
          BY <1>3, <2>2, <3>1
        <5>2. names[Len(weights) + 1] \in Range(names)
          BY <5>1 DEF Range
        <5> QED
          BY <1>3, <2>2, <3>1, <5>2
      <4>3. Cause
        BY <1>1, <2>2, <3>2, <4>2 DEF Cause, Sound, ListingOK
      <4> QED
        BY <4>1, <4>3, RefusePreserves
    <3>3. CASE Head(todo) \in listing
      <4>1. /\ weights' = Append(weights, <<pinned, Head(todo)>>) /\ todo' = Tail(todo)
            /\ source.mode = "offline" => cached' = cached
            /\ UNCHANGED <<source, ref, named, pc, pinned, listing, configFile, tokenizer,
                           generation, dtype, stops, disturbed>>
        BY <1>7, <2>4, <3>3 DEF GetShard, Downloads, Got
      <4>2. names' = names /\ WeightRoute(listing)' = "index"
        BY <2>2, <4>1, PinnedFacts DEF names
      <4>3. PICK w, t : w = weights' /\ t = todo'
        OBVIOUS
      <4>4. <<pinned, Head(todo)>> \in Snapshots \X Range(Shards)
        BY <1>1, <3>1
      <4>5. /\ w \in Seq(Snapshots \X Range(Shards)) /\ Len(w) = Len(weights) + 1
            /\ \A i \in 1 .. Len(weights) : w[i] = weights[i]
            /\ w[Len(weights) + 1] = <<pinned, Head(todo)>>
        BY <2>2, <4>1, <4>3, <4>4, AppendProperties
      <4>6. t \in Seq(Range(Shards)) /\ Len(t) = Len(todo) - 1 /\ \A i \in 1 .. Len(t) : t[i] = todo[i + 1]
        BY <2>2, <2>4, <4>1, <4>3, HeadTailProperties
      <4>7. \A i \in 1 .. Len(w) : w[i] = <<pinned, names[i]>> /\ names[i] \in listing
        <5> TAKE i \in 1 .. Len(w)
        <5>1. i \in 1 .. Len(weights) \/ i = Len(weights) + 1
          BY <2>2, <4>5
        <5> QED
          BY <2>2, <3>1, <3>3, <4>5, <5>1
      <4>8. \A i \in 1 .. Len(t) : t[i] = names[Len(w) + i]
        <5> TAKE i \in 1 .. Len(t)
        <5>1. i + 1 \in 1 .. Len(todo) /\ t[i] = todo[i + 1]
          BY <2>2, <4>6
        <5>2. todo[i + 1] = names[Len(weights) + (i + 1)]
          BY <2>2, <5>1
        <5>3. Len(weights) + (i + 1) = Len(w) + i
          BY <2>2, <4>5
        <5> QED
          BY <5>1, <5>2, <5>3
      <4>9. Len(w) + Len(t) = Len(names)
        <5>1. Len(weights) + Len(todo) = Len(names) /\ Len(weights) \in Nat /\ Len(todo) \in Nat
          BY <2>2
        <5>2. Len(w) = Len(weights) + 1 /\ Len(t) = Len(todo) - 1
          BY <4>5, <4>6
        <5> QED
          BY <5>1, <5>2
      <4>10. pinned' = pinned /\ listing' = listing
        BY <4>1
      <4>11. ShardsUnderway'
        BY <2>2, <4>2, <4>3, <4>5, <4>6, <4>7, <4>8, <4>9, <4>10 DEF ShardsUnderway, names
      <4> QED
        BY <1>2, <2>1, <4>1, <4>11
    <3> QED
      BY <3>2, <3>3
  <2> QED
    BY <2>3, <2>4
<1> QED
  BY <1>4, <1>5, <1>6, <1>7

(* The artifacts are complete: the dtype is chosen.                        *)
LEMMA SelectingPreserves ==
  ASSUME ResInv, stage \notin Built, UNCHANGED allVars,
         SelectHubDtype \/ ReadLocal
  PROVE  ResInv'
<1>1. ASSUME pc \in {"select", "local"}, pc' = "load",
             UNCHANGED <<source, ref, cached, named, pinned, listing, todo, stops, disturbed>>,
             configFile' = <<pinned, "config">>, tokenizer' = <<pinned, "tokenizer">>,
             generation' = GenerationFile, WeightsTaken',
             dtype' = SelectDtype(pinned), dtype' # "none"
      PROVE  ResInv'
  <2>1. /\ ListingOK' <=> ListingOK
        /\ GenerationFile' = GenerationFile
        /\ Hub' <=> Hub
        /\ SelectDtype(pinned)' = SelectDtype(pinned)
    BY <1>1, PinnedFacts
  <2>2. pc' \in PinnedCalls /\ pc \notin {"dtype", "failed"} /\ pc \in PinnedCalls
    BY <1>1 DEF PinnedCalls, HubCalls, HubLate, Opening
  <2>3. /\ source' \in Sources /\ ref' \in Snapshots
        /\ source'.mode = "offline" => \A s \in Snapshots : Orderly(cached[s], s)'
        /\ (source.dtype = "none" \/ Supported(source.dtype))'
        /\ RefusalHasCause'
        /\ (stage \in Built => pc = "loaded")'
    BY <1>1, <2>2, StandingFacts
  <2>4. pinned \in named /\ pinned \in Snapshots /\ ListingOK
    BY <2>2 DEF ResInv
  <2> QED
    BY <1>1, <2>1, <2>2, <2>3, <2>4 DEF ResInv, Unpinned, PinnedCalls, HubCalls, HubLate, Opening
<1>2. SelectDtype(pinned) = "none" => source.dtype = "none" /\ ~Supported(Snapshot[pinned].dtype)
  BY DEF SelectDtype, Supported
<1>3. CASE SelectHubDtype
  <2>1. /\ pc = "select" /\ WeightsTaken /\ ListingOK /\ pinned \in Snapshots
        /\ configFile = <<pinned, "config">> /\ tokenizer = <<pinned, "tokenizer">>
        /\ generation = GenerationFile
    BY <1>3 DEF SelectHubDtype, ResInv, PinnedCalls, HubCalls, HubLate
  <2>2. configFile[1] = pinned
    BY <2>1
  <2>3. CASE Disturbed
    BY <2>3, DisturbedPreserves
  <2>4. CASE SelectDtype(pinned) = "none" /\ ~Disturbed
    <3>1. Refuse
      BY <1>3, <2>2, <2>4 DEF SelectHubDtype
    <3>2. Cause
      BY <1>2, <2>4 DEF Cause, Sound, Supported
    <3> QED
      BY <3>1, <3>2, RefusePreserves
  <2>5. CASE SelectDtype(pinned) # "none" /\ ~Disturbed
    <3>1. /\ dtype' = SelectDtype(pinned) /\ pc' = "load"
          /\ UNCHANGED <<source, ref, cached, named, pinned, listing, todo, configFile, tokenizer,
                         generation, weights, stops, disturbed>>
      BY <1>3, <2>2, <2>5 DEF SelectHubDtype, To, hubVars, takenVars
    <3>2. ChosenShards' = ChosenShards /\ (Hub' <=> Hub) /\ WeightRoute(listing)' = WeightRoute(listing)
      BY <3>1, PinnedFacts
    <3>3. WeightsTaken'
      BY <2>1, <3>1, <3>2 DEF WeightsTaken
    <3> QED
      BY <1>1, <2>1, <2>5, <3>1, <3>3
  <2> QED
    BY <2>3, <2>4, <2>5
<1>4. CASE ReadLocal
  <2>1. pc = "local" /\ ~Hub /\ ListingOK /\ pinned \in Snapshots
    BY <1>4 DEF ReadLocal, ResInv, PinnedCalls
  <2>2. listing = Snapshot[pinned].files
    BY <2>1 DEF ListingOK, Hub
  <2>3. LocalShards(pinned) = IF Range(ChosenShards) \subseteq listing THEN ChosenShards ELSE <<>>
    BY <2>2 DEF LocalShards, ChosenShards
  <2>4. CASE ~({"config", "tokenizer"} \subseteq listing) \/ LocalShards(pinned) = <<>>
              \/ SelectDtype(pinned) = "none"
    <3>1. Refuse
      BY <1>4, <2>4 DEF ReadLocal
    <3>2. ~({"config", "tokenizer"} \subseteq listing) => Cause
      BY <2>2 DEF Cause, Sound
    <3>3. SelectDtype(pinned) = "none" => Cause
      BY <1>2 DEF Cause, Sound, Supported
    <3>4. LocalShards(pinned) = <<>> => Cause
      <4> SUFFICES ASSUME LocalShards(pinned) = <<>> PROVE Cause
        OBVIOUS
      <4>1. CASE "index" \in listing
        <5> DEFINE names == ShardNames(pinned)
        <5>1. ChosenShards = names
          BY <4>1 DEF ChosenShards, WeightRoute
        <5>2. /\ names # <<>> => Range(names) = Range(Snapshot[pinned].shards)
              /\ names = <<>> => Snapshot[pinned].shards = <<>>
                                 \/ Range(Snapshot[pinned].shards) \cap Unsafe # {}
          BY <2>1, ShardNamesProperties
        <5> HIDE DEF names
        <5>3. names = <<>> \/ ~(Range(names) \subseteq listing)
          BY <2>3, <5>1
        <5> QED
          BY <2>2, <4>1, <5>2, <5>3 DEF Cause, Sound
      <4>2. CASE "index" \notin listing /\ "model" \in listing
        <5>1. ChosenShards = <<"model">> /\ Range(<<"model">>) \subseteq {"model"} /\ <<"model">> # <<>>
          BY <4>2 DEF ChosenShards, WeightRoute, Range
        <5> QED
          BY <2>3, <4>2, <5>1
      <4>3. CASE "index" \notin listing /\ "model" \notin listing
        <5>1. ChosenShards = Retain(Shards, listing)
          BY <4>3 DEF ChosenShards, WeightRoute
        <5>2. Shards \in Seq(Range(Shards))
          BY ResolutionShape DEF Range
        <5>3. Range(ChosenShards) = Range(Shards) \cap listing
          BY <5>1, <5>2, RetainProperties
        <5>4. ChosenShards = <<>>
          BY <2>3, <5>3
        <5>5. Range(ChosenShards) = {}
          BY <5>4 DEF Range
        <5> QED
          BY <2>2, <4>3, <5>3, <5>5, <2>1 DEF Cause, Sound
      <4> QED
        BY <4>1, <4>2, <4>3
    <3> QED
      BY <2>4, <3>1, <3>2, <3>3, <3>4, RefusePreserves
  <2>5. CASE ~(~({"config", "tokenizer"} \subseteq listing) \/ LocalShards(pinned) = <<>>
              \/ SelectDtype(pinned) = "none")
    <3>1. /\ configFile' = <<pinned, "config">> /\ tokenizer' = <<pinned, "tokenizer">>
          /\ generation' = GenerationFile
          /\ weights' = [i \in DOMAIN LocalShards(pinned) |-> <<pinned, LocalShards(pinned)[i]>>]
          /\ dtype' = SelectDtype(pinned) /\ pc' = "load"
          /\ UNCHANGED <<source, ref, cached, named, pinned, listing, todo, stops, disturbed>>
      BY <1>4, <2>5 DEF ReadLocal, GenerationFile, To, hubVars
    <3>2. LocalShards(pinned) = ChosenShards /\ ChosenShards # <<>> /\ Range(ChosenShards) \subseteq listing
      BY <2>3, <2>5
    <3>3. ChosenShards' = ChosenShards /\ (Hub' <=> Hub)
      BY <3>1, PinnedFacts
    <3>4. WeightsTaken'
      BY <2>1, <3>1, <3>2, <3>3 DEF WeightsTaken
    <3> QED
      BY <1>1, <2>1, <2>5, <3>1, <3>4
  <2> QED
    BY <2>4, <2>5
<1> QED
  BY <1>3, <1>4

(* Opening the tokenizer, finding the factory, mapping the weights.        *)
LEMMA OpeningPreserves ==
  ASSUME ResInv, stage \notin Built, UNCHANGED allVars,
         LoadTokenizer \/ FindFactory \/ MapWeights
  PROVE  ResInv'
<1>1. ASSUME pc \in {"load", "factory", "map"}, pc' \in {"factory", "map", "loaded"},
             UNCHANGED <<source, ref, cached, named, pinned, listing, todo, takenVars, dtype, disturbed>>,
             StopsOK'
      PROVE  ResInv'
  <2>1. /\ ListingOK' <=> ListingOK
        /\ GenerationFile' = GenerationFile
        /\ Hub' <=> Hub
        /\ SelectDtype(pinned)' = SelectDtype(pinned)
        /\ ChosenShards' = ChosenShards
    BY <1>1, PinnedFacts
  <2>2. pc' \in PinnedCalls /\ pc \notin {"dtype", "failed"} /\ pc \in PinnedCalls /\ pc \in Opening
    BY <1>1 DEF PinnedCalls, HubCalls, HubLate, Opening
  <2>3. /\ source' \in Sources /\ ref' \in Snapshots
        /\ source'.mode = "offline" => \A s \in Snapshots : Orderly(cached[s], s)'
        /\ (source.dtype = "none" \/ Supported(source.dtype))'
        /\ RefusalHasCause'
        /\ (stage \in Built => pc = "loaded")'
    BY <1>1, <2>2, StandingFacts
  <2>4. /\ pinned \in named /\ pinned \in Snapshots /\ ListingOK
        /\ configFile = <<pinned, "config">> /\ tokenizer = <<pinned, "tokenizer">>
        /\ generation = GenerationFile /\ WeightsTaken
        /\ dtype = SelectDtype(pinned) /\ dtype # "none"
    BY <2>2 DEF ResInv
  <2>5. WeightsTaken'
    BY <1>1, <2>1, <2>4 DEF WeightsTaken, takenVars
  <2> QED
    BY <1>1, <2>1, <2>2, <2>3, <2>4, <2>5
       DEF ResInv, Unpinned, PinnedCalls, HubCalls, HubLate, Opening, takenVars
<1>2. pc \in {"load", "factory", "map"}
  BY DEF LoadTokenizer, FindFactory, MapWeights
<1>3. /\ configFile[1] = pinned /\ tokenizer[1] = pinned /\ pinned \in Snapshots
      /\ ListingOK /\ generation = GenerationFile
  <2>1. /\ configFile = <<pinned, "config">> /\ tokenizer = <<pinned, "tokenizer">>
        /\ pinned \in Snapshots /\ ListingOK /\ generation = GenerationFile
    BY <1>2 DEF ResInv, PinnedCalls, Opening
  <2> QED
    BY <2>1
<1>4. \A kind : Declared(kind) =
         IF "generation" \in listing /\ Snapshot[pinned].generation[kind].has
           THEN Snapshot[pinned].generation[kind] ELSE Snapshot[pinned].model[kind]
  BY <1>3 DEF Declared, GenerationFile
<1>5. listing # Snapshot[pinned].files => Cause
  BY <1>3 DEF ListingOK, Cause
<1>6. CASE LoadTokenizer
  <2>1. CASE Disturbed
    BY <2>1, DisturbedPreserves
  <2>2. CASE ~Disturbed /\ ~SpecialOK
    <3>1. Refuse
      BY <1>6, <2>2 DEF LoadTokenizer
    <3>2. listing = Snapshot[pinned].files => ~Sound(pinned)
      <4> SUFFICES ASSUME listing = Snapshot[pinned].files, Sound(pinned) PROVE SpecialOK
        BY <2>2
      <4>1. Declared("eos").has /\ Declared("eos").ids # {}
        BY <1>4 DEF Sound
      <4>2. ASSUME NEW kind \in {"eos", "bos", "pad"}
            PROVE  Declared(kind).ids \subseteq Snapshot[tokenizer[1]].vocab
        <5>1. (Snapshot[pinned].model[kind].ids \cup Snapshot[pinned].generation[kind].ids)
                \subseteq Snapshot[pinned].vocab
          BY DEF Sound
        <5>2. Declared(kind) = Snapshot[pinned].generation[kind]
                \/ Declared(kind) = Snapshot[pinned].model[kind]
          BY <1>4
        <5> QED
          BY <1>3, <5>1, <5>2
      <4> QED
        BY <4>1, <4>2 DEF SpecialOK
    <3>3. Cause
      BY <1>5, <3>2 DEF Cause
    <3> QED
      BY <3>1, <3>3, RefusePreserves
  <2>3. CASE ~Disturbed /\ SpecialOK
    <3>1. /\ stops' = SetToSeq(Declared("eos").ids) /\ pc' = "factory"
          /\ UNCHANGED <<source, ref, cached, named, pinned, listing, todo, takenVars, dtype, disturbed>>
      BY <1>6, <2>3 DEF LoadTokenizer, To, hubVars
    <3>2. Declared("eos")' = Declared("eos")
      BY <3>1 DEF Declared, takenVars
    <3>3. IsFiniteSet(Declared("eos").ids)
      BY <1>3, <1>4, ResolutionShape
    <3>4. PICK ids : ids = Declared("eos").ids
      OBVIOUS
    <3>5. Range(SetToSeq(ids)) = ids
      BY <3>3, <3>4, SequenceOfSet
    <3>6. ids # {} /\ ids \subseteq Snapshot[pinned].vocab
      BY <1>3, <2>3, <3>4 DEF SpecialOK
    <3>7. StopsOK'
      BY <3>1, <3>2, <3>4, <3>5, <3>6 DEF StopsOK
    <3>8. pc' \in {"factory", "map", "loaded"}
      BY <3>1
    <3> QED
      BY <1>1, <1>2, <3>1, <3>7, <3>8
  <2> QED
    BY <2>1, <2>2, <2>3
<1>7. ASSUME pc \in {"factory", "map"}, pc' \in {"map", "loaded"},
             UNCHANGED <<source, ref, cached, named>>, Same
      PROVE  ResInv'
  <2>1. UNCHANGED <<source, ref, cached, named, pinned, listing, todo, takenVars, dtype, stops, disturbed>>
    BY <1>7 DEF Same
  <2>2. StopsOK
    BY <1>7 DEF ResInv, Opening
  <2>3. StopsOK'
    BY <2>1, <2>2 DEF StopsOK, Declared, takenVars
  <2>4. pc' \in {"factory", "map", "loaded"}
    BY <1>7
  <2> QED
    BY <1>1, <1>2, <2>1, <2>3, <2>4
<1>8. CASE FindFactory
  <2>1. CASE Snapshot[configFile[1]].arch = "Qwen3ForCausalLM"
    BY <1>7, <1>8, <2>1 DEF FindFactory, To, hubVars
  <2>2. CASE Snapshot[configFile[1]].arch # "Qwen3ForCausalLM"
    <3>1. Refuse
      BY <1>8, <2>2 DEF FindFactory
    <3>2. Cause
      BY <1>3, <2>2 DEF Cause, Sound
    <3> QED
      BY <3>1, <3>2, RefusePreserves
  <2> QED
    BY <2>1, <2>2
<1>9. CASE MapWeights
  <2>1. CASE Disturbed
    BY <2>1, DisturbedPreserves
  <2>2. CASE ~Disturbed
    BY <1>7, <1>9, <2>2 DEF MapWeights, To, hubVars
  <2> QED
    BY <2>1, <2>2
<1> QED
  BY <1>6, <1>8, <1>9

(* A push or a cleaned cache: what is pinned stays pinned.                 *)
LEMMA OutsidePreserves ==
  ASSUME ResInv, UNCHANGED allVars, Prune \/ \E s \in Published : MoveRef(s)
  PROVE  ResInv'
<1>1. CASE Prune
  <2>1. /\ cached' = [s \in Snapshots |-> {}] /\ pc \notin {"loaded", "failed"}
        /\ UNCHANGED <<source, ref, named, pc, pinned, listing, todo, takenVars, dtype, stops, disturbed>>
    BY <1>1 DEF Prune, Running
  <2>2. \A s \in Snapshots : Orderly(cached[s], s)'
    BY <2>1 DEF Orderly
  <2>3. /\ (ListingOK' <=> ListingOK) /\ GenerationFile' = GenerationFile /\ (Hub' <=> Hub)
        /\ ChosenShards' = ChosenShards /\ WeightRoute(listing)' = WeightRoute(listing)
        /\ SelectDtype(pinned)' = SelectDtype(pinned) /\ ShardNames(pinned)' = ShardNames(pinned)
    BY <2>1, PinnedFacts
  <2>4. /\ Designated' = Designated /\ (WeightsTaken' <=> WeightsTaken) /\ (StopsOK' <=> StopsOK)
        /\ (ShardsUnderway' <=> ShardsUnderway)
    BY <2>1, <2>3 DEF Designated, WeightsTaken, StopsOK, Declared, ShardsUnderway, takenVars
  <2>5. RefusalHasCause' /\ (stage \in Built => pc = "loaded")'
    BY <2>1 DEF RefusalHasCause, ResInv, allVars, initVars
  <2> QED
    BY <2>1, <2>2, <2>3, <2>4, <2>5 DEF ResInv, Supported, takenVars
<1>2. ASSUME NEW s \in Published, MoveRef(s)
      PROVE  ResInv'
  <2>1. /\ ref' = s /\ pc \notin {"loaded", "failed"}
        /\ named' = named \cup (IF source.revision = "main" /\ pinned = "none" THEN {s} ELSE {})
        /\ UNCHANGED <<source, cached, pc, pinned, listing, todo, takenVars, dtype, stops, disturbed>>
    BY <1>2 DEF MoveRef, Running
  <2>2. s \in Snapshots
    BY ResolutionShape
  <2>3. /\ (ListingOK' <=> ListingOK) /\ GenerationFile' = GenerationFile /\ (Hub' <=> Hub)
        /\ ChosenShards' = ChosenShards /\ WeightRoute(listing)' = WeightRoute(listing)
        /\ SelectDtype(pinned)' = SelectDtype(pinned) /\ ShardNames(pinned)' = ShardNames(pinned)
    BY <2>1, PinnedFacts
  <2>4. /\ (WeightsTaken' <=> WeightsTaken) /\ (StopsOK' <=> StopsOK)
        /\ (ShardsUnderway' <=> ShardsUnderway)
    BY <2>1, <2>3 DEF WeightsTaken, StopsOK, Declared, ShardsUnderway, takenVars
  <2>5. RefusalHasCause' /\ (stage \in Built => pc = "loaded")'
    BY <2>1 DEF RefusalHasCause, ResInv, allVars, initVars
  <2>6. pc' \in Unpinned => Designated' \in named' /\ pinned' = "none"
    BY <2>1 DEF ResInv, Designated
  <2>7. source'.mode = "offline" => \A t \in Snapshots : Orderly(cached[t], t)'
    BY <2>1 DEF ResInv, Orderly
  <2> QED
    BY <2>1, <2>2, <2>3, <2>4, <2>5, <2>6, <2>7 DEF ResInv, Supported, takenVars
<1> QED
  BY <1>1, <1>2

(* Every step of LLM::new keeps what is known of the artifacts.            *)
LEMMA ResStepPreserves == ResInv /\ [StartupNext]_startVars => ResInv'
<1> SUFFICES ASSUME ResInv, [StartupNext]_startVars PROVE ResInv'
  OBVIOUS
<1>1. ASSUME UNCHANGED resVars, stage' \in Built => pc = "loaded"
      PROVE  ResInv'
  <2>1. UNCHANGED <<source, ref, cached, pc, pinned, listing, todo, configFile, tokenizer, generation,
                    weights, dtype, stops, named, disturbed>>
    BY <1>1 DEF resVars, hubVars, takenVars
  <2>2. /\ (ListingOK' <=> ListingOK) /\ GenerationFile' = GenerationFile /\ (Hub' <=> Hub)
        /\ ChosenShards' = ChosenShards /\ WeightRoute(listing)' = WeightRoute(listing)
        /\ SelectDtype(pinned)' = SelectDtype(pinned) /\ ShardNames(pinned)' = ShardNames(pinned)
    BY <2>1, PinnedFacts
  <2>3. /\ Designated' = Designated /\ (WeightsTaken' <=> WeightsTaken) /\ (StopsOK' <=> StopsOK)
        /\ (ShardsUnderway' <=> ShardsUnderway)
    BY <2>1, <2>2 DEF Designated, WeightsTaken, StopsOK, Declared, ShardsUnderway
  <2>4. RefusalHasCause'
    BY <2>1 DEF RefusalHasCause, ResInv, Sound, Hub
  <2>5. source'.mode = "offline" => \A s \in Snapshots : Orderly(cached[s], s)'
    BY <2>1 DEF ResInv, Orderly
  <2> QED
    BY <1>1, <2>1, <2>2, <2>3, <2>4, <2>5 DEF ResInv, Supported
<1>2. {"validate", "device", "resolve", "build", "failed"} \cap Built = {}
  BY DEF Built, Sized, Allocated, Limited, Warmups, Warm
<1>3. CASE Preparing
  <2>1. CASE ResolutionRuns /\ ResolveStep /\ UNCHANGED allVars
    <3>1. stage \notin Built
      BY <1>2, <2>1 DEF ResolutionRuns
    <3>2. CheckDtype \/ ResolveRevision \/ Canonicalize \/ CheckRequired \/ GetConfig \/ GetTokenizer
            \/ GetGeneration \/ ChooseWeights \/ GetSingle \/ GetIndex \/ GetShard \/ SelectHubDtype
            \/ ReadLocal \/ LoadTokenizer \/ FindFactory \/ MapWeights
      BY <2>1 DEF ResolveStep
    <3> QED
      BY <2>1, <3>1, <3>2, PinningPreserves, MetadataPreserves, WeightFilesPreserve,
         SelectingPreserves, OpeningPreserves
  <2>2. CASE Validate /\ UNCHANGED resVars
    BY <1>1, <1>2, <2>2 DEF Validate, Goes
  <2>3. CASE \E found \in BOOLEAN : FindDevice(found) /\ UNCHANGED resVars
    BY <1>1, <1>2, <2>3 DEF FindDevice, Goes
  <2>4. CASE pc = "load" /\ UNCHANGED resVars /\ \E c \in Configs : Resolve(TRUE, c)
    BY <1>1, <1>2, <2>4 DEF Resolve, Goes
  <2>5. CASE pc = "failed" /\ UNCHANGED resVars /\ Resolve(FALSE, config)
    BY <1>1, <1>2, <2>5 DEF Resolve, Goes
  <2>6. CASE pc = "loaded" /\ UNCHANGED resVars /\ \E built \in BOOLEAN : Build(built)
    BY <1>1, <2>6
  <2>7. CASE (pc = "failed" \/ (pc = "map" /\ ~ConfigOK(config))) /\ UNCHANGED resVars /\ Build(FALSE)
    BY <1>1, <1>2, <2>7 DEF Build, Goes
  <2> QED
    BY <1>3, <2>1, <2>2, <2>3, <2>4, <2>5, <2>6, <2>7 DEF Preparing
<1>4. CASE Outside
  BY <1>4, OutsidePreserves DEF Outside
<1>5. CASE Initialize /\ UNCHANGED resVars
  <2>1. stage \in Built \cup {"failed"}
    BY <1>5 DEF Initialize, Allocate, Publish, Forward, Construct, Size, OverrideCapacity,
       SetComputeLimits, WarmupShape, Reserve, Bind, FinishConsumer, FinishStep, DropConsumer,
       DropStep, Goes, Built, Sized, Allocated, Limited, Warmups, Warm
  <2>2. stage = "failed" => stage' = "failed"
    BY <1>5 DEF Initialize, Allocate, Publish, Forward, Construct, Size, OverrideCapacity,
       SetComputeLimits, WarmupShape, Reserve, Bind, FinishConsumer, FinishStep, DropConsumer,
       DropStep, Goes, initVars
  <2>3. stage' \in Built => pc = "loaded"
    BY <1>2, <2>1, <2>2 DEF ResInv
  <2> QED
    BY <1>1, <1>5, <2>3
<1>6. CASE UNCHANGED startVars
  <2>1. UNCHANGED resVars /\ stage' = stage
    BY <1>6 DEF startVars, allVars, initVars
  <2>2. stage' \in Built => pc = "loaded"
    BY <2>1 DEF ResInv
  <2> QED
    BY <1>1, <2>1, <2>2
<1> QED
  BY <1>3, <1>4, <1>5, <1>6 DEF StartupNext

(* The invariant of the resolution always holds.                           *)
LEMMA StartupResolution == StartupSpec => []ResInv
<1> QED
  BY ResInitInv, ResStepPreserves, PTL DEF StartupSpec

(* A checkpoint is refused only when something is wrong with it, and       *)
(* options that passed validation never fail for the shape of the warm-up  *)
(* (llm.rs, model_identity.rs).                                            *)
THEOREM StartupRefusalIsJustified == StartupSpec => []RefusalIsJustified
<1>1. ResInv /\ StartInv => RefusalIsJustified
  BY ReadyFacts DEF ResInv, RefusalIsJustified
<1>2. StartupSpec => []StartInv
  BY StartInitInv, StartStepPreserves, PTL DEF StartupSpec
<1> QED
  BY <1>1, <1>2, StartupResolution, PTL

(* The weights of a loaded model are those its snapshot publishes.         *)
LEMMA WeightsFollowSnapshot == ResInv => WeightsAreComplete
<1> SUFFICES ASSUME ResInv, pc = "loaded" PROVE WeightsAreComplete
  BY DEF WeightsAreComplete
<1>1. pinned \in Snapshots /\ ListingOK /\ WeightsTaken /\ source \in Sources
  BY DEF ResInv, PinnedCalls, Opening
<1>2. PICK names : names = ChosenShards
  OBVIOUS
<1>3. PICK files : files = Snapshot[pinned].files
  OBVIOUS
<1>4. /\ listing \subseteq files
      /\ listing # files => Hub
      /\ listing \cap Range(Shards) # {} /\ "index" \in files => "index" \in listing
  BY <1>1, <1>3 DEF ListingOK, Orderly, SmallFiles, Hub
<1>5. /\ names # <<>> /\ Range(names) \subseteq listing
      /\ weights = [i \in DOMAIN names |-> <<pinned, names[i]>>]
      /\ Hub => WeightRoute(listing) # "bare"
  BY <1>1, <1>2 DEF WeightsTaken
<1>6. Shards \in Seq(Range(Shards)) /\ NoDuplicates(Shards)
  BY ResolutionShape DEF Range
<1>7. "model" \in Range(Shards) /\ Range(Shards) \cap Unsafe = {}
  BY ResolutionShape, Zenon
<1>8. names \in Seq(Range(Shards)) /\ NoDuplicates(names)
  <2>1. ShardNames(pinned) \in Seq(Range(Shards)) /\ NoDuplicates(ShardNames(pinned))
    BY <1>1, ShardNamesProperties
  <2>2. Retain(Shards, listing) \in Seq(Range(Shards)) /\ NoDuplicates(Retain(Shards, listing))
    BY <1>6, RetainProperties
  <2>3. <<"model">> \in Seq(Range(Shards)) /\ NoDuplicates(<<"model">>)
    BY <1>7 DEF NoDuplicates
  <2> QED
    BY <1>2, <2>1, <2>2, <2>3 DEF ChosenShards
<1>9. DOMAIN names = 1 .. Len(names) /\ Len(names) \in Nat
  BY <1>8
<1>10. {weights[i][2] : i \in DOMAIN weights} = Range(names) /\ Len(weights) = Len(names)
  <2>1. DOMAIN weights = DOMAIN names /\ \A i \in DOMAIN names : weights[i][2] = names[i]
    BY <1>5
  <2>2. Len(weights) = Len(names)
    BY <1>5, <1>9
  <2> QED
    BY <2>1, <2>2 DEF Range
<1>11. Cardinality(Range(names)) = Len(names)
  BY <1>8, LenIsCardinality
<1>12. Range(names) # {} /\ Range(names) \subseteq files \ Unsafe
  <2>1. Range(names) # {} /\ Range(names) \subseteq Range(Shards)
    <3>1. PICK S : S = Range(Shards)
      OBVIOUS
    <3>2. names \in Seq(S)
      BY <1>8, <3>1
    <3> QED
      BY <1>5, <3>1, <3>2, RangeOfSequence
  <2> QED
    BY <1>4, <1>5, <1>7, <2>1
<1>13. "index" \in files => Range(names) = Range(Snapshot[pinned].shards)
  <2> SUFFICES ASSUME "index" \in files PROVE Range(names) = Range(Snapshot[pinned].shards)
    OBVIOUS
  <2>1. Range(names) \subseteq Range(Shards)
    <3>1. PICK S : S = Range(Shards)
      OBVIOUS
    <3>2. names \in Seq(S)
      BY <1>8, <3>1
    <3> QED
      BY <3>1, <3>2, RangeOfSequence
  <2>2. "index" \in listing
    BY <1>4, <1>5, <1>12, <2>1
  <2>3. names = ShardNames(pinned)
    BY <1>2, <2>2 DEF ChosenShards, WeightRoute
  <2> QED
    BY <1>1, <1>5, <2>3, ShardNamesProperties
<1>14. "index" \notin files /\ "model" \in files => Range(names) = {"model"}
  <2> SUFFICES ASSUME "index" \notin files, "model" \in files PROVE Range(names) = {"model"}
    OBVIOUS
  <2>1. "index" \notin listing /\ "model" \in listing
    BY <1>4, <1>5 DEF WeightRoute
  <2>2. names = <<"model">>
    BY <1>2, <2>1 DEF ChosenShards, WeightRoute
  <2> QED
    BY <2>2 DEF Range
<1> QED
  BY <1>3, <1>10, <1>11, <1>12, <1>13, <1>14 DEF WeightsAreComplete

(* The artifacts of a loaded model come from one snapshot the name         *)
(* designated.                                                             *)
LEMMA IdentityIsOne == ResInv => OneIdentity
<1> SUFFICES ASSUME ResInv, pc = "loaded" PROVE OneIdentity
  BY DEF OneIdentity
<1>1. /\ pinned \in named /\ WeightsTaken
      /\ configFile = <<pinned, "config">> /\ tokenizer = <<pinned, "tokenizer">>
      /\ generation = GenerationFile
  BY DEF ResInv, PinnedCalls, Opening
<1>2. ASSUME NEW a \in Artifacts \ {<<>>}
      PROVE  a[1] = pinned
  <2>1. CASE a \in {configFile, tokenizer}
    BY <1>1, <2>1
  <2>2. CASE a = generation
    <3>1. generation = <<pinned, "generation">>
      BY <1>1, <1>2, <2>2 DEF GenerationFile
    <3> QED
      BY <2>2, <3>1
  <2>3. CASE a \in Range(weights)
    <3>1. PICK names : names = ChosenShards
      OBVIOUS
    <3>2. weights = [i \in DOMAIN names |-> <<pinned, names[i]>>]
      BY <1>1, <3>1 DEF WeightsTaken
    <3>3. PICK i \in DOMAIN names : a = <<pinned, names[i]>>
      BY <2>3, <3>2 DEF Range
    <3> QED
      BY <3>3
  <2> QED
    BY <2>1, <2>2, <2>3 DEF Artifacts
<1> QED
  BY <1>1, <1>2 DEF OneIdentity

(* What a loaded model hands to the engine is usable.                      *)
LEMMA ContractIsKept == ResInv => ContractHolds
<1> SUFFICES ASSUME ResInv, pc = "loaded" PROVE ContractHolds
  BY DEF ContractHolds
<1>1. /\ pinned \in Snapshots /\ ListingOK /\ WeightsTaken
      /\ generation = GenerationFile
      /\ dtype = SelectDtype(pinned) /\ dtype # "none"
      /\ StopsOK
      /\ source.dtype = "none" \/ Supported(source.dtype)
  BY DEF ResInv, PinnedCalls, Opening
<1>2. Supported(dtype)
  BY <1>1 DEF SelectDtype
<1>3. "generation" \in Snapshot[pinned].files => "generation" \in listing
  <2>1. listing \cap Range(Shards) # {}
    <3>1. Shards \in Seq(Range(Shards)) /\ "model" \in Range(Shards)
      BY ResolutionShape DEF Range
    <3>2. PICK S : S = Range(Shards)
      OBVIOUS
    <3>3. ShardNames(pinned) \in Seq(S)
      BY <1>1, <3>2, ShardNamesProperties
    <3>4. Retain(Shards, listing) \in Seq(S)
      BY <3>1, <3>2, RetainProperties
    <3>5. <<"model">> \in Seq(S)
      BY <3>1, <3>2
    <3>6. ChosenShards \in Seq(S)
      BY <3>3, <3>4, <3>5 DEF ChosenShards
    <3>7. Range(ChosenShards) \subseteq S /\ Range(ChosenShards) # {}
      BY <1>1, <3>6, RangeOfSequence DEF WeightsTaken
    <3> QED
      BY <1>1, <3>2, <3>7 DEF WeightsTaken
  <2> QED
    BY <1>1, <2>1 DEF ListingOK, Orderly, SmallFiles
<1>4. "generation" \in Snapshot[pinned].files /\ Snapshot[pinned].generation["eos"].has
        => Range(stops) = Snapshot[pinned].generation["eos"].ids
  BY <1>1, <1>3 DEF StopsOK, Declared, GenerationFile
<1> QED
  BY <1>1, <1>2, <1>4 DEF ContractHolds, StopsOK

(* An engine that admits requests serves one loaded model, all of whose    *)
(* artifacts come from the snapshot its identity names although names move *)
(* and caches are cleaned meanwhile (model_identity.rs, loader.rs).        *)
THEOREM StartupReadyServesOneModel == StartupSpec => []ReadyServesOneModel
<1>1. ResInv => (stage = "ready" => pc = "loaded")
  BY DEF ResInv, Built, Sized, Allocated, Limited, Warm
<1>2. ResInv => ReadyServesOneModel
  BY <1>1, WeightsFollowSnapshot, IdentityIsOne, ContractIsKept DEF ReadyServesOneModel
<1> QED
  BY <1>2, StartupResolution, PTL
=============================================================================
