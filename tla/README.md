# A TLA+ model of vllm-oxide

vllm-oxide runs offline text generation on one GPU in one process. A caller hands
`LLM::generate` a batch of prompts; a scheduler cuts the work into steps that share a
token budget; each step runs the model once over a paged KV cache whose blocks are
shared between requests with a common prefix. The arithmetic of the model is tested
elsewhere in the repository. What is hard to test is the bookkeeping around it: who owns
which block, whether a cached prefix is what its hash claims, what happens to a request
that is cut into chunks, preempted, recomputed or aborted, and whether the call ends;
further out, whether an engine is built from one model and from memory that exists,
whether the evidence that releases rest on is what it claims, and whether any of this
survives a failure in the middle. This project models that bookkeeping, checks it with
TLC on small instances, and proves with TLAPS, for every instance, what matters most of the
pool, the scheduler, the engine, the attention layout, the start-up, the memory monitor and
the installs.

Source paths without a crate are relative to `src/crates/vllm-oxide/src/`; `test/` stands
for `src/crates/vllm-oxide-test/src/`, `kernels/` for `src/crates/vllm-oxide/kernels/`.

## 1. Inventory

| Component | State | Operations | Interacts with | Hard because |
|---|---|---|---|---|
| Block pool (`engine/block_pool.rs`) | free list, used set, reference counts, hashes, chained identities, hash index | `can_allocate`, `allocate`, `can_append_batch`, `may_append_batch`, `deallocate_batch`, `hash_blocks` | block tables of sequences | blocks are shared, cached after they are freed, evicted lazily; hashes collide; -1 is both a hash and a sentinel |
| `KvCacheManager` (`engine/kv_cache_manager.rs`) | the pool | forwards; `compute_slot_mapping` | scheduler, pool | a wrong slot overwrites another request |
| `Sequence` (`engine/sequence.rs`) | tokens, block table, cached/scheduled counts, recompute target | `new`, `append_token`, helpers | pool, scheduler | several counters that must agree |
| Scheduler (`engine/scheduler.rs`, `engine/step.rs`) | two queues, ids, plan in flight | `add_request`, `plan_step`, `apply_step_result`, `abort_all_requests` | pool, engine | limits on tokens, sequences and blocks at once; preemption, rollback, chunking |
| `AttentionContext` (`attention/mod.rs`) | lifecycle, epoch, bound consumer | prepare (reserve, publish, cancel), bind, release | engine, model | guards release in an order, also on failure |
| `PagedKVCache` (`attention/mod.rs`) | K/V of every slot | `reshape_and_cache`, read by attention | model | stale or half-written slots |
| `EngineCore` (`engine/mod.rs`) | the above, the model | `add_requests`, `step_internal`, `cleanup_failed_step` | all | every step can fail in the middle |
| `LLM::generate` (`llm.rs`) | request ids, collected outputs | validate, loop, order outputs | engine | outputs finish in another order; a failed call is followed by another |
| `Sampler` (`sampler.rs`, `sampler/cuda.rs`, `kernels/sampler.cu`) | generator, device workspace | `forward` on the host or the device: penalties, temperature, top-k, top-p, Gumbel draw | engine | two implementations of one rule; overflow; a workspace reused by rows and calls |
| `LLM::new`, KV sizing, warm-up (`llm.rs`, `llm/initialization.rs`) | plan of the pool, compute limits | `from_budget`, allocate, `warmup_model` | loader, attention context, pool | checked and floating-point arithmetic, failure at every stage |
| Loader, model identity (`loader.rs`, `loader/model_identity.rs`, `config.rs`, `models/registry.rs`) | pinned revision, artifact paths | `resolve`, fetch of each artifact, stop tokens, factory | Hub, its cache, local directories | names move and downloads stop between two fetches |
| Attention layout (`attention/metadata.rs`, `math.rs`, `math_layout.rs`, `math_ops.rs`, `models/qwen3.rs`, `kernels/`) | prepared metadata, cache slots | pack, pad, chunk, split by head, mask, gather, scatter | engine, KV cache | ragged batches, padding, offsets from the end |
| Golden capture (`golden_capture.rs`, `test/capture.rs`) | environment variables, workspace, spools, artifact | prepare, record rows, finish, validate, preserve | `generate`, other threads | a process-wide lock, panics, files left behind |
| Benchmark telemetry (`golden_capture/benchmark.rs`, `benchmark_telemetry.rs`, `test/benchmark.rs`) | recorded steps, staged file | record, derive, publish, recompute | `generate` | two derivations of the same numbers |
| Fixed-prefix replay, layer trace (`golden_capture/fixed_prefix.rs`, `layer_trace.rs`, `test/bin/fixed_prefix.rs`) | frozen plan, rows, next traced token | replace the sampled token, record, publish | `generate` | runs inside a step, over chunks and preemptions |
| Behavior and operator verification (`golden_capture/behavior.rs`, `operators.rs`) | plan, bindings, artifact | nested `generate` calls, `write_atomic_json` | `generate` | variables that outlive a failed call; a kill while writing |
| Memory monitor (`test/benchmark/nvml_monitor.rs`, `nvml_ffi.rs`) | trace, channels, driver session | start, sample, stop, join, judge | benchmark runner, driver | two threads, bounded channels, deadlines |
| Release download and bundles (`test/download.rs`, `release_transport.rs`, `bin/verify_bundle.rs`) | cache directory, staging | fetch, verify, extract, rename | other installers, the release | republication, races, kills |
| Golden gate (`test/lifecycle.rs`, `manifest.rs`, `prompts.rs`, `driver.rs`, `l1.rs`, `l2.rs`, `report.rs`, `main.rs`) | tracker, totals, messages | preflight, compare, report | capture, fixtures | many ways for a case to vanish |
| Benchmark runner, measurement, observation, approval (`test/benchmark/runner.rs`, `measurement.rs`, `observation.rs`, `approval.rs`), CLI, `tools/golden-gen` | files | straight-line drivers and identity checks | all | not modelled, see section 5 |

The engine runs on one thread. `generate` takes `&mut self`, so there is no interleaving
of two calls. The interleavings that matter there are those of *requests* inside a step
sequence, and the *failures* that may end any step. `EngineCore` refuses a new call while
requests are left. Real concurrency is around the engine: the memory monitor's worker
thread against its owner, threads that capture at once through one set of environment
variables, installers of one cache directory, and a Hub whose branches move while a model
is resolved. Crashes matter where files survive them: installs and published artifacts.

What makes each component correct:

* pool: every block is free once or held by exactly the tables its count says; a prefix
  hit returns only blocks that were computed for that very prefix; transactions that were
  announced as possible do not fail;
* scheduler: arrivals keep their order; limits hold; exactly the missing tokens are
  computed, and sampling happens only at the end of the history; nobody writes to a
  shared block; a waiting request is not starved; a step never gets stuck;
* engine: cache contents match histories; failures leave nothing behind; every prompt
  gets its own output; the call ends.
* sampler: each row gets the documented token, on either adapter and whatever else is in
  the batch or was in the workspace; a failed call can be repeated;
* attention layout: each head of each row attends to its own causal history, exactly;
* start-up: an engine that admits requests was built from one complete snapshot, holds one
  full request, fits the memory that was read and is warm; nothing usable is refused;
* diagnostics: what is published is exactly what the call did, nothing of a session leaks
  into a later call, every call returns;
* monitor: a record is accepted exactly if it covers the measured call; the driver library
  is shut down once; nobody waits for ever;
* installs: what is accepted is what the release declares, never partial, never replaced;
* gate: it passes only if every required comparison was made and passed.

`PROJECT.json` lists the hazards behind these properties at the lines where they bite.

## 2. Modules

| Module | Models | Uses |
|---|---|---|
| `SeqOrder` | ordered selections: `retain`, filters, ascending indices, release order; sums | |
| `BlockPool` | pool, prefix cache and the `Sequence` fields they touch | `SeqOrder` |
| `Scheduler` | queues, planning, application of results | `BlockPool`, `Generation` (refinement) |
| `AttentionContext` | lifecycle of the attention metadata | |
| `EngineCore` | step execution, KV contents, failures, the loop of `generate` | `Scheduler`, `AttentionContext` |
| `Generation` | abstract promise of `generate` for each request | |
| `AttentionLayout` | what a step's attention reads and writes | `SeqOrder` |
| `Sampler` | host and device sampling | `SeqOrder` |
| `EngineInit` | options, configuration, KV sizing, warm-up | `AttentionContext` |
| `ModelResolution` | a model name resolved to one artifact set | `SeqOrder` |
| `Startup` | `LLM::new` as a whole | `EngineInit`, `ModelResolution` |
| `DiagnosticCall` | the call a diagnostic session watches | |
| `GoldenCapture`, `Telemetry` | capture and timing of a call, producer and consumer | `DiagnosticCall`, `SeqOrder` |
| `FixedPrefix` | replay, control runs, layer trace | `SeqOrder` |
| `IsolatedCalls` | behavior and operator plans, `write_atomic_json` | |
| `DiagnosticDrivers` | the process that runs one of these four | the four |
| `NvmlSession` | the vendor library session | |
| `NvmlMonitor` | worker and owner of the memory monitor | `NvmlSession` |
| `ReleaseInstall` | installers on one cache | |
| `GoldenGate` | the release gate | `SeqOrder` |
| `...Proofs` | lemmas and theorems, see section 4 | the modules they are about |
| `MC...` | constants for TLC | |

### Block pool

`free`, `used`, `refCount`, `hash`, `identity`, `index` are the fields of `BlockPool`
and `Block`; `tokens`, `table`, `numCached` are fields of each `Sequence`. A chained
`PrefixCacheIdentity` is modelled by the token sequence its chain spells, because two
chains are equal exactly if those are. The hash function is a parameter, `XxHash`, of
which nothing is assumed but its range: collisions, and values equal to the sentinel -1,
are all allowed. `Allocate`, `MayAppendBatch`, `DeallocateBatch` and `HashBlocks` are the
mutating methods. Their validations are separate predicates (`AllocateErrs`,
`AppendErrs`, `DeallocateErrs`), and `NoPoolErrors` says that none is ever true for a
caller that asked first. `PoolNext` is the contract with callers: admit what
`can_allocate` accepts, append what `can_append_batch` accepts, commit computed tokens
that have blocks, release held tables.

`Enumerate`, on which `Retain`, `InOrder` and `WalkOrder` rest, selects by rank instead of recursion, so that the provers
can reason about sequences of every length. An assumption of `MCBlockPool` compares
`Retain` with the library's `SelectSeq` on all short sequences.

### Scheduler

The loops of `plan_step` and `apply_step_result` are actions, one per iteration, and `pc`
forces their order:

    idle -> preempt* -> schedule running -> admit* -> reserve (rollback*) -> capture
         -> execute -> apply* -> idle

`AddRequest` is possible at `idle`, `AbortAllRequests` at `execute`. Locals of the calls
(`runningBefore`, `blockedBefore`, ...) are variables that are reset when the step
returns. `Sequence::status` and `is_prefill` follow from the queues and counters and have
no variable. The tensors of the attention metadata are left out; which of the three
attention paths is chosen is kept. The code rewrites the waiting queue once, after its
admission loop; the model takes the head in each iteration, which is the same because a
waiting sequence always has tokens to compute (checked by `StepErrorsUnreachable`).

### Engine

`kv[block][offset]` holds the history an entry was computed from, as the attention kernel
of the chosen path saw it: direct prefill attends to the tokens of the step only, the
paged paths to what the block table points to. A wrong block, slot, path or order
therefore shows as a wrong history. A failing forward pass may leave the planned slots as
they were or overwritten (`<<>>`, memory that matches no history). Preparation may fail
during uploads. Plan ids are kept modulo two: only "this plan or the one before" matters
to the attention context. The layout bound by `begin_generation` is `projection`.

### Generation

What a caller may rely on: a request's completion grows by one token at a time and ends
exactly at `max_tokens` or at an end-of-sequence token it does not ignore, or a failed
step aborts all active requests. `ImplementsGeneration` shows that batching, chunks,
preemption, recomputation and sharing are invisible.

### Attention layout

`EngineCore` takes attention at its word: a row sees what its path says. `AttentionLayout`
opens the step. A key or value is the token it was projected from, `<<member, position>>`;
a result row is the query it belongs to and, per head, the set of entries its softmax
ranges over. The planner (`Plan`) chooses between one left-padded rectangle and member by
member, and halves the chunk of query rows, or splits heads, until the buffers fit the
workspace. `Dense` applies the mask with its offset from the end of the keys; `Written`
and `Gather` are the slot kernels. Padding rows carry an entry that no history contains.
Byte counts are exact: an overflowing `usize` product is larger than any workspace and the
code refuses both.

### Sampler

An F32 is a fixed-point integer with a largest finite value `FMax`; from `Coarse` on a
Gumbel draw is lost in rounding, which is the case the wide arithmetic exists for. F64 is
exact. `exp` is a power of two that underflows below `-Depth`. The host adapter works row
by row; the device adapter prepares the batch, grows the workspace, launches the pipeline
and runs each row through penalties, scaling, sort, limits and selection over buffers that
keep what the previous row or call left (`Garbage` after a failure). `Threads` is the
number of chunks a kernel block cuts the vocabulary into. The reference, `Documented`, is
written over exact scores and sets: penalties, the best `top_k` with ties by token id, the
smallest nucleus, the best noisy score. Any stage may fail.

### Start-up

`EngineInit` keeps widths: `usize` is `0 .. MaxUsize`, `isize` `0 .. MaxIsize`, and a
utilization is a fraction. The product in floating point may come out one above the exact
floor, never above the whole. Sizing, the private capacity of a fixed-prefix plan, the
one-time allocation, compute limits and the warm-up through the attention context are one
action each, and each may fail; the guards that are dropped on failure are actions too.

`ModelResolution` has a Hub (or a local directory) whose name designates a snapshot, an
immutable set of files. `MoveRef` and `Prune` happen between any two fetches, and an
offline cache may hold what an interrupted download left. An artifact is the pair
`<<snapshot, file>>` it was read from, so mixing is visible. JSON is abstracted to the
fields that are used: shards, architecture, dtype and special tokens.

`Startup` puts the two in the order of `LLM::new`. Resolution runs before the context
limit is checked, tokenizer, factory and weights after it. What a ready engine guarantees
(`ReadyCanServe`) is what `Scheduler` assumes of its pool (`PoolHoldsOneRequest`).

### Diagnostics

Four drivers live behind the `internal-golden` feature. All speak to `generate` through
environment variables, and `generate` refuses combinations, so a process runs one of them:
`DiagnosticDrivers` chooses one in its initial state. The engine is seen through what its
steps emit: chunks, batches in any composition, preemption with recomputation, failures.

* `GoldenCapture`: threads take a lock, set the variables, call `generate`, which spools
  the rows of each request, writes, checks and publishes an artifact; the consumer parses
  it with its own code. A panic poisons the lock: later calls return an error.
* `Telemetry`: the producer times the steps and derives the metrics; the consumer
  recomputes them from the raw steps. Another process may create the destination.
* `FixedPrefix`: a driver runs setup plans and a target on one engine; the session inside
  a step records the prediction and then replaces the token, except in a control run. The
  layer trace expects every token of its call once, in order.
* `IsolatedCalls`: nested `generate` calls bound by a variable; `write_atomic_json` system
  call by system call, with a kill between any two.

### Memory monitor

`NvmlSession` is the vendor library: loaded, initialised and shut down, each of which may
fail, with `close` and `Drop` on every way out. `NvmlMonitor` has the worker (open,
initialise, wait, enter, query, observe, close, drop) and the owner (start, await the
baseline, finish, await the acknowledgement, join, save). They share three one-place
channels and a trace behind a mutex; an action is what happens under one lock. Time is a
tick counter, and instants are truncated to milliseconds as the code does. A deadline of
the owner may expire whenever the answer is missing, since nothing bounds a driver call.

### Release installation and gate

`ReleaseInstall` runs the two installers of the code on one cache. Manifest and archive
are fetched separately, so a republication or a rewrite of the bundle falls between any
two reads. A tree has one file per path, and equal bytes are one manifest
(`ReleaseShape`); a damaged archive is one with a digest that nothing declares. Extraction goes member by member into a staging directory, and the final
directory appears by a rename that does not replace. A kill leaves the staging directory
behind and nothing else.

`GoldenGate` loads prompts and manifest, tracks each expected fixture through its stages,
compares the cases (`CompareL1`: tokens and the gap at the first difference, `CompareL2`:
logits over the shared prefix), and decides the exit code from totals and messages.

## 3. Runs

| Run | Instance | Shows |
|---|---|---|
| `pool` | 3 blocks of 1 token, 2 sequences (symmetric), 2 tokens, histories up to 3 | ownership, sound and findable prefix hits, no late errors, published blocks are stable |
| `scheduler` | 4 requests, 3 blocks of 2, budget 2, 3 places, prompts of 1 and 3 tokens | order, limits, exact work, exclusive writes, no starvation, no planning error; the pool is used only as `PoolSpec` allows |
| `engine` | 3 requests in calls of up to 2, 3 blocks of 2, failures anywhere | KV contents, cleanup, attention lifecycle, results, refinement of `Generation` |
| `engine_liveness` | 2 requests, 2 blocks of 3, budget 2 | every call returns |
| `engine_budget1` | the same with budget 1 | a call that never returns (see section 6) |
| `attention_layout` | 3 members of up to 4 tokens, interleaved blocks of 2, 2 query heads on 1 KV head, 5 workspaces | exact causal history per head and row; refusal only if the smallest split does not fit |
| `sampler` | vocabulary 4 in 2 chunks, 12 rows alone and in pairs, 2 calls, both adapters | the documented token; failures keep seeds, histories fit, admitted parameters run |
| `startup` | `usize` to 127, `isize` to 63, blocks of 2, 10 options, 7 configurations, 3 readings, 12 snapshots | sizing fits, one complete model, able to serve, justified refusals |
| `diagnostic_drivers` | see below | exact captures, telemetry and replays; nothing leaks; whole artifacts; calls return |
| `nvml_monitor` | interval 2, gap limit 4, 2 ticks per millisecond, 3 samples, 5 ticks | exact acceptance, balanced driver, no mutual waiting |
| `release_install` | 2 installers, releases with one defect each, prior installs, 1 republication | only declared, whole, immutable installs |
| `golden_gate` | manifests, fixture sets and candidates with one defect each, vocabulary 2 | the gate fails closed; its verdict is the documented one |

Why these bounds. *Blocks*: three hold one longest history, the least `PoolHoldsOneRequest`
allows, and not two of them, so that preemption and rollback happen; shorter requests
leave free blocks that are still cached. *Block size*: one token per block makes every token publish a block and
gives the deepest chains for the pool; two or three are needed for chunks that end inside
a block. *Hashes*: with one hash value every lookup is a collision; in `pool` some blocks
hash to the sentinel. *Budget*: two tokens are the smallest budget that a decoder and an
admission share, and split a three-token prompt. *Tokens*: one is enough where only
lengths matter, two where prefixes must differ. *Requests*: two running and one or two
waiting show overtaking. `MaxModelLen` and `SeqId` bound histories and the number of
requests; they appear in guards (`AddRequest`, `BeginCall`, `Commit`). *Attention*: three
members are the fewest of which one is longest, one padded and one in the middle; the
workspaces select the rectangle, member by member, halved chunks, split heads and a
refusal. *Sampler*: four tokens in two chunks put the top-k threshold and the nucleus
cutoff on a chunk boundary and inside a chunk, with ties; rows cover each path, and a pair
runs them after one another on one workspace. *Start-up*: with 127 as the largest integer
the products of a nine-layer configuration overflow; the readings hold none, one too few
and exactly the required blocks. *Diagnostics*: two requests of two tokens finish in
different steps; two threads and two calls race for the lock; prompts of three tokens in
chunks of two give a first and a last chunk; one preemption (two in a replay) makes a
request recompute before and after its first token; three nested calls have one before and
one after the failing one. *Monitor*: five ticks hold a baseline, a slow call, a stop and a
late answer. *Installs*: two installers are all a rename can race with, and every later one
meets a finished install. *Gate*: the verdict of a case depends on that case, and each
input has one defect, so that a missed check is not covered by another.

Deadlock is not checked: every model ends, when the sequence ids are used up, a call has
returned, an installer is done. That nothing stops too early is stated as properties:
`StepErrorsUnreachable`, `CallReturns`, `CallsReturn`, `MonitorReturns`.

Symmetry is used in `pool` only, where sequences are interchangeable model values; it is
not used with temporal properties, `PublishedIsStable` being an action property.

Every property has a mutant in the module of the code it is about (definitions that
start with `Mut`): a dropped guard, a wrong queue end, a count off by one. Each makes TLC
find that property violated. Several properties are conjunctions of named parts
(`KvIsFaithful`, `InstallsAreWhole`, `CallsDoNotLeak`, ...); the parts are stated and
commented one by one where they are defined.

What the instances assume of the world: the fixture directory is not written while the
gate reads it, a local checkpoint directory is read-only while it is mapped (`loader.rs`
asks for that), the kernels of one stream run in order, and the logits of the model are finite.

### Fairness

`EngineFairness` is weak fairness of `EngineStep`: `generate` is a loop on one thread that
calls `step` again as long as requests are left, and every step terminates if the forward
pass does. Failures (`ForwardFails`, `PrepareFails`) and new calls are not fair: the
program promises neither. Nothing is assumed about the sampled tokens.

`CapFairness` is weak fairness of each capturing thread: a thread that can run does, and
its `generate` call returns or panics. A thread that waits for the lock is not enabled, so
its progress has to come from the release of the lock by the others, also after a panic.

`MonFairness` is weak fairness of the worker, of the owner and of the clock. The owner's
deadlines make its waits finite; a driver call that is stuck is a worker step that takes
long, not one that never returns, because `join` waits for it without a deadline.

## 4. Proofs

A theorem below holds for every value of the constants its assumptions allow. Each proof
module extends the modules it is about; the table lists what it proves. In the names that
`PROJECT.json` uses, the component comes first: `PoolOwnership`, `EngineKvIsFaithful`.

| Module | Proves | For every |
|---|---|---|
| `SeqOrderProofs` | the lemmas on ordered selections and sums the others cite | |
| `BlockPoolProofs` | `PoolTypeOK`, `Ownership`, `PrefixPublished`, `PublishedIsStable`, `CachedIsFindable`, `NoPoolErrors` | number and size of blocks, vocabulary, finite set of sequences, hash function |
| `SchedulerProofs` | `ImplementsPool`, `QueuesConsistent`, `PlanIsExact`, `WritesAreExclusive`, `StepErrorsUnreachable`, `WaitersAreServed` | the same, and token budget, sequence limit, order of arrivals and steps |
| `EngineCoreProofs` | `KvIsFaithful`, `SamplesSeeWholeHistory`, `CleanBetweenCalls`, `AttentionFollowsPlan`, `ResultsComplete`; the scheduler and the engine implement `Generation` | the same, and size of the calls and place of the failures |
| `ForwardPassProofs` | attention layout: `AttentionIsExact`, `RefusedOnlyForWorkspace` | number and lengths of requests, heads, block tables, batches, workspaces, chunk limits |
| | sampler: `DeviceCallsAreSafe` | vocabulary, block, batches and histories, failing stages |
| `StartupProofs` | `PoolFitsMemory`, `ReadyCanServe`, `RefusalIsJustified`, `ReadyServesOneModel` | integer widths, configurations, readings, snapshots |
| `DiagnosticDriversProofs` | `CallsDoNotLeak`, `EvidenceIsWhole`, `CaptureIsExact`, `ReplayIsExact` | capturing threads and calls, sessions, frozen plans, predictions, chunkings and preemptions |
| `TestToolProofs` | memory monitor: `DriverBalanced`, `AcceptanceIsExact` | clock unit, interval, gap limit, number of samples |
| | installs: `InstallsAreWhole`, `InstallsAreImmutable` | installers, releases, prior contents of the cache |
| | gate: `VerdictIsSamePrefix`, `GateFailsClosed` | corpora, manifests, directories, options, candidates |

### Assumptions

They are `ASSUME`d by name in the modules that declare the constants, so every run
evaluates them.

* `PoolSizes`: positive sizes, finitely many sequences, nonempty well-typed prompts that
  leave room for a token (`LLM::generate` validates that before it admits anything).
* `HashDomain`: the hash function returns hash values. Nothing else is assumed of it.
* `EngineOptions`, `PoolHoldsOneRequest`: the options are those `EngineOptions::validate`
  accepts, and the pool holds one request of the full context length. The second is what
  `StartupReadyCanServe` proves of an engine that was built.
* `LayoutShape`: positive sizes, tables long enough for the longest request, key heads that
  divide the query heads, and a block for one place of one request only. Requests that share
  a prefix do share blocks; both see the same entries there (`KvIsFaithful`), and here an
  entry is named after its request.
* `SamplerShape`, `BatchTypes`: positive sizes; a batch is a list of rows, whose `top_k` is
  absent or a natural number (a `usize`). `Valid` parameters are not assumed, `generate`
  refuses others.
* `SizingShape`, `ResolutionShape`: numbers have the width of the machine's integers; the
  files a loader asks for have distinct names.
* `ClockUnits`: times are positive, and the gap limit is a whole number of milliseconds of
  which an interval has at least one, as in the constants of `nvml_monitor.rs`.
* `ReleaseShape`: a manifest is determined by its bytes, a tree has one file per path, and
  "no directory" is not the name of a digest. This says that the digest function does not
  collide on the inputs at hand, on which the installers rest.
* `InputTypes`: the lists in a manifest and a corpus are lists, tokens and thresholds are
  numbers, a fixture directory is finite, a finite logit is less than `NonFinite`. Nothing
  is assumed about their contents: ids may repeat, be missing or contradict each other.
* `CaptureShape`, `PlansNonEmpty`: positive sizes, "free" is not the name of a thread, and
  each member of a frozen plan has a prompt and a continuation (the validation of a plan
  in `fixed_prefix.rs` refuses others).

### Inductive invariants

No property is inductive by itself; what has to be added is the explanation of why it
holds.

*Pool.* `PoolInv == PoolTypeOK /\ Ownership`. Types need ownership: `allocate` takes the
first blocks of the free list, and only `Ownership` guarantees that there are enough of
them once the cached ones are taken out (`AdmitPlan`); a release subtracts counts, and
stays in the natural numbers only because counts are exact. Ownership needs types to speak
about positions and lengths. The argument has one lemma per operation and rests on

* `EnumerateBijective`, `RetainProperties`, `WalkOrderProperties`: a selection by rank
  lists each element once, hence no block is lost or doubled when it moves between lists;
* `CachedPrefixProperties`: the blocks of a cached prefix are distinct, because their
  identities have different lengths. This is where identities matter: by hash alone the
  same block could appear twice in a table;
* `ChainHashExists`: the recursion of `compute_hash` defines a function. The library's
  induction theorems take an operator and cannot be instantiated by the installed
  provers; `SetInduction` does it with a set, from the least element of a set of naturals.

`CacheInv` adds, for each sequence, that its cached blocks are published under its own
prefixes and that the index still lists them. A used block is never evicted, which gives
`PublishedIsStable` and `CachedIsFindable`.

*Scheduler.* `SchedInv` orders both queues by arrival (everything running arrived before
everything waiting), lets only running sequences own blocks, says what a running sequence
may lack (`InPhase`: a decoder its last token, and at most one block), and follows the
control point: what each entry of a plan computes, before and after it is applied
(`PlanOK`), and that the decoders which ran before the admissions can get their blocks by
rolling admissions back (`SelectionOK`), which is what keeps `plan_step` from failing
late. Preemption and rollback keep the order because both take the last running sequence.
`SystemInv == SchedInv /\ CacheInv`
carries the pool along: each scheduler step is a step of `PoolSpec` or leaves the pool
alone, and so every theorem about the pool holds in the scheduler.

*Admission.* `WaitersAreServed` depends on a number: when `reserve_decode_cache` rolls
the last admission back, the blocks it frees could in principle suffice for the request it
gave up, which would then be passed over. `ServedInv` states that they do not. The cost of
a request is the blocks it needs minus the prefixes another sequence holds; a late
admission found all there was to find, and each block it found is held by an earlier
sequence or is the only one in use for its prefix. What a rollback gives back therefore
does not pay for the same admission again (`RollbackFreesTooLittle`), and the decoders
that caused it still have to be served from it.

*Engine.* `EngineInv` adds the KV contents: all positions counted as cached, those of the
plan once it is computed, and every published block, used or free, hold entries of their
own history. That free blocks are included is what makes a later hit sound. A failing
forward pass overwrites planned slots only, which belong to nobody else
(`WritesAreExclusive`) and are not yet counted. `GenInv` relates outputs to histories for
the refinement of `Generation`, whose request states are a function of the scheduler's,
and `ResultsInv` relates request ids, queues and outputs of a call for `ResultsComplete`.

*Attention layout.* `LayoutInv` says that a step that is ready is the one of a batch
(`Ready`), that its plan gives each member a chunk of at least a row (`Planned`), and that
results and cache are exact for what was computed. The work is in the lemmas:
`FlattenProperties` gives the place of each row in a concatenation of ragged parts
(`FlattenSeq` is a recursive function, whose existence `FlatExists` shows), from which
`PadShape` and `UnpadPad` find each row in the rectangle and back, and `DenseShape` shows
that chunks do not matter; `AttendExact` shows that a mask counted from the end of the keys
is the causal one whatever the padding; `SlotUnique` shows that no row is written over
another. `RefusalIsForWorkspace` needs that the halving loop ends with a chunk that fits or
with a single row (`HalvingEnds`).

*Sampler.* `SamplerInv` carries through the pipeline what its entry checked: the rows of a
call under way are valid (`ValidCall`), and a prepared batch has as many counts as tokens
(`PairedHistory`; both are concatenations of ragged parts, so `FlattenProperties` serves
here too). `SoundWorkspace` says that both history buffers have the recorded length, also
after a failed kernel; it holds since they are replaced and recorded in one step
(`WorkspaceKeepsInv`), and with `CapacityFits`, by which the next power of two is large
enough, it bounds every launched batch. `GeneratorInStep` puts the generator of the device
where the calls that returned left it, whatever stage fails.

*Start-up.* `StartInv` says per stage what has been checked, and what a plan of the pool
guarantees (`PlanOK`). `ResInv` says per call of the resolution which artifacts come from
the pinned snapshot, and that an offline cache is `Orderly`: it has a shard only if it has
all smaller files of that snapshot, because downloads stop at some file of their order.

*Memory monitor.* `MonInv` has one part per relation between the two threads. `SessionOK`:
the state of the driver follows the worker's control point. `TraceOK`: accepted samples
are a prefix without a hole. `PaceOK`: as long as nothing failed, the largest gap is within
the limit, and the next query is due an interval after the last. `StopOK`: one stop, and a
final query entered after it. `BaselineOK`: a call that ran had a baseline, so the final
sample is a second one. `JoinOK`: the judged trace is the one of a joined worker. `RoundedGap` and `ProjectedGap` are the arithmetic of instants
truncated to milliseconds: because the limit is a whole number of milliseconds, truncation
changes no verdict.

*Installs.* `InstInv` bounds each installer by what it has fetched (`InstallerOK`: a stage
holds only files its manifest declares) and shows that one nobody disturbs proceeds
(`OnTrack`). When a directory is renamed into place all members have been extracted, and
`VerifiedInstall` concludes from equal bytes that the manifest is the one of the digest.

*Gate.* `GateInv` says what the inputs and each stage guarantee (`Loaded`, `Compared`): the
cases compared so far and those to come are together the reference fixtures that can be
compared, in the order of the manifest; every expected id is in the tracker; each pushed
result is the verdict of its case, and each failure has a message. That a pass means
everything follows by counting: the tracker's sets are disjoint and cover what was
expected, and a reference case leaves the list only with a result or a failure. Duplicate
ids in a manifest or in the directory are what makes the invariant long. The verdict
follows case by case from the first index where the two outputs differ.

*Diagnostics.* One driver runs and the others rest, so `DiagInv` is the conjunction of five
invariants. `CapOwned`: the lock of the capture has one holder, which is the only thread
whose call has a workspace, files or an environment, and every exit, also by panic, removes
what the entry made. `CapExact`: each spool holds the rows its request sampled
so far and no others, and a published artifact is the concatenation of complete spools. Row
`k` of request `i` is therefore at place `(i - 1) * Tokens + k` (`At`), whichever order the
engine sampled them in; the publication needs all of them, and finds them when the requests
of its call finished, hence `CompleteCaptureAccepted`. `IsoInv`: a binding exists while its engine does, and only there.
`TelInv`: a staged summary is never left behind. `FixInv` relates the history of each replayed
request, the rows recorded and the tokens that advanced: there is exactly one row per member
and step so far, whatever the chunking, because a row is made only when the step computes
the whole missing part of a history (`SteppedMember`), and a preemption resets what is
computed and nothing that is recorded. Where it samples, the history is the
prompt and the frozen continuation up to here, hence the row shows the frozen prefix.

Refusals in `NvmlMonitor` are ordered `IF` chains, as the early returns of
`retain_sample` and `validate_memory` are. The provers ask for this order: a `CASE` with overlapping
guards leaves the outcome open, and nothing can be proved of it.

### Only model-checked

* liveness: `CallReturns`, `CallsReturn`, `MonitorReturns`. Fairness and `ENABLED` are out
  of the prover's reach;
* `SelectsAsDocumented` of `Sampler`: sums of scores, sorted rows and reductions over
  threads need induction over data at every step, and the agreement rests on the numbers
  chosen for rounding and underflow;
* `TelemetryIsExact`: producer and consumer fold over the event log.

## 5. Not modelled

* tensor arithmetic: projections, normalisation, the values of attention. The model's
  prediction is any token, or a given function of the history in a replay;
* non-finite logits, and threads that race inside one kernel block of the sampler;
* tokenisation and decoding in `generate`. The empty call is modelled only for the private
  modes that use it;
* the test-only switch that turns the prefix cache off;
* the checkpoints a `StepTrace` of the layer trace stores, what each operator rule
  computes, and the advisory text similarity (L3) of the gate;
* the benchmark runner's plan, a straight line of calls around engines and the monitor;
* measurement, observation and approval: equality checks of Git trees, executables and
  recorded numbers, without state of their own;
* the CLI, and the Python tools under `tools/golden-gen`;
* results that do not belong to the plan in flight: `apply_step_result` rejects them, but
  its only caller never produces one;
* the errors of the attention context when it is entered out of turn. The model keeps
  their conditions as guards, and `AttentionFollowsPlan` shows that the context is always
  idle when a step starts.

`docs/architecture.md` mentions copy-on-write for shared blocks. There is no copy in the
code, and `WritesAreExclusive` shows why none is needed: the last block of a history is
never shared, and only it and later blocks are written.

## 6. Finding

With `max_num_batched_tokens = 1`, which `EngineOptions::validate` accepts, a call may
never return (run `engine_budget1`). Two requests hold one block each, and no block is
left. Request A must append a block to decode; `preempt_if_needed` evicts B. Now B is the
waiting head and fits into the block just freed, so `select_work` reserves one token for
it, which is the whole budget. A gets nothing, B takes the block again and recomputes one
token. In the next step A needs the block again and B is evicted. With a budget of two
tokens A decodes, or B's admission is rolled back, and the call returns.

## 7. Plan

1. (done) pool, scheduler, attention context, engine, abstract generation, their runs;
   type correctness and ownership of the pool proved.
2. (done) attention layout, sampler, start-up, diagnostics, memory monitor, installs and
   gate, with their compositions.
3. (done) proofs of pool, scheduler, engine, attention layout, sampler, start-up, diagnostics,
   memory monitor, installs and gate, with the refinements.
4. Prove what section 4 lists as only model-checked and is within reach of the provers.
5. Model what is left of the release tooling: the benchmark runner with its journal, and
   supervision and publication in `tools/golden-gen`.
