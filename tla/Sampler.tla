------------------------------ MODULE Sampler ------------------------------
(***************************************************************************)
(* Sampler::forward with its two adapters: the host reference and the      *)
(* device pipeline with its reused workspace                               *)
(* (crates/vllm-oxide/src/sampler.rs, sampler/cuda.rs and                  *)
(* kernels/sampler.cu).  An F32 is a fixed-point integer in units of 1/One *)
(* with a largest finite value FMax; from Coarse on, a Gumbel draw is lost *)
(* in rounding.  F64 is exact.  exp is a power of two that underflows      *)
(* below -Depth.  Logits are finite.  The stream runs its kernels in       *)
(* order, and any of its calls may report an error.                        *)
(***************************************************************************)
EXTENDS SeqOrder, SequencesExt

CONSTANTS
  Vocab,        \* vocabulary of the model
  Threads,      \* kThreads, threads of a block
  One, FMax, Coarse, Tiny, Depth, \* 1.0, f32::MAX, 2^24, subnormals, exp
  PUnit,        \* top_p counts in units of 1/PUnit
  SampledBatches, \* batches of generate tried: sequences of rows
  Noise,        \* the draws: sequence of functions of the token
  MaxCalls      \* bound on the calls of generate

ASSUME SamplerShape ==
  /\ {Vocab, Threads, One, FMax, Coarse, Depth, PUnit} \subseteq Nat \ {0}
  /\ Tiny \in Nat /\ Coarse < FMax
  /\ Noise # <<>>

VARIABLES
  cuda,         \* whether the logits are CUDA tensors
  rng,          \* draws taken from the generator
  ws,           \* cuda_workspace
  pc,           \* where the call is
  call,         \* rows of the call: logits, params and token history
  row,          \* row being sampled
  prep,         \* PreparedBatch: flattened histories and their offsets
  origin,       \* draw at which the noise of each row starts
  selected,     \* selected tokens
  drawn,        \* history: draws of the calls that returned tokens
  calls         \* calls so far

vars == <<cuda, rng, ws, pc, call, row, prep, origin, selected, drawn, calls>>

Token == 0 .. Vocab - 1

NoToken == Vocab          \* UINT32_MAX

NoPrep == [tokens |-> <<>>, counts |-> <<>>, offsets |-> <<0>>]

(* Device memory of one row: kernels of later rows find what is left.      *)
Fresh == [capacity |-> 0, tokens |-> <<>>, counts |-> <<>>,
          keysIn |-> [t \in Token |-> 0], keysOut |-> [t \in Token |-> 0],
          idsOut |-> [t \in Token |-> 0],
          limits |-> <<0, 0>>, wide |-> FALSE,
          maximum |-> [base |-> 0, count |-> 0]]

Init ==
  /\ cuda \in BOOLEAN
  /\ rng = 0 /\ drawn = 0 /\ calls = 0
  /\ ws = Fresh
  /\ pc = "idle"
  /\ call = <<>> /\ row = 1
  /\ prep = NoPrep
  /\ origin = <<>> /\ selected = <<>>

-----------------------------------------------------------------------------
(* Arithmetic                                                              *)

Inf == 1000 * FMax

Abs(x) == IF x < 0 THEN -x ELSE x

Finite(x) == Abs(x) <= FMax

F32(x) == IF x > FMax THEN Inf ELSE IF x < -FMax THEN -Inf ELSE x

Over(v, d) == (v * One) \div d

(* Fast math flushes a subnormal divisor to zero.                          *)
FastOver(v, d) ==
  IF d <= Tiny THEN (IF v < 0 THEN -Inf ELSE Inf) ELSE F32(Over(v, d))

AddNoise(score, g) == IF Abs(score) >= Coarse THEN score ELSE score + g

Mass(d) == IF d < -Depth THEN 0 ELSE 2 ^ (Depth + d)

SumOver(S, f) == FoldLeft(LAMBDA a, t : a + f[t], 0, SetToSeq(S))

Drawn(n) == Noise[1 + (n % Len(Noise))]

(* The device derives a row's noise from its seed, the host takes one draw *)
(* for each token.                                                         *)
RowNoise(n) ==
  IF cuda THEN Drawn(n) ELSE [t \in Token |-> Drawn(n + t)[0]]

-----------------------------------------------------------------------------
(* SamplingParams                                                          *)

NoTopK == -1

(* A batch is a list of rows; top_k is absent or a number of tokens.       *)
ASSUME BatchTypes ==
  \A batch \in SampledBatches :
    /\ batch \in Seq(Range(batch))
    /\ \A i \in DOMAIN batch : batch[i].params.topK \in Nat \cup {NoTopK}

Valid(p) ==
  /\ p.temp >= 0
  /\ p.topK # 0
  /\ p.topP \in 1 .. PUnit
  /\ p.pres \in -2 * One .. 2 * One
  /\ p.freq \in -2 * One .. 2 * One
  /\ p.rep >= 0

IsGreedy(p) == p.temp = 0 \/ p.topK = 1

HasPenalties(p) == p.pres # 0 \/ p.freq # 0 \/ p.rep # 0

Count(history, t) == Cardinality({i \in DOMAIN history : history[i] = t})

Penalised(r) == HasPenalties(r.params) /\ r.history # <<>>

(* The F32 formula of both adapters, one token: repetition, presence,      *)
(* frequency, in this order and once for a token whatever its count.       *)
PenaltyOf(v, p, n, Divide(_, _)) ==
  LET repeated == IF p.rep # 0 THEN Divide(v, p.rep) ELSE v
  IN  F32(F32(repeated - p.pres) - p.freq * n)

-----------------------------------------------------------------------------
(* Wide scores keep the count beside the base, so that only differences    *)
(* are rounded.                                                            *)

WideScores(r) ==
  [t \in Token |->
    LET n == IF Penalised(r) THEN Count(r.history, t) ELSE 0
    IN  [base |-> IF n > 0 /\ r.params.rep # 0 THEN Over(r.logits[t], r.params.rep)
                                                ELSE r.logits[t],
         count |-> n]]

Difference(a, b, p) ==
  LET present(s) == IF s.count > 0 THEN 1 ELSE 0
  IN  (a.base - b.base) - p.freq * (a.count - b.count)
                        - p.pres * (present(a) - present(b))

(* The first token no other is better than: the strict comparisons of the  *)
(* host loops.                                                             *)
FirstWide(scores, p) ==
  CHOOSE t \in Token : \A u \in Token :
    LET d == Difference(scores[u], scores[t], p)
    IN  d < 0 \/ (d = 0 /\ t <= u)

Normalize(score, best, p) ==
  IF p.temp = Inf THEN 0 ELSE F32(Over(Difference(score, best, p), p.temp))

RequiresWide(r) ==
  LET p == r.params
      top == CHOOSE m \in {Abs(r.logits[t]) : t \in Token} :
               \A t \in Token : Abs(r.logits[t]) <= m
      divided == IF p.rep > 0 /\ Over(top, p.rep) > top THEN Over(top, p.rep)
                                                       ELSE top
      bound == IF Penalised(r)
                 THEN divided + Abs(p.pres) + Abs(p.freq) * Len(r.history)
                 ELSE top
  IN  /\ ~(IsGreedy(p) /\ ~Penalised(r))
      /\ \A t \in Token : Finite(r.logits[t])
      /\ \/ bound > FMax
         \/ /\ ~IsGreedy(p) /\ p.temp # Inf
            /\ p.temp <= Tiny \/ Over(bound, p.temp) >= Coarse

-----------------------------------------------------------------------------
(* The host adapter, one row                                               *)

FirstMax(buf) ==
  CHOOSE t \in Token : \A u \in Token :
    buf[u] < buf[t] \/ (buf[u] = buf[t] /\ t <= u)

ApplyPenalties(r) ==
  [t \in Token |->
    IF Count(r.history, t) = 0 THEN r.logits[t]
    ELSE PenaltyOf(r.logits[t], r.params, Count(r.history, t),
                   LAMBDA v, d : F32(Over(v, d)))]

Rank(buf, t) ==
  Cardinality({u \in Token : buf[u] > buf[t] \/ (buf[u] = buf[t] /\ u < t)})

MaskTopK(buf, k) ==
  LET threshold == buf[CHOOSE t \in Token : Rank(buf, t) = k - 1]
  IN  [t \in Token |-> IF buf[t] < threshold THEN -Inf ELSE buf[t]]

MaskTopP(buf, p) ==
  LET max == buf[FirstMax(buf)]
      mass == [t \in Token |-> Mass(F32(buf[t] - max))]
      upTo(n) == SumOver({t \in Token : Rank(buf, t) < n}, mass)
      reached == {n \in 1 .. Vocab : upTo(n) * PUnit >= p * upTo(Vocab)}
      cutoff == IF reached = {} THEN Vocab
                ELSE CHOOSE n \in reached : \A k \in reached : n <= k
  IN  [t \in Token |-> IF Rank(buf, t) >= cutoff THEN -Inf ELSE buf[t]]

Filter(buf, p) ==
  LET byK == IF p.topK \in 1 .. Vocab - 1 THEN MaskTopK(buf, p.topK) ELSE buf
  IN  IF p.topP < PUnit THEN MaskTopP(byK, p.topP) ELSE byK

GumbelArgmax(buf, noise) ==
  FirstMax([t \in Token |-> AddNoise(buf[t], noise[t])])

SampleRowWide(r, noise) ==
  LET scores == WideScores(r)
      best == FirstWide(scores, r.params)
  IN  IF IsGreedy(r.params) THEN best
      ELSE GumbelArgmax(
             Filter([t \in Token |->
                       Normalize(scores[t], scores[best], r.params)], r.params),
             noise)

SampleRowHost(r, noise) ==
  LET buf == IF Penalised(r) THEN ApplyPenalties(r) ELSE r.logits
      scaled == [t \in Token |-> IF r.params.temp = Inf THEN 0
                                 ELSE F32(Over(buf[t], r.params.temp))]
  IN  IF RequiresWide(r) THEN SampleRowWide(r, noise)
      ELSE IF IsGreedy(r.params) THEN FirstMax(buf)
      ELSE GumbelArgmax(Filter(scaled, r.params), noise)

-----------------------------------------------------------------------------
(* forward                                                                 *)

(* generate validates every row's params before it admits the batch.       *)
SamplerForward(batch) ==
  /\ pc = "idle" /\ calls < MaxCalls
  /\ \A i \in DOMAIN batch : Valid(batch[i].params)
  /\ call' = batch
  /\ row' = 1
  /\ origin' = <<>>
  /\ selected' = IF cuda THEN [i \in DOMAIN batch |-> 0] ELSE <<>>
  /\ calls' = calls + 1
  /\ pc' = IF cuda THEN "prepare" ELSE "host"
  /\ UNCHANGED <<cuda, rng, ws, prep, drawn>>

(* Every sampled row takes one draw for each token, a greedy row none.     *)
ForwardHostRow ==
  /\ pc = "host" /\ row <= Len(call)
  /\ selected' = Append(selected, SampleRowHost(call[row], RowNoise(rng)))
  /\ origin' = Append(origin, rng)
  /\ rng' = rng + IF IsGreedy(call[row].params) THEN 0 ELSE Vocab
  /\ row' = row + 1
  /\ UNCHANGED <<cuda, ws, pc, call, prep, drawn, calls>>

ForwardHostReturns ==
  /\ pc = "host" /\ row > Len(call)
  /\ pc' = "returned"
  /\ drawn' = rng
  /\ UNCHANGED <<cuda, rng, ws, call, row, prep, origin, selected, calls>>

(* A row cannot be read, or the result not built: the host keeps the draws *)
(* of the rows before.                                                     *)
ForwardHostFails ==
  /\ pc = "host"
  /\ pc' = "failed"
  /\ UNCHANGED <<cuda, rng, ws, call, row, prep, origin, selected, drawn, calls>>

-----------------------------------------------------------------------------
(* The device adapter before its kernels                                   *)

(* counts of a row's history, in the order of a BTreeMap.                  *)
MutUniqueHistory(r) ==
  IF ~Penalised(r) THEN <<>>
  ELSE LET seen == {t \in Token : Count(r.history, t) > 0}
       IN  [i \in 1 .. Cardinality(seen) |->
              CHOOSE t \in seen : Cardinality({u \in seen : u > t}) = i - 1]

UniqueHistory(r) ==
  IF ~Penalised(r) THEN <<>>
  ELSE LET seen == {t \in Token : Count(r.history, t) > 0}
       IN  [i \in 1 .. Cardinality(seen) |->
              CHOOSE t \in seen : Cardinality({u \in seen : u < t}) = i - 1]

(* The rows' histories, one after the other, and where each begins.        *)
PrepareBatch(batch) ==
  LET unique == [i \in DOMAIN batch |-> UniqueHistory(batch[i])]
      lengths == [i \in DOMAIN batch |-> Len(unique[i])]
  IN  [tokens |-> FlattenSeq(unique),
       counts |-> FlattenSeq([i \in DOMAIN batch |->
                    [k \in DOMAIN unique[i] |-> Count(batch[i].history, unique[i][k])]]),
       offsets |-> [i \in 1 .. Len(batch) + 1 |-> SumTo(lengths, i - 1)]]

(* The seeds come from a copy of the generator, one for each row.          *)
MutPrepareRows ==
  /\ pc = "prepare"
  /\ prep' = PrepareBatch(call)
  /\ origin' = [i \in DOMAIN call |-> rng + i - 1]
  /\ rng' = rng + Len(call)
  /\ pc' = "workspace"
  /\ UNCHANGED <<cuda, ws, call, row, selected, drawn, calls>>

PrepareRows ==
  /\ pc = "prepare"
  /\ prep' = PrepareBatch(call)
  /\ origin' = [i \in DOMAIN call |-> rng + i - 1]
  /\ pc' = "workspace"
  /\ UNCHANGED <<cuda, rng, ws, call, row, selected, drawn, calls>>

NextCapacity(n) ==
  LET power[k \in 0 .. n] == IF k = 0 THEN 1 ELSE 2 * power[k - 1]
      Fits(k) == power[k] >= n
  IN  power[CHOOSE k \in 0 .. n : Fits(k) /\ \A j \in 0 .. n : Fits(j) => k <= j]

Zeros(n) == [i \in 1 .. n |-> 0]

(* There is no workspace, or its history buffers are too small.  The       *)
(* vocabulary and the device of an engine never change.                    *)
Short(required) == ws.capacity = 0 \/ required > ws.capacity

(* Workspace::new and ensure_history_capacity: both buffers or none.       *)
EnsureWorkspace ==
  LET required == Len(prep.tokens)
      next == NextCapacity(required)
      short == Short(required)
  IN  /\ pc = "workspace"
      /\ \/ /\ short
            /\ ws' = [ws EXCEPT !.capacity = next,
                        !.tokens = Zeros(next),
                        !.counts = Zeros(next)]
            /\ pc' = "launch"
         \/ short /\ pc' = "failed" /\ UNCHANGED ws
         \/ ~short /\ pc' = "launch" /\ UNCHANGED ws
      /\ UNCHANGED <<cuda, rng, call, row, prep, origin, selected, drawn, calls>>

-----------------------------------------------------------------------------
(* Kernels: every thread scans its stride, the block reduces the threads.  *)

Better(a, b) ==
  \/ b.token = NoToken
  \/ a.score > b.score
  \/ a.score = b.score /\ a.token < b.token

Reduce(cand(_), limit) ==
  LET none == [score |-> -Inf, token |-> NoToken]
      pick(a, b) == IF b.token # NoToken /\ Better(b, a) THEN b ELSE a
      strided(i) == [k \in 1 .. Cardinality({n \in 0 .. limit - 1 : n % Threads = i})
                       |-> cand(i + (k - 1) * Threads)]
      threadBest == [i \in 1 .. Threads |->
                       FoldLeft(pick, none, strided(i - 1))]
      best == FoldLeft(pick, none, threadBest)
  IN  IF best.token = NoToken THEN 0 ELSE best.token

GreedyArgmax(buf) ==
  Reduce(LAMBDA i : [score |-> buf[i], token |-> i], Vocab)

R == call[row]

P == call[row].params

RowHistoryLen == prep.offsets[row + 1] - prep.offsets[row]

HistToken(i) == ws.tokens[prep.offsets[row] + i]

HistCount(i) == ws.counts[prep.offsets[row] + i]

(* Binary search in the row's slice of the history buffer.                 *)
LowerBound(t) ==
  LET f[b \in 0 .. RowHistoryLen, e \in 0 .. RowHistoryLen] ==
        IF b >= e THEN b
        ELSE LET middle == b + (e - b) \div 2
             IN  IF HistToken(middle + 1) < t THEN f[middle + 1, e]
                                              ELSE f[b, middle]
  IN  f[0, RowHistoryLen]

WidePenalized(t) ==
  LET at == LowerBound(t) + 1
      found == at <= RowHistoryLen /\ HistToken(at) = t
  IN  [base |-> IF found /\ P.rep # 0 THEN Over(R.logits[t], P.rep) ELSE R.logits[t],
       count |-> IF found THEN HistCount(at) ELSE 0]

WideCandidate ==
  CHOOSE t \in Token : \A u \in Token :
    LET d == Difference(WidePenalized(u), WidePenalized(t), P)
    IN  d < 0 \/ (d = 0 /\ t <= u)

SelectWide(noise) ==
  LET best == WidePenalized(WideCandidate)
  IN  IF IsGreedy(P) THEN WideCandidate
      ELSE Reduce(LAMBDA t : [score |-> AddNoise(Normalize(WidePenalized(t), best, P),
                                                 noise[t]),
                              token |-> t], Vocab)

TooWide(value, scaled) == Finite(value) /\ (~Finite(scaled) \/ Abs(scaled) >= Coarse)

PlainGreedy == \A i \in DOMAIN call :
  IsGreedy(call[i].params) /\ ~HasPenalties(call[i].params)

PreparedTopK(p) == IF p.topK = NoTopK \/ p.topK > Vocab THEN Vocab ELSE p.topK

KernelAccepts(p) ==
  p.temp >= 0 /\ PreparedTopK(p) \in 1 .. Vocab /\ p.topP \in 1 .. PUnit

(* The entry of vllm_oxide_sample_f32: a batch of plain greedy rows is one *)
(* launch, any other uploads the histories and goes row by row.            *)
Launch ==
  /\ pc = "launch"
  /\ IF \E i \in DOMAIN call : ~KernelAccepts(call[i].params)
       THEN pc' = "refused" /\ UNCHANGED <<ws, selected>>
     ELSE IF PlainGreedy
       THEN /\ selected' = [i \in DOMAIN call |-> GreedyArgmax(call[i].logits)]
            /\ pc' = "finish"
            /\ UNCHANGED ws
     ELSE /\ ws' = [ws EXCEPT
               !.tokens = prep.tokens \o SubSeq(@, Len(prep.tokens) + 1, Len(@)),
               !.counts = prep.counts \o SubSeq(@, Len(prep.counts) + 1, Len(@))]
          /\ pc' = "row"
          /\ UNCHANGED selected
  /\ UNCHANGED <<cuda, rng, call, row, prep, origin, drawn, calls>>

Subnormal(d) == d \in 1 .. Tiny

PenaltyKernel ==
  [t \in Token |->
    LET at == {i \in 1 .. RowHistoryLen : HistToken(i) = t}
    IN  IF at = {} THEN R.logits[t]
        ELSE PenaltyOf(R.logits[t], P, HistCount(CHOOSE i \in at : TRUE), FastOver)]

(* The flag is set anew for every row; penalties go to a copy of the row.  *)
StartRow ==
  LET penalised == HasPenalties(P) /\ RowHistoryLen > 0
  IN  /\ pc = "row" /\ row <= Len(call)
      /\ ws' = [ws EXCEPT
           !.keysIn = IF penalised THEN PenaltyKernel ELSE @,
           !.wide = \/ ~IsGreedy(P) /\ Subnormal(P.temp)
                    \/ RowHistoryLen > 0 /\ Subnormal(P.rep)
                    \/ penalised /\ \E t \in Token : ~Finite(PenaltyKernel[t])]
      /\ pc' = IF IsGreedy(P) THEN "greedy"
               ELSE IF PreparedTopK(P) < Vocab \/ P.topP < PUnit THEN "scale"
               ELSE "categorical"
      /\ UNCHANGED <<cuda, rng, call, row, prep, origin, selected, drawn, calls>>

Source == IF HasPenalties(P) /\ RowHistoryLen > 0 THEN ws.keysIn ELSE R.logits

Scaled(v) == IF P.temp = Inf THEN 0 ELSE FastOver(v, P.temp)

RowDone(token) ==
  /\ selected' = [selected EXCEPT ![row] = token]
  /\ row' = row + 1
  /\ pc' = "row"
  /\ UNCHANGED <<cuda, rng, call, prep, origin, drawn, calls>>

GreedyRow ==
  /\ pc = "greedy"
  /\ RowDone(IF ws.wide THEN SelectWide(RowNoise(origin[row]))
                        ELSE GreedyArgmax(Source))
  /\ UNCHANGED ws

(* categorical_gumbel_kernel over the first limit scores.                  *)
Categorical(score(_), id(_), limit) ==
  LET noise == RowNoise(origin[row])
  IN  Reduce(LAMBDA i : [score |-> AddNoise(score(i), noise[id(i)]),
                         token |-> id(i)], limit)

(* No filter: the narrow draw may raise the flag, the wide kernel then     *)
(* replaces its token.                                                     *)
CategoricalRow ==
  LET raised == ws.wide \/ \E t \in Token : TooWide(Source[t], Scaled(Source[t]))
  IN  /\ pc = "categorical"
      /\ ws' = [ws EXCEPT !.wide = raised]
      /\ RowDone(IF raised THEN SelectWide(RowNoise(origin[row]))
                 ELSE Categorical(LAMBDA t : Scaled(Source[t]), LAMBDA t : t, Vocab))

NormalizeKernel(maximum) == [t \in Token |-> Normalize(WidePenalized(t), maximum, P)]

(* scale_temperature, wide_max and normalize_wide.                         *)
ScaleRow ==
  LET raised == ws.wide \/ \E t \in Token : TooWide(Source[t], Scaled(Source[t]))
      maximum == IF raised THEN WidePenalized(WideCandidate) ELSE ws.maximum
  IN  /\ pc = "scale"
      /\ ws' = [ws EXCEPT
           !.wide = raised,
           !.maximum = maximum,
           !.keysIn = IF raised THEN NormalizeKernel(maximum)
                      ELSE [t \in Token |-> Scaled(Source[t])]]
      /\ pc' = "sort"
      /\ UNCHANGED <<cuda, rng, call, row, prep, origin, selected, drawn, calls>>

(* The radix sort is stable: equal keys keep the order of their tokens.    *)
SortRow ==
  LET at(i) == CHOOSE t \in Token : Rank(ws.keysIn, t) = i
  IN  /\ pc = "sort"
      /\ ws' = [ws EXCEPT !.idsOut = [i \in Token |-> at(i)],
                          !.keysOut = [i \in Token |-> ws.keysIn[at(i)]]]
      /\ pc' = "limit"
      /\ UNCHANGED <<cuda, rng, call, row, prep, origin, selected, drawn, calls>>

TopKLimit(sorted, k) ==
  IF k >= Vocab THEN Vocab
  ELSE LET differs == {n \in k .. Vocab - 1 : sorted[n] # sorted[k - 1]}
       IN  IF differs = {} THEN Vocab
           ELSE CHOOSE n \in differs : \A m \in differs : n <= m

(* The cutoff is found by chunk first and inside its chunk after.          *)
TopPCutoff(sorted, active, p) ==
  LET chunk == (active + Threads - 1) \div Threads
      min(a, b) == IF a < b THEN a ELSE b
      mass == [i \in 0 .. active - 1 |-> Mass(F32(sorted[i] - sorted[0]))]
      inChunk(c) == (c * chunk) .. min((c + 1) * chunk, active) - 1
      sums == [c \in 0 .. Threads - 1 |-> SumOver(inChunk(c), mass)]
      total == SumOver(0 .. Threads - 1, sums)
      before(c) == SumOver(0 .. c - 1, sums)
      reaching == {c \in 0 .. Threads - 1 : (before(c) + sums[c]) * PUnit >= p * total}
      c0 == CHOOSE c \in reaching : \A d \in reaching : c <= d
      upTo(i) == before(c0) + SumOver(c0 * chunk .. i, mass)
      cut == {i \in inChunk(c0) : upTo(i) * PUnit >= p * total}
  IN  IF reaching = {} \/ cut = {} THEN active
      ELSE 1 + CHOOSE i \in cut : \A j \in cut : i <= j

LimitRow ==
  LET active == TopKLimit(ws.keysOut, PreparedTopK(P))
  IN  /\ pc = "limit"
      /\ ws' = [ws EXCEPT !.limits =
           <<active, IF P.topP < PUnit THEN TopPCutoff(ws.keysOut, active, P.topP)
                                       ELSE active>>]
      /\ pc' = "select"
      /\ UNCHANGED <<cuda, rng, call, row, prep, origin, selected, drawn, calls>>

SelectRow ==
  /\ pc = "select"
  /\ RowDone(Categorical(LAMBDA i : ws.keysOut[i], LAMBDA i : ws.idsOut[i], ws.limits[2]))
  /\ UNCHANGED ws

LastRow ==
  /\ pc = "row" /\ row > Len(call)
  /\ pc' = "finish"
  /\ UNCHANGED <<cuda, rng, ws, call, row, prep, origin, selected, drawn, calls>>

(* The stream is synchronised; only now the generator moves on.            *)
Finish ==
  /\ pc = "finish"
  /\ rng' = rng + Len(call)
  /\ drawn' = drawn + Len(call)
  /\ pc' = "returned"
  /\ UNCHANGED <<cuda, ws, call, row, prep, origin, selected, calls>>

(* The upcast, a stage or the synchronisation reports an error, which may  *)
(* be that of an earlier kernel: the buffers may hold anything.            *)
Garbage == [ws EXCEPT !.keysIn = [t \in Token |-> Inf],
                      !.keysOut = [t \in Token |-> -Inf],
                      !.limits = <<0, Vocab>>, !.wide = TRUE,
                      !.tokens = [i \in DOMAIN @ |-> 0],
                      !.counts = [i \in DOMAIN @ |-> 1]]

StageFails ==
  /\ pc \in {"prepare", "launch", "row", "greedy", "categorical", "scale", "sort",
             "limit", "select", "finish"}
  /\ ws' \in IF pc = "prepare" THEN {ws} ELSE {ws, Garbage}
  /\ pc' = "failed"
  /\ UNCHANGED <<cuda, rng, call, row, prep, origin, selected, drawn, calls>>

(* The caller reads the tokens, or the error; nothing of the call is kept. *)
Return ==
  /\ pc \in {"returned", "failed"}
  /\ pc' = "idle"
  /\ call' = <<>> /\ row' = 1 /\ prep' = NoPrep
  /\ origin' = <<>> /\ selected' = <<>>
  /\ UNCHANGED <<cuda, rng, ws, drawn, calls>>

Next ==
  \/ \E batch \in SampledBatches : SamplerForward(batch)
  \/ ForwardHostRow
  \/ ForwardHostReturns
  \/ ForwardHostFails
  \/ PrepareRows
  \/ EnsureWorkspace
  \/ Launch
  \/ StartRow
  \/ GreedyRow
  \/ CategoricalRow
  \/ ScaleRow
  \/ SortRow
  \/ LimitRow
  \/ SelectRow
  \/ LastRow
  \/ Finish
  \/ StageFails
  \/ Return

Spec == Init /\ [][Next]_vars

-----------------------------------------------------------------------------
(* What a row is documented to select, in exact arithmetic.                *)

ExactScore(r, t) ==
  LET n == IF HasPenalties(r.params) THEN Count(r.history, t) ELSE 0
  IN  IF n = 0 THEN r.logits[t]
      ELSE (IF r.params.rep = 0 THEN r.logits[t] ELSE Over(r.logits[t], r.params.rep))
           - r.params.pres - r.params.freq * n

Precedes(s, t, u) == s[t] > s[u] \/ (s[t] = s[u] /\ t < u)

(* At most k - 1 tokens are strictly better: ties at the threshold stay.   *)
TopKSet(s, p) ==
  IF p.topK < 1 THEN Token
  ELSE {t \in Token : Cardinality({u \in Token : s[u] > s[t]}) < p.topK}

(* The smallest prefix of the kept tokens with the asked probability.      *)
Nucleus(s, kept, p) ==
  LET top == CHOOSE t \in kept : \A u \in kept : s[u] <= s[t]
      mass == [t \in Token |-> Mass(s[t] - s[top])]
      ahead(t) == {u \in kept : Precedes(s, u, t)}
  IN  IF p.topP = PUnit THEN kept
      ELSE {t \in kept : SumOver(ahead(t), mass) * PUnit < p.topP * SumOver(kept, mass)}

Documented(r, noise) ==
  LET p == r.params
      exact == [t \in Token |-> ExactScore(r, t)]
      s == [t \in Token |-> IF p.temp = Inf THEN 0 ELSE Over(exact[t], p.temp)]
      allowed == Nucleus(s, TopKSet(s, p), p)
      drawnScore == [t \in Token |-> s[t] + noise[t]]
  IN  IF IsGreedy(p)
        THEN CHOOSE t \in Token : \A u \in Token : t = u \/ Precedes(exact, t, u)
        ELSE CHOOSE t \in allowed : \A u \in allowed :
               t = u \/ Precedes(drawnScore, t, u)

-----------------------------------------------------------------------------
(* Properties                                                              *)

(* Both adapters return, for every row, the token the documented pipeline  *)
(* gives for that row alone: penalties once per token, top-k with its      *)
(* ties, the smallest nucleus, the lowest index of equal scores.  No       *)
(* batch-mate, earlier call, failed call, overflow or subnormal divisor    *)
(* shows (Sampler::forward, vllm_oxide_sample_f32).                        *)
SelectsAsDocumented ==
  pc = "returned" =>
    \A i \in DOMAIN call : selected[i] = Documented(call[i], RowNoise(origin[i]))

(* A failed device call, however far it came, leaves the generator where   *)
(* it was: the rows of the call under way draw the seeds that follow those *)
(* of the calls that returned (forward_cuda).                              *)
FailureKeepsSeeds ==
  cuda /\ pc # "returned" => \A i \in DOMAIN origin : origin[i] = drawn + i - 1

(* Whatever allocation of the workspace failed before, a launched batch    *)
(* fits both history buffers, which are as long as the workspace records   *)
(* (ensure_workspace, ensure_history_capacity).                            *)
HistoryFits ==
  pc \in {"launch", "row"} =>
    /\ Len(ws.tokens) = ws.capacity /\ Len(ws.counts) = ws.capacity
    /\ Len(prep.tokens) <= ws.capacity

(* Params that generate admitted are never refused by the kernel's own     *)
(* defensive check, which could not name the row (validate,                *)
(* prepare_batch, vllm_oxide_sample_f32).                                  *)
AdmittedParamsRun == pc # "refused"

(* Device calls are contained: they run for every admitted parameter, fit  *)
(* the workspace they reuse, and a failure among them loses no seed.       *)
DeviceCallsAreSafe == FailureKeepsSeeds /\ HistoryFits /\ AdmittedParamsRun

=============================================================================
