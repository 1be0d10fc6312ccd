----------------------------- MODULE Telemetry -----------------------------
(***************************************************************************)
(* The private timing artifact of a measured benchmark call.  The producer *)
(* (golden_capture/benchmark.rs, benchmark_telemetry.rs) runs inside       *)
(* LLM::generate: a session stages a file, records every engine step with  *)
(* two synchronized clock readings, and publishes without replacement.     *)
(* The consumer (benchmark.rs) recomputes every number from the raw steps  *)
(* with code of its own.  The engine is seen through what a step emits: a  *)
(* chunk of prefill, a decoded token, or the recomputation of a preempted  *)
(* request, whose prefill ends in a token that is not the first.           *)
(***************************************************************************)
EXTENDS DiagnosticCall

CONSTANTS
    PromptTokens,   \* tokens of each prompt
    Chunk,          \* prefill tokens of one request in one step, at most
    MaxPreempts,    \* preemptions in the call (bound)
    StepTimes       \* pauses before a step and durations of a step, in clock units

ASSUME TelemetryShape ==
    /\ {PromptTokens, Chunk} \subseteq Nat \ {0}
    /\ MaxPreempts \in Nat /\ StepTimes \subseteq Nat \X (Nat \ {0})

VARIABLES
    telPc,         \* where generate is
    clock,      \* nanoseconds since admission, in units
    work,       \* per request: prefill tokens left, tokens generated
    preempts,   \* preemptions so far
    benchmark,    \* BenchmarkSession: bound ids, sampled counts, samples
    binding,    \* fresh_request_ids and cold_prefix_state
    telStage,      \* the staging file exists
    telDest,       \* the destination: absent, a foreign file or an artifact
    verdict     \* the consumer's: "none", "accepted", "rejected"

telVars == <<telPc, clock, work, preempts, benchmark, binding, telStage, telDest, verdict>>

EmptySession == [ids |-> <<>>, sampled |-> <<>>, samples |-> <<>>]

Absent == [kind |-> "absent"]

Foreign == [kind |-> "foreign"]

TelInit ==
    /\ telPc = "start" /\ clock = 0 /\ preempts = 0
    /\ work = [i \in Inputs |-> [left |-> PromptTokens, out |-> 0]]
    /\ benchmark = EmptySession
    /\ binding = [fresh |-> FALSE, cold |-> FALSE]
    /\ telStage = FALSE /\ verdict = "none"
    /\ telDest \in {Absent, Foreign}

-----------------------------------------------------------------------------
(* The producer *)

\* An error drops the session: an unpublished staging file is removed.
Fail == telPc' = "failed" /\ telStage' = FALSE

\* BenchmarkSession::from_env: all three variables or none, a valid private
\* directory, a destination that does not exist; then the staging file.
PrepareTelemetry ==
    /\ telPc = "start"
    /\ \/ telDest = Absent /\ telStage' = TRUE /\ telPc' = "prepared"
       \/ Fail
    /\ UNCHANGED <<clock, work, preempts, benchmark, binding, telDest, verdict>>

\* The stable ids an engine gives to a call: 0.. only if it served none before.
FirstIds == {0, Requests}

\* record_inputs before admission, bind_requests after it.
BindRequests ==
    /\ telPc = "prepared"
    /\ \E first \in FirstIds, cold \in BOOLEAN :
         LET ids == [i \in Inputs |-> first + i - 1]
         IN /\ benchmark' = [ids |-> ids, sampled |-> [i \in Inputs |-> 0], samples |-> <<>>]
            /\ binding' = [fresh |-> ids = [i \in Inputs |-> i - 1], cold |-> cold]
    /\ telPc' = "running"
    /\ UNCHANGED <<clock, work, preempts, telStage, telDest, verdict>>

\* The engine may preempt between two steps: the request starts over and
\* recomputes its prompt and what it has generated.
Preempted(i) == work[i].left = 0 /\ work[i].out < Tokens

PreemptRequest ==
    /\ telPc = "running" /\ preempts < MaxPreempts
    /\ \E i \in Inputs :
         /\ Preempted(i)
         /\ work' = [work EXCEPT ![i].left = PromptTokens + work[i].out]
    /\ preempts' = preempts + 1
    /\ UNCHANGED <<telPc, clock, benchmark, binding, telStage, telDest, verdict>>

StillRunning == {i \in Inputs : work[i].out < Tokens}

Budget(i) == IF work[i].left = 0 THEN 1 ELSE Min({Chunk, work[i].left})

\* A planned request emits when it decodes or completes its prefill.
Emits(i) == work[i].left <= Chunk

StepPhase(planned) ==
    LET prefilling == {i \in planned : work[i].left > 0}
    IN IF prefilling = planned THEN "prefill" ELSE IF prefilling = {} THEN "decode" ELSE "mixed"

\* record_engine_step: the sampled stream must be contiguous; every emission
\* carries the time of the synchronized end of its step.
StepSample(planned, started, ended) ==
    LET emitting == SetToSortSeq({i \in planned : Emits(i)}, <)
    IN [phase    |-> StepPhase(planned),
        started  |-> started,
        ended    |-> ended,
        prefill  |-> MapThenSumSet(Budget, {i \in planned : work[i].left > 0}),
        emissions |-> [k \in DOMAIN emitting |->
                         [id |-> benchmark.ids[emitting[k]], step |-> work[emitting[k]].out, at |-> ended]]]

RecordStep ==
    /\ telPc = "running" /\ StillRunning # {}
    /\ \E planned \in (SUBSET StillRunning) \ {{}}, time \in StepTimes :
         LET started == clock + time[1]
             ended   == started + time[2]
         IN /\ clock' = ended
            /\ benchmark' = [benchmark EXCEPT
                 !.samples = Append(@, StepSample(planned, started, ended)),
                 !.sampled = [i \in Inputs |-> @[i] + IF i \in planned /\ Emits(i) THEN 1 ELSE 0]]
            /\ work' = [i \in Inputs |->
                 IF i \notin planned THEN work[i]
                 ELSE [left |-> IF Emits(i) THEN 0 ELSE work[i].left - Budget(i),
                       out  |-> work[i].out + IF Emits(i) THEN 1 ELSE 0]]
    /\ UNCHANGED <<telPc, preempts, binding, telStage, telDest, verdict>>

\* Host memory floor, synchronization, the step itself or its recording fail:
\* the requests are aborted and the call returns the error.
TimedStepFails ==
    /\ telPc = "running" /\ StillRunning # {}
    /\ Fail
    /\ UNCHANGED <<clock, work, preempts, benchmark, binding, telDest, verdict>>

-----------------------------------------------------------------------------
\* One step of the loop of BenchmarkTelemetry::from_samples.
Zero == [ok |-> TRUE, end |-> 0, prefill |-> 0, prefillTime |-> 0, decode |-> 0, decodeTime |-> 0,
         next |-> << >>, last |-> << >>, first |-> << >>, itl |-> <<>>]

Keyed(ids, value) == [id \in ToSet(ids) |-> value]

MutCountEmission(acc, e) ==
    IF e.id \notin DOMAIN acc.next \/ e.step # acc.next[e.id] THEN [acc EXCEPT !.ok = FALSE]
    ELSE [acc EXCEPT !.next[e.id] = @ + 1,
                     !.last[e.id] = IF e.step = 0 THEN e.at ELSE @,
                     !.first[e.id] = IF e.step = 0 THEN e.at ELSE @,
                     !.decode = @ + 1,
                     !.itl = IF e.step = 0 THEN @ ELSE Append(@, <<e.id, e.at - acc.last[e.id]>>)]

CountEmission(acc, e) ==
    IF e.id \notin DOMAIN acc.next \/ e.step # acc.next[e.id] THEN [acc EXCEPT !.ok = FALSE]
    ELSE [acc EXCEPT !.next[e.id] = @ + 1,
                     !.last[e.id] = e.at,
                     !.first[e.id] = IF e.step = 0 THEN e.at ELSE @,
                     !.decode = IF e.step = 0 THEN @ ELSE @ + 1,
                     !.itl = IF e.step = 0 THEN @ ELSE Append(@, <<e.id, e.at - acc.last[e.id]>>)]

Ids(step) == {step.emissions[k].id : k \in DOMAIN step.emissions}

SynchronizedStep(acc, step) ==
    /\ Cardinality(Ids(step)) = Len(step.emissions)
    /\ step.started >= acc.end /\ step.ended > step.started
    /\ \A k \in DOMAIN step.emissions : step.emissions[k].at = step.ended
    /\ step.prefill > 0 => step.phase # "decode"

\* A step counts as decode time when some request got a token after its first.
DecodeStep(step) == \E k \in DOMAIN step.emissions : step.emissions[k].step > 0

CountStep(acc, step) ==
    LET spent == step.ended - step.started
    IN FoldLeft(CountEmission,
         [acc EXCEPT !.ok = @ /\ SynchronizedStep(acc, step),
                     !.end = step.ended,
                     !.prefill = @ + step.prefill,
                     !.prefillTime = @ + IF step.prefill > 0 THEN spent ELSE 0,
                     !.decodeTime = @ + IF DecodeStep(step) THEN spent ELSE 0],
         step.emissions)

\* Nothing has been sampled at time 0: a real first sample is later.
NoSample(ids) == Keyed(ids, 0)

\* from_samples: the totals, or an error (ok = FALSE).
FromSamples(ids, steps) ==
    LET start == [Zero EXCEPT !.next = NoSample(ids), !.last = NoSample(ids), !.first = NoSample(ids)]
        acc   == FoldLeft(CountStep, start, steps)
    IN [acc EXCEPT !.ok = /\ @ /\ ids # <<>> /\ steps # <<>> /\ IsInjective(ids)
                          /\ 0 \notin {acc.prefill, acc.prefillTime, acc.decode, acc.decodeTime}
                          /\ \A id \in ToSet(ids) : acc.first[id] # 0]

\* The public outputs must be the sampled tokens.
OutputsMatch == \A i \in Inputs : benchmark.sampled[i] = work[i].out

\* renameat_with NOREPLACE succeeds only where no file is.
CanRename == telDest = Absent

\* finish: derive, serialize, read back, rename without replacement.
FinishTelemetry ==
    /\ telPc = "running" /\ StillRunning = {}
    /\ LET telemetry == FromSamples(benchmark.ids, benchmark.samples)
       IN \/ /\ CanRename /\ telemetry.ok /\ OutputsMatch
             /\ telDest' = [kind |-> "artifact", ids |-> benchmark.ids, binding |-> binding, sampled |-> benchmark.sampled,
                         steps |-> benchmark.samples, telemetry |-> telemetry]
             /\ telStage' = FALSE /\ telPc' = "published"
          \/ Fail /\ UNCHANGED telDest
    /\ UNCHANGED <<clock, work, preempts, benchmark, binding, verdict>>

\* Another process of the same user occupies the name after the fresh check.
Intrude ==
    /\ telPc \in {"prepared", "running"} /\ telDest = Absent
    /\ telDest' = Foreign
    /\ UNCHANGED <<telPc, clock, work, preempts, benchmark, binding, telStage, verdict>>

-----------------------------------------------------------------------------
(* The consumer *)

\* Times at which request id was sampled, and all emissions of the artifact.
Emissions(steps) == FlattenSeq([k \in DOMAIN steps |-> steps[k].emissions])

SamplesOf(steps, id) == SelectSeq(Emissions(steps), LAMBDA e : e.id = id)

TotalOver(steps, Counts(_), Value(_)) ==
    FoldLeft(LAMBDA sum, step : sum + IF Counts(step) THEN Value(step) ELSE 0, 0, steps)

Spent(step) == step.ended - step.started

\* validate_private_telemetry recomputes the latencies from the raw samples.
Latencies(steps) ==
    LET all   == Emissions(steps)
        Before(k) == {j \in 1..(k - 1) : all[j].id = all[k].id}
        later == SelectSeq([k \in DOMAIN all |-> k], LAMBDA k : all[k].step > 0)
    IN [n \in DOMAIN later |-> <<all[later[n]].id, all[later[n]].at - all[Max(Before(later[n]))].at>>]

RawStepsValid(artifact) ==
    /\ \A k \in DOMAIN artifact.steps :
         LET step == artifact.steps[k]
         IN /\ step.started >= IF k = 1 THEN 0 ELSE artifact.steps[k - 1].ended
            /\ step.ended > step.started
            /\ Cardinality(Ids(step)) = Len(step.emissions) /\ Ids(step) \subseteq ToSet(artifact.ids)
            /\ step.phase = "decode" => step.prefill = 0
            /\ \A n \in DOMAIN step.emissions : step.emissions[n].at = step.ended
    /\ \A id \in ToSet(artifact.ids) :
         LET mine == SamplesOf(artifact.steps, id)
         IN Len(mine) = Tokens /\ \A n \in 1..Tokens : mine[n].step = n - 1

Recomputes(artifact) ==
    LET t == artifact.telemetry
        HasPrefill(step) == step.prefill > 0
        HasDecode(step) == \E n \in DOMAIN step.emissions : step.emissions[n].step > 0
    IN /\ t.prefill = TotalOver(artifact.steps, HasPrefill, LAMBDA step : step.prefill)
       /\ t.prefillTime = TotalOver(artifact.steps, HasPrefill, Spent)
       /\ t.decode = Len(Latencies(artifact.steps))
       /\ t.decodeTime = TotalOver(artifact.steps, HasDecode, Spent)
       /\ 0 \notin {t.prefill, t.prefillTime, t.decode, t.decodeTime}
       /\ t.itl = Latencies(artifact.steps)
       /\ \A id \in ToSet(artifact.ids) : t.first[id] = SamplesOf(artifact.steps, id)[1].at

Accepts(artifact) ==
    /\ Len(artifact.ids) = Requests /\ IsInjective(artifact.ids)
    /\ artifact.binding.fresh /\ artifact.binding.cold
    /\ \A i \in Inputs : artifact.sampled[i] = Tokens
    /\ RawStepsValid(artifact)
    /\ Recomputes(artifact)

Validate ==
    /\ telPc = "published" /\ verdict = "none"
    /\ verdict' = IF Accepts(telDest) THEN "accepted" ELSE "rejected"
    /\ UNCHANGED <<telPc, clock, work, preempts, benchmark, binding, telStage, telDest>>

\* linear_percentile of the sorted samples, times 100 (q is in percent).
Percentile(sorted, q) ==
    LET index == q * (Len(sorted) - 1)
        lower == (index \div 100) + 1
        upper == IF index % 100 = 0 THEN lower ELSE lower + 1
    IN 100 * sorted[lower] + (sorted[upper] - sorted[lower]) * (index % 100)

\* median_f64, times 2.
Median(sorted) ==
    LET middle == Len(sorted) \div 2
    IN IF Len(sorted) % 2 = 0 THEN sorted[middle] + sorted[middle + 1] ELSE 2 * sorted[middle + 1]

\* The latencies of one repetition, sorted as summarize_durations does.
Sorted(itl) == SortSeq([k \in DOMAIN itl |-> itl[k][2]], <)

TelNext == PrepareTelemetry \/ BindRequests \/ PreemptRequest \/ RecordStep \/ TimedStepFails \/ FinishTelemetry \/ Intrude \/ Validate

-----------------------------------------------------------------------------
(* Properties *)

\* Producer and consumer agree: what finish publishes is accepted exactly when
\* the engine was fresh and its prefix cache cold, whatever the chunking, the
\* batching and the preemptions were.
ConsumerAgrees == verdict # "none" => (verdict = "accepted" <=> binding.fresh /\ binding.cold)

\* No time is lost or counted twice between the tokens of a request: its time
\* to first token plus its latencies reach its last token, and every token
\* after a first one is a decode token.
LatencyAddsUp ==
    telPc = "published" =>
      LET t == telDest.telemetry
      IN /\ t.decode = Requests * (Tokens - 1)
         /\ \A i \in Inputs :
              LET id   == benchmark.ids[i]
                  mine == SelectSeq(t.itl, LAMBDA pair : pair[1] = id)
                  end  == Max({k \in DOMAIN telDest.steps : id \in Ids(telDest.steps[k])})
              IN t.first[id] + FoldLeft(LAMBDA sum, pair : sum + pair[2], 0, mine) = telDest.steps[end].ended

\* A call that failed published nothing and left no staging file.
FailureLeavesNothing == telPc = "failed" => ~telStage /\ telDest \in {Absent, Foreign}

\* The two median definitions of the report agree, and the percentiles are
\* ordered and stay inside the samples.
SummaryIsSound ==
    verdict = "accepted" =>
      LET s == Sorted(telDest.telemetry.itl)
      IN /\ Percentile(s, 50) = 50 * Median(s)
         /\ 100 * s[1] <= Percentile(s, 50)
         /\ Percentile(s, 50) <= Percentile(s, 95) /\ Percentile(s, 95) <= 100 * s[Len(s)]

=============================================================================
