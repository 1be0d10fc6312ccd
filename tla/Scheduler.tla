----------------------------- MODULE Scheduler -----------------------------
(***************************************************************************)
(* The continuous-batching scheduler                                       *)
(* (crates/vllm-oxide/src/engine/scheduler.rs) over the block pool, which  *)
(* it reaches through KvCacheManager's forwarding methods.                 *)
(*                                                                         *)
(* plan_step and apply_step_result are loops over queues.  Each iteration  *)
(* of a loop is one action, and pc forces the order: nothing interleaves   *)
(* between the start of plan_step (pc = "preempt") and the captured plan   *)
(* (pc = "execute"), nor while a result is applied (pc = "apply").  At     *)
(* pc = "idle" a caller may add requests; the forward pass runs at         *)
(* pc = "execute" and may fail, upon which every request is aborted.       *)
(*                                                                         *)
(* Sequence::status is Waiting exactly in the queue waiting and            *)
(* Running exactly in the queue running.  Sequence::is_prefill is written  *)
(* with every move but never decides what is planned (it is read only when *)
(* nothing is scheduled), so neither has a variable.                       *)
(***************************************************************************)
EXTENDS BlockPool

CONSTANTS
  MaxNumBatchedTokens,    \* max_num_batched_tokens, the token budget of a step
  MaxNumSeqs,             \* max_num_seqs
  EosTokens,              \* eos_token_ids
  MaxTokens               \* the values of SamplingParams::max_tokens in use

(* What EngineOptions::validate and SamplingParams::validate accept.       *)
ValidOptions ==
  /\ MaxNumBatchedTokens \in Nat \ {0}
  /\ MaxNumSeqs \in Nat \ {0}
  /\ MaxModelLen >= 2
  /\ MaxTokens \subseteq Nat \ {0}

ASSUME EngineOptions ==
  /\ ValidOptions
  /\ EosTokens \subseteq Token
  /\ SeqId = 1 .. Cardinality(SeqId)

(* KvCachePlan::from_budget refuses a pool smaller than one full history.  *)
ASSUME PoolHoldsOneRequest == NumBlocks * BlockSize >= MaxModelLen

VARIABLES             \* further fields of each Sequence
  numPrompt,          \* num_prompt_tokens
  numScheduled,       \* num_scheduled_tokens
  recomputeTarget,    \* recompute_target_tokens, 0 for None
  maxTokens,          \* sampling_params.max_tokens
  ignoreEos           \* sampling_params.ignore_eos

VARIABLES             \* fields of Scheduler
  waiting,            \* FIFO queue of sequence ids
  running,            \* sequence ids in order of admission
  nextId,             \* next_seq_id and next_request_id, always equal
  inFlight            \* in_flight: the plan, <<>> for None

VARIABLES             \* locals of the calls in progress
  pc,                 \* where the call is
  runningBefore,      \* running_before_admission
  blockedBefore,      \* blocked_before_selection
  blocked,            \* StepPlan::blocked_admission
  path,               \* attention path of the plan
  result,             \* StepResult: sampled token of each planned sequence
  applied,            \* planned sequences already updated
  finished,           \* finished_sequence_ids
  recovered,          \* recovered_sequence_ids
  outputs             \* RequestOutputs returned so far, in order

seqVars == <<numPrompt, numScheduled, recomputeTarget, maxTokens, ignoreEos>>
callVars == <<runningBefore, blockedBefore, blocked, path, result, applied,
              finished, recovered, outputs>>
schedVars == <<poolVars, seqVars, waiting, running, nextId, inFlight, pc, callVars>>
-----------------------------------------------------------------------------
NoBlock == [request |-> 0, reason |-> "none"]

(* Mutant of PrefillTarget: forgets the tokens a victim has generated.     *)
MutPrefillTarget(s) == numPrompt[s]

(* Sequence::prefill_target_tokens.                                        *)
PrefillTarget(s) == IF recomputeTarget[s] # 0 THEN recomputeTarget[s] ELSE numPrompt[s]

Phase(s) == IF numCached[s] < PrefillTarget(s) THEN "prefill" ELSE "decode"

(* running_token_count with an unbounded budget.                           *)
Wanted(s) == IF Phase(s) = "prefill" THEN PrefillTarget(s) - numCached[s] ELSE 1

(* Mutant of ScheduledTokens: counts sequences.                            *)
MutScheduledTokens == Cardinality({i \in DOMAIN running : numScheduled[running[i]] > 0})

(* What the i-th running sequence gets of a budget spent in queue order.   *)
Share(i, budget) ==
  LET before == SumTo([j \in DOMAIN running |-> Wanted(running[j])], i - 1)
  IN  Min({Wanted(running[i]), Max({0, budget - before})})

ScheduledTokens == Total([i \in DOMAIN running |-> numScheduled[running[i]]])

AdmissionBlock(scheduled) ==
  IF waiting = <<>> THEN NoBlock
  ELSE LET s == Head(waiting)
           Because(reason) == [request |-> s, reason |-> reason]
       IN  IF scheduled >= MaxNumBatchedTokens THEN Because("token_budget")
           ELSE IF Len(running) >= MaxNumSeqs THEN Because("sequence_limit")
           ELSE IF CanAllocate(s) = NoRoom THEN Because("kv_cache")
           ELSE NoBlock

(* Mutants of RunningBudget: keeps nothing for the head, or everything.    *)
MutRunningBudget == MaxNumBatchedTokens

MutAdmissionsFirst ==
  IF waiting # <<>> /\ AdmissionBlock(0) = NoBlock THEN 0 ELSE MaxNumBatchedTokens

(* One token is kept for the waiting head if it can be admitted.           *)
RunningBudget ==
  IF waiting # <<>> /\ AdmissionBlock(0) = NoBlock
  THEN MaxNumBatchedTokens - 1 ELSE MaxNumBatchedTokens

(* Mutant of DecodeBatch: always expects the reservation.                  *)
MutDecodeBatch ==
  LET I == {i \in DOMAIN running :
              Phase(running[i]) = "decode" /\ Share(i, MaxNumBatchedTokens - 1) > 0}
  IN  Retain(running, {running[i] : i \in I})

(* The decoders the next decision would schedule.                          *)
DecodeBatch ==
  LET I == {i \in DOMAIN running :
              Phase(running[i]) = "decode" /\ Share(i, RunningBudget) > 0}
  IN  Retain(running, {running[i] : i \in I})

(* Mutant of Requeue: push_back.                                           *)
MutRequeue(s) == Append(waiting, s)

(* push_front: a victim or a withdrawn admission waits before the others.  *)
Requeue(s) == <<s>> \o waiting

Front(q) == SubSeq(q, 1, Len(q) - 1)
Last(q) == q[Len(q)]

IsRunning == waiting # <<>> \/ running # <<>>
-----------------------------------------------------------------------------
SchedInit ==
  /\ PoolInit
  /\ numPrompt = [s \in SeqId |-> 0]
  /\ numScheduled = [s \in SeqId |-> 0]
  /\ recomputeTarget = [s \in SeqId |-> 0]
  /\ maxTokens = [s \in SeqId |-> 0]
  /\ ignoreEos = [s \in SeqId |-> FALSE]
  /\ waiting = <<>>
  /\ running = <<>>
  /\ nextId = 1
  /\ inFlight = <<>>
  /\ pc = "idle"
  /\ runningBefore = 0
  /\ blockedBefore = NoBlock
  /\ blocked = NoBlock
  /\ path = "none"
  /\ result = <<>>
  /\ applied = 0
  /\ finished = {}
  /\ recovered = {}
  /\ outputs = <<>>

(* add_request; LLM::generate lets only requests in that fit max_model_len. *)
AddRequest(prompt, max, ignore) ==
  /\ pc = "idle"
  /\ nextId \in SeqId
  /\ Len(prompt) + max <= MaxModelLen
  /\ NewSequence(nextId, prompt)
  /\ numPrompt' = [numPrompt EXCEPT ![nextId] = Len(prompt)]
  /\ maxTokens' = [maxTokens EXCEPT ![nextId] = max]
  /\ ignoreEos' = [ignoreEos EXCEPT ![nextId] = ignore]
  /\ waiting' = Append(waiting, nextId)
  /\ nextId' = nextId + 1
  /\ UNCHANGED <<numScheduled, recomputeTarget, running, inFlight, pc, callVars>>

BeginStep ==
  /\ pc = "idle"
  /\ IsRunning
  /\ pc' = "preempt"
  /\ UNCHANGED <<poolVars, seqVars, waiting, running, nextId, inFlight, callVars>>

(* preempt_if_needed, one victim.                                          *)
Preempt ==
  /\ pc = "preempt"
  /\ ~CanAppendBatch(DecodeBatch)
  /\ LET victim == Last(running)
     IN  /\ DeallocateBatch(<<victim>>)
         /\ running' = Front(running)
         /\ waiting' = Requeue(victim)
         /\ numScheduled' = [numScheduled EXCEPT ![victim] = 0]
         /\ recomputeTarget' = [recomputeTarget EXCEPT
                                  ![victim] = Max({@, Len(tokens[victim])})]
  /\ UNCHANGED <<numPrompt, maxTokens, ignoreEos, nextId, inFlight, pc, callVars>>

(* select_work up to schedule_running.                                     *)
ScheduleRunning ==
  /\ pc = "preempt"
  /\ CanAppendBatch(DecodeBatch)
  /\ blockedBefore' = AdmissionBlock(0)
  /\ runningBefore' = Len(running)
  /\ numScheduled' = [s \in SeqId |->
                        IF s \in Range(running)
                        THEN Share(PositionIn(running, s), RunningBudget)
                        ELSE numScheduled[s]]
  /\ pc' = "admit"
  /\ UNCHANGED <<poolVars, numPrompt, recomputeTarget, maxTokens, ignoreEos, waiting,
                 running, nextId, inFlight, blocked, path, result, applied, finished,
                 recovered, outputs>>

(* schedule_prefill_with_budget: the next waiting sequence, if there is    *)
(* room for it.  The queues are only rewritten after the loop in the code; *)
(* taking the head at once is the same, for waiting sequences always have  *)
(* tokens left to compute and so are taken in order.                       *)
CanAdmit ==
  /\ waiting # <<>>
  /\ Len(running) < MaxNumSeqs
  /\ ScheduledTokens < MaxNumBatchedTokens
  /\ CanAllocate(Head(waiting)) # NoRoom

AdmitHead ==
  /\ pc = "admit"
  /\ CanAdmit
  /\ LET s == Head(waiting)
         remaining == PrefillTarget(s) - CanAllocate(s) * BlockSize
     IN  /\ Admit(s)
         /\ numScheduled' = [numScheduled EXCEPT
              ![s] = Min({remaining, MaxNumBatchedTokens - ScheduledTokens})]
         /\ running' = Append(running, s)
         /\ waiting' = Tail(waiting)
  /\ UNCHANGED <<numPrompt, recomputeTarget, maxTokens, ignoreEos, nextId, inFlight,
                 pc, callVars>>

AdmissionEnds ==
  /\ pc = "admit"
  /\ ~CanAdmit
  /\ pc' = "reserve"
  /\ UNCHANGED <<poolVars, seqVars, waiting, running, nextId, inFlight, callVars>>

(* The decoders of the selected work; reserve_decode_cache gives each the  *)
(* block its next token needs, or takes back the last admission.           *)
SelectedDecoders ==
  Retain(running, {s \in SeqId : numScheduled[s] > 0 /\ Phase(s) = "decode"})

ReserveDecodeCache ==
  /\ pc = "reserve"
  /\ ~AppendErrs(SelectedDecoders)
  /\ MayAppendBatch(SelectedDecoders)
  /\ pc' = "capture"
  /\ UNCHANGED <<seqVars, waiting, running, nextId, inFlight, callVars>>

RollbackLastAdmission ==
  /\ pc = "reserve"
  /\ AppendErrs(SelectedDecoders)
  /\ Len(running) > runningBefore
  /\ LET s == Last(running)
     IN  /\ DeallocateBatch(<<s>>)
         /\ running' = Front(running)
         /\ waiting' = Requeue(s)
         /\ numScheduled' = [numScheduled EXCEPT ![s] = 0]
  /\ UNCHANGED <<numPrompt, recomputeTarget, maxTokens, ignoreEos, nextId, inFlight,
                 pc, callVars>>

(* Mutant of PlanFor: every prefill chunk samples.                         *)
MutPlanFor(s) ==
  LET last == Min({numCached[s] + numScheduled[s], Len(tokens[s])})
  IN  [id |-> s, phase |-> Phase(s), first |-> numCached[s] + 1, last |-> last,
       cached |-> numCached[s], sampling |-> TRUE]

(* The entry of the plan for a scheduled sequence: token_range is          *)
(* first .. last (from 1), cached its cached_token_range.                  *)
PlanFor(s) ==
  IF Phase(s) = "prefill"
  THEN LET last == Min({numCached[s] + numScheduled[s], PrefillTarget(s)})
       IN  [id |-> s, phase |-> "prefill", first |-> numCached[s] + 1, last |-> last,
            cached |-> numCached[s], sampling |-> last = PrefillTarget(s)]
  ELSE [id |-> s, phase |-> "decode", first |-> Len(tokens[s]), last |-> Len(tokens[s]),
        cached |-> numCached[s], sampling |-> TRUE]

TokenBudget(p) == p.last - p.first + 1

Scheduled == Retain(running, {s \in SeqId : numScheduled[s] > 0})

(* Mutant of AttentionPath: looks at the phases only.                      *)
MutAttentionPath(plan) ==
  LET phases == {plan[i].phase : i \in DOMAIN plan}
  IN  IF phases = {"decode"} THEN "decode"
      ELSE IF phases = {"prefill"} THEN "prefill" ELSE "paged_prefill"

(* selected_work and the choice of the attention metadata.                 *)
AttentionPath(plan) ==
  LET prefills == {i \in DOMAIN plan : plan[i].phase = "prefill"}
      continued == \E i \in prefills : PositionIn(running, plan[i].id) <= runningBefore
  IN  IF prefills = {} THEN "decode"
      ELSE IF prefills # DOMAIN plan \/ continued \/ \E i \in prefills : plan[i].cached > 0
           THEN "paged_prefill"
           ELSE "prefill"

CapturePlan ==
  /\ pc = "capture"
  /\ Scheduled # <<>>
  /\ LET plan == [k \in DOMAIN Scheduled |-> PlanFor(Scheduled[k])]
     IN  /\ inFlight' = plan
         /\ numScheduled' = [s \in SeqId |->
                               IF s \in Range(Scheduled)
                               THEN TokenBudget(PlanFor(s)) ELSE numScheduled[s]]
         /\ path' = AttentionPath(plan)
         /\ blocked' = IF blockedBefore # NoBlock THEN blockedBefore
                       ELSE AdmissionBlock(ScheduledTokens)
  /\ pc' = "execute"
  /\ UNCHANGED <<poolVars, numPrompt, recomputeTarget, maxTokens, ignoreEos, waiting,
                 running, nextId, runningBefore, blockedBefore, result, applied,
                 finished, recovered, outputs>>

(* The model has run: execute_plan samples a token for each sequence that  *)
(* has sampling_allowed, and for no other.                                 *)
Results(plan) ==
  {r \in [DOMAIN plan -> Sampled] :
     \A k \in DOMAIN plan : (r[k] # <<>>) = plan[k].sampling}

Execute(sampled) ==
  /\ pc = "execute"
  /\ result' = sampled
  /\ pc' = "apply"
  /\ UNCHANGED <<poolVars, seqVars, waiting, running, nextId, inFlight, runningBefore,
                 blockedBefore, blocked, path, applied, finished, recovered, outputs>>

(* Mutant of Stops: one token too many.                                    *)
MutStops(s, completed, t) ==
  completed > maxTokens[s] \/ (t \in EosTokens /\ ~ignoreEos[s])

(* hit_max_tokens or hit_eos.                                              *)
Stops(s, completed, t) ==
  completed >= maxTokens[s] \/ (t \in EosTokens /\ ~ignoreEos[s])

(* The locals of a step end with it.                                       *)
ReturnFromStep ==
  /\ pc' = "idle"
  /\ runningBefore' = 0
  /\ blockedBefore' = NoBlock
  /\ blocked' = NoBlock
  /\ path' = "none"
  /\ result' = <<>>
  /\ applied' = 0
  /\ finished' = {}
  /\ recovered' = {}

(* One sequence of the result.                                             *)
ApplyOne ==
  /\ pc = "apply"
  /\ applied < Len(inFlight)
  /\ LET k == applied + 1
         p == inFlight[k]
         s == p.id
         completed == Len(tokens[s]) + 1 - numPrompt[s]
         stops == p.sampling /\ Stops(s, completed, result[k][1])
     IN  /\ HashBlocks(s, numScheduled[s])
         /\ numCached' = [numCached EXCEPT
                            ![s] = Min({@ + TokenBudget(p), Len(tokens[s])})]
         /\ numScheduled' = [numScheduled EXCEPT ![s] = 0]
         /\ recovered' = recovered \cup
              {r \in {s} : /\ p.phase = "prefill" /\ p.sampling
                           /\ recomputeTarget[r] = numCached'[r]}
         /\ tokens' = [tokens EXCEPT ![s] = @ \o result[k]]
         /\ finished' = finished \cup {r \in {s} : stops}
         /\ outputs' = IF stops
                       THEN Append(outputs, [request |-> s,
                              completion |-> SubSeq(tokens'[s], numPrompt[s] + 1, Len(tokens'[s]))])
                       ELSE outputs
         /\ applied' = k
  /\ UNCHANGED <<free, used, refCount, table, numPrompt, recomputeTarget, maxTokens,
                 ignoreEos, waiting, running, nextId, inFlight, pc, runningBefore,
                 blockedBefore, blocked, path, result>>

(* The rest of apply_step_result: finished sequences leave in one release. *)
ApplyEnds ==
  /\ pc = "apply"
  /\ applied = Len(inFlight)
  /\ IF finished # {} THEN DeallocateBatch(Retain(running, finished))
                      ELSE UNCHANGED poolVars
  /\ running' = Retain(running, SeqId \ finished)
  /\ recomputeTarget' = [s \in SeqId |->
                           IF s \in recovered \ finished THEN 0 ELSE recomputeTarget[s]]
  /\ inFlight' = <<>>
  /\ ReturnFromStep
  /\ UNCHANGED <<numPrompt, numScheduled, maxTokens, ignoreEos, waiting, nextId, outputs>>

(* abort_all_requests, after the engine failed to execute the plan.        *)
Allocated == Retain(running \o waiting, {s \in SeqId : table[s] # <<>>})

AbortAllRequests ==
  /\ pc = "execute"
  /\ IF Allocated # <<>> THEN DeallocateBatch(Allocated) ELSE UNCHANGED poolVars
  /\ running' = <<>>
  /\ waiting' = <<>>
  /\ inFlight' = <<>>
  /\ numScheduled' = [s \in SeqId |-> 0]      \* the sequences are dropped
  /\ ReturnFromStep
  /\ UNCHANGED <<numPrompt, recomputeTarget, maxTokens, ignoreEos, nextId, outputs>>

PlanStep ==
  \/ BeginStep \/ Preempt \/ ScheduleRunning \/ AdmitHead \/ AdmissionEnds
  \/ ReserveDecodeCache \/ RollbackLastAdmission \/ CapturePlan

ApplyStep == ApplyOne \/ ApplyEnds

ExecuteStep == \E r \in Results(inFlight) : Execute(r)

SchedNext ==
  \/ \E p \in Prompt, m \in MaxTokens, i \in BOOLEAN : AddRequest(p, m, i)
  \/ PlanStep
  \/ ExecuteStep
  \/ ApplyStep
  \/ AbortAllRequests

SchedSpec == SchedInit /\ [][SchedNext]_schedVars

-----------------------------------------------------------------------------
PlanEntry ==
  [id : SeqId, phase : {"prefill", "decode"}, first : Nat, last : Nat, cached : Nat,
   sampling : BOOLEAN]

BlockReport ==
  [request : SeqId \cup {0},
   reason : {"none", "token_budget", "sequence_limit", "kv_cache"}]

(* Every variable of the scheduler has the type of the field it models.    *)
SchedTypeOK ==
  /\ PoolTypeOK
  /\ numPrompt \in [SeqId -> Nat]
  /\ numScheduled \in [SeqId -> Nat]
  /\ recomputeTarget \in [SeqId -> Nat]
  /\ maxTokens \in [SeqId -> Nat]
  /\ ignoreEos \in [SeqId -> BOOLEAN]
  /\ waiting \in Seq(SeqId)
  /\ running \in Seq(SeqId)
  /\ nextId \in Nat \ {0}
  /\ inFlight \in Seq(PlanEntry)
  /\ pc \in {"idle", "preempt", "admit", "reserve", "capture", "execute", "apply"}
  /\ runningBefore \in Nat
  /\ {blockedBefore, blocked} \subseteq BlockReport
  /\ path \in {"none", "prefill", "paged_prefill", "decode"}
  /\ result \in Seq(Sampled)
  /\ applied \in Nat
  /\ finished \in SUBSET SeqId
  /\ recovered \in SUBSET SeqId
  /\ outputs \in Seq([request : SeqId, completion : Seq(Token)])

(* No arrival overtakes another, through admission, preemption and         *)
(* rollback alike: the two queues together are always in order of arrival  *)
(* ("FIFO arrivals never overtake one another", select_work).              *)
FifoOrder ==
  LET q == running \o waiting
  IN  \A i, j \in DOMAIN q : i < j => q[i] < q[j]

(* Only running sequences hold blocks, and each of them does: nothing is   *)
(* leaked by a finish, a preemption, a rollback or an abort.               *)
OnlyRunningOwn == \A s \in SeqId : table[s] # <<>> <=> s \in Range(running)

Planned == IF pc = "execute" THEN Range(inFlight) ELSE {}

(* A captured plan computes at least one token and never more than the     *)
(* budget, for at most max_num_seqs sequences.                             *)
PlanWithinLimits ==
  pc = "execute" =>
    /\ Total([k \in DOMAIN inFlight |-> TokenBudget(inFlight[k])])
         \in 1 .. MaxNumBatchedTokens
    /\ Len(running) <= MaxNumSeqs

(* A plan computes exactly the tokens after the cached ones, and a token   *)
(* is sampled if and only if that reaches the end of the history: however  *)
(* often a request was chunked, preempted and recomputed, no position is   *)
(* skipped and nothing is sampled from an incomplete history.              *)
PlansNextTokens ==
  \A p \in Planned :
    /\ p.first = numCached[p.id] + 1
    /\ p.last \in p.first .. Len(tokens[p.id])
    /\ p.sampling <=> p.last = Len(tokens[p.id])

SlotBlock(s, pos) == (pos - 1) \div BlockSize + 1

(* Every slot a plan writes lies in the block table (compute_slot_mapping  *)
(* never has to return its -1 sentinel), in a block no other sequence      *)
(* holds and no prefix lookup can hit: sharing needs no copy on write.     *)
WritesAreExclusive ==
  \A p \in Planned : \A pos \in p.first .. p.last :
    /\ SlotBlock(p.id, pos) \in DOMAIN table[p.id]
    /\ LET b == table[p.id][SlotBlock(p.id, pos)]
       IN  refCount[b] = 1 /\ identity[b] = <<>>

(* When a request is left waiting, the plan says which and why, and it is  *)
(* the head of the queue (blocked_admission).                              *)
WaitingIsExplained ==
  pc = "execute" =>
    IF waiting = <<>> THEN blocked = NoBlock ELSE blocked.request = Head(waiting)

(* No starvation of the waiting head: a decision that leaves the head      *)
(* waiting although tokens, sequences and blocks would do for it has       *)
(* admitted an earlier arrival.  Hence a waiter at position p is selected  *)
(* within p + 1 such decisions, as select_work's comment claims, however   *)
(* many decoders compete for the token budget.                             *)
WaiterAdvances ==
  pc = "execute" /\ waiting # <<>> /\ AdmissionBlock(0) = NoBlock
    => Len(running) > runningBefore

(* The errors plan_step can return are never reached for validated         *)
(* requests: rollbacks always make room for the decoders, an admitted      *)
(* sequence always has work, and a step always makes progress              *)
(* (AppendAllocation, EmptyAllocationRollback, NoProgress).                *)
StepErrorsUnreachable ==
  /\ pc = "reserve" /\ AppendErrs(SelectedDecoders) => Len(running) > runningBefore
  /\ pc = "admit" /\ CanAdmit =>
       LET s == Head(waiting)
       IN  ~AllocateErrs(s, CanAllocate(s)) /\ CanAllocate(s) * BlockSize < PrefillTarget(s)
  /\ pc = "capture" => Scheduled # <<>>

(* What a request has asked for and got, for the abstract specification.   *)
RequestStage ==
  [s \in SeqId |->
     IF s >= nextId THEN "absent"
     ELSE IF \E i \in DOMAIN outputs : outputs[i].request = s THEN "done"
     ELSE IF s \in Range(running \o waiting) THEN "active" ELSE "aborted"]

Asked ==
  [s \in SeqId |-> [prompt |-> SubSeq(tokens[s], 1, numPrompt[s]),
                    max |-> maxTokens[s], ignoreEos |-> ignoreEos[s]]]

Completion == [s \in SeqId |-> SubSeq(tokens[s], numPrompt[s] + 1, Len(tokens[s]))]

Gen == INSTANCE Generation
         WITH stage <- RequestStage, request <- Asked, completion <- Completion

(* The scheduler uses the pool as PoolNext allows: it admits only what     *)
(* can_allocate accepts, commits only tokens it holds blocks for, releases *)
(* each sequence once.  What is proved of PoolSpec therefore holds here:   *)
(* the formula is PoolSpec, with its stuttering steps told apart first.    *)
ImplementsPool == PoolInit /\ [][UNCHANGED poolVars \/ PoolNext]_poolVars

(* The scheduler implements Generation: batching, chunked prefill,         *)
(* preemption with recomputation and prefix sharing neither lose, repeat   *)
(* nor reorder a token, and requests stop exactly when they should.        *)
ImplementsGeneration == Gen!GenSpec

(* The state the queues keep: typed, in order of arrival, and only running *)
(* sequences hold blocks, through admission, chunks, preemption, rollback, *)
(* finish and abort.                                                       *)
QueuesConsistent == SchedTypeOK /\ FifoOrder /\ OnlyRunningOwn

(* A plan stays within every limit and computes exactly what is missing,   *)
(* however often its requests were chunked, preempted and recomputed.      *)
PlanIsExact == PlanWithinLimits /\ PlansNextTokens

(* A request left waiting is named with its reason, and the head of the    *)
(* queue is never passed over while it would fit.                          *)
WaitersAreServed == WaitingIsExplained /\ WaiterAdvances

=============================================================================
