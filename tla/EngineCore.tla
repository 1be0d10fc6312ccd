----------------------------- MODULE EngineCore -----------------------------
(***************************************************************************)
(* EngineCore::step (crates/vllm-oxide/src/engine/mod.rs) inside the loop  *)
(* of LLM::generate (crates/vllm-oxide/src/llm.rs): calls that submit      *)
(* requests and run steps until none is left, the paged KV cache the model *)
(* writes and reads, the attention metadata around the forward pass, and   *)
(* the failures of preparation and execution with their cleanup.           *)
(*                                                                         *)
(* A KV entry is modelled by the tokens it was computed from: the entry of *)
(* a position holds the history up to that position as the attention       *)
(* kernel saw it, and <<>> is memory nobody has computed.                  *)
(***************************************************************************)
EXTENDS Scheduler, AttentionContext

CONSTANT MaxCallSize      \* most prompts in one generate call

ASSUME CallSize == MaxCallSize \in Nat \ {0}

VARIABLES
  kv,                 \* PagedKVCache: kv[block][offset]
  planId,             \* next_plan_id modulo 2: tells a plan from the one before
  stage,              \* where step_internal is while pc = "execute"
  computed,           \* what execute_plan returned
  call,               \* "none", "submit", "loop", "returned" or "failed"
  toSubmit,           \* prompts of the call still to be added
  requestIds,         \* request_ids of the call
  callStart,          \* outputs of earlier calls
  projection          \* the batch size begin_generation bound, 0 for the default

engineVars == <<kv, attnVars, planId, stage, computed, call, toSubmit, requestIds, callStart, projection>>
vars == <<schedVars, engineVars>>

Offset == 0 .. BlockSize - 1
-----------------------------------------------------------------------------
(* The forward pass.                                                       *)

KvAt(s, pos) == kv[table[s][SlotBlock(s, pos)]][(pos - 1) % BlockSize]

(* What the kernel of the plan's path sees before the tokens of entry p:   *)
(* direct prefill attends to the step's own tokens only.                   *)
Context(p) == IF p.first = 1 \/ path = "prefill" THEN <<>> ELSE KvAt(p.id, p.first - 1)

Writes(p, b, o) ==
  {pos \in p.first .. p.last :
     table[p.id][SlotBlock(p.id, pos)] = b /\ (pos - 1) % BlockSize = o}

(* reshape_and_cache through the slot mapping of the plan.                 *)
KvAfterForward ==
  [b \in Block |-> [o \in Offset |->
     LET ks == {k \in DOMAIN inFlight : Writes(inFlight[k], b, o) # {}}
     IN  IF ks = {} THEN kv[b][o]
         ELSE LET p == inFlight[CHOOSE k \in ks : TRUE]
                  pos == CHOOSE q \in Writes(p, b, o) : TRUE
              IN  Context(p) \o SubSeq(tokens[p.id], p.first, pos)]]

(* A forward pass that fails may have overwritten the planned slots.       *)
KvAfterFailure ==
  [b \in Block |-> [o \in Offset |->
     IF \E k \in DOMAIN inFlight : Writes(inFlight[k], b, o) # {} THEN <<>> ELSE kv[b][o]]]
-----------------------------------------------------------------------------
EngineInit ==
  /\ SchedInit
  /\ AttnInit
  /\ kv = [b \in Block |-> [o \in Offset |-> <<>>]]
  /\ planId = 0
  /\ stage = "none"
  /\ computed = <<>>
  /\ call = "none"
  /\ toSubmit = 0
  /\ requestIds = <<>>
  /\ callStart = 0
  /\ projection = 0

(* generate, up to add_requests: refused while requests are left.          *)
BeginCall(n) ==
  /\ call \in {"none", "returned", "failed"}
  /\ ~IsRunning
  /\ nextId + n - 1 \in SeqId
  /\ call' = "submit"
  /\ toSubmit' = n
  /\ requestIds' = <<>>
  /\ callStart' = Len(outputs)
  /\ projection' = n
  /\ UNCHANGED <<schedVars, attnVars, kv, planId, stage, computed>>

Submit(prompt, max, ignore) ==
  /\ call = "submit"
  /\ AddRequest(prompt, max, ignore)
  /\ toSubmit' = toSubmit - 1
  /\ requestIds' = Append(requestIds, nextId)
  /\ call' = IF toSubmit = 1 THEN "loop" ELSE "submit"
  /\ UNCHANGED <<attnVars, kv, planId, stage, computed, callStart, projection>>

Plan ==
  /\ call = "loop"
  /\ PlanStep
  /\ stage' = IF pc' = "execute" THEN "planned" ELSE stage
  /\ UNCHANGED <<attnVars, kv, planId, computed, call, toSubmit, requestIds, callStart, projection>>

ReserveAttention ==
  /\ stage = "planned"
  /\ ReserveEpoch(planId)
  /\ stage' = "preparing"
  /\ UNCHANGED <<schedVars, kv, planId, computed, call, toSubmit, requestIds, callStart, projection>>

PublishAttention ==
  /\ stage = "preparing"
  /\ PublishEpoch(planId)
  /\ stage' = "prepared"
  /\ UNCHANGED <<schedVars, kv, planId, computed, call, toSubmit, requestIds, callStart, projection>>

Bind ==
  /\ stage = "prepared"
  /\ BindConsumer(planId)
  /\ stage' = "bound"
  /\ UNCHANGED <<schedVars, kv, planId, computed, call, toSubmit, requestIds, callStart, projection>>

(* execute_plan: forward, logits and sampling.                             *)
Forward(sampled) ==
  /\ stage = "bound"
  /\ MetadataReadable
  /\ kv' = KvAfterForward
  /\ computed' = sampled
  /\ stage' = "computed"
  /\ UNCHANGED <<schedVars, attnVars, planId, call, toSubmit, requestIds, callStart, projection>>

ForwardFails ==
  /\ stage = "bound"
  /\ kv' \in {kv, KvAfterFailure}
  /\ stage' = "failed"
  /\ UNCHANGED <<schedVars, attnVars, planId, computed, call, toSubmit, requestIds, callStart, projection>>

(* The consumer guard finishes before the step guard, after success and    *)
(* failure alike.                                                          *)
FinishConsumer ==
  /\ stage \in {"computed", "failed"}
  /\ ReleaseConsumer(planId)
  /\ UNCHANGED <<schedVars, kv, planId, stage, computed, call, toSubmit, requestIds, callStart, projection>>

FinishStep ==
  /\ stage = "computed"
  /\ ReleaseEpoch(planId)
  /\ Execute(computed)
  /\ stage' = "none"
  /\ computed' = <<>>
  /\ planId' = (planId + 1) % 2
  /\ UNCHANGED <<kv, call, toSubmit, requestIds, callStart, projection>>

(* cleanup_failed_step: end_generation and abort_all_requests; generate    *)
(* returns the error.                                                      *)
CleanupFailedStep ==
  /\ AbortAllRequests
  /\ projection' = 0
  /\ call' = "failed"
  /\ stage' = "none"
  /\ computed' = <<>>
  /\ planId' = (planId + 1) % 2
  /\ UNCHANGED <<kv, toSubmit, requestIds, callStart>>

PrepareFails ==
  /\ stage = "preparing"
  /\ CancelPreparation(planId)
  /\ CleanupFailedStep

FinishFailedStep ==
  /\ stage = "failed"
  /\ ReleaseEpoch(planId)
  /\ CleanupFailedStep

(* apply_step_result; the last one ends the generation and the loop.       *)
Apply ==
  /\ call = "loop"
  /\ ApplyStep
  /\ IF pc' = "idle" /\ running' = <<>> /\ waiting' = <<>>
     THEN projection' = 0 /\ call' = "returned"
     ELSE UNCHANGED <<projection, call>>
  /\ UNCHANGED <<attnVars, kv, planId, stage, computed, toSubmit, requestIds, callStart>>

EngineStep ==
  \/ Plan \/ ReserveAttention \/ PublishAttention \/ Bind
  \/ \E r \in Results(inFlight) : Forward(r)
  \/ FinishConsumer \/ FinishStep \/ FinishFailedStep
  \/ Apply

EngineNext ==
  \/ \E n \in 1 .. MaxCallSize : BeginCall(n)
  \/ \E p \in Prompt, m \in MaxTokens, i \in BOOLEAN : Submit(p, m, i)
  \/ EngineStep
  \/ ForwardFails \/ PrepareFails

EngineSpec == EngineInit /\ [][EngineNext]_vars
-----------------------------------------------------------------------------
(* The loop of generate runs on one thread until it ends, and a forward    *)
(* pass returns: a step that can be taken is taken.  Failures are not      *)
(* promised.                                                               *)
EngineFairness == WF_vars(EngineStep)

EngineFairSpec == EngineSpec /\ EngineFairness
-----------------------------------------------------------------------------
(* Mutant of Collected: outputs of earlier calls are kept.                 *)
MutCollected == outputs

(* order_request_outputs over the outputs of this call's steps.            *)
Collected == SubSeq(outputs, callStart + 1, Len(outputs))

OrderErrs ==
  \/ ~NoDuplicates(requestIds)
  \/ ~NoDuplicates([i \in DOMAIN Collected |-> Collected[i].request])
  \/ {Collected[i].request : i \in DOMAIN Collected} # Range(requestIds)

OrderedOutputs ==
  [k \in DOMAIN requestIds |->
     Collected[CHOOSE i \in DOMAIN Collected : Collected[i].request = requestIds[k]]]
-----------------------------------------------------------------------------
(* Whatever was shared, recomputed, preempted or abandoned before, the     *)
(* physical entry behind every cached position of a running sequence was   *)
(* computed from that sequence's own history.                              *)
KvMatchesHistory ==
  \A s \in Range(running) : \A pos \in 1 .. numCached[s] :
    KvAt(s, pos) = SubSeq(tokens[s], 1, pos)

(* A block that a prefix lookup can return holds what its identity says,   *)
(* also while it is free and after steps that failed half way.             *)
PublishedKvIntact ==
  \A b \in Block : identity[b] # <<>> =>
    \A o \in Offset : kv[b][o] = SubSeq(identity[b], 1, Len(identity[b]) - BlockSize + o + 1)

(* A token is sampled from a hidden state that has attended to the whole   *)
(* history of its request and to nothing else.                             *)
SamplesSeeWholeHistory ==
  stage = "computed" =>
    \A k \in DOMAIN inFlight :
      inFlight[k].sampling => KvAt(inFlight[k].id, inFlight[k].last) = tokens[inFlight[k].id]

(* Between calls nothing is left of the last one, whether it returned or   *)
(* failed: all blocks are free, the queues and the plan are empty, the     *)
(* attention context is idle and the model has its default layout, so the  *)
(* next call is admitted (cleanup_failed_step, the guards' Drop).          *)
CleanBetweenCalls ==
  call \notin {"submit", "loop"} =>
    /\ used = {} /\ Len(free) = NumBlocks
    /\ ~IsRunning /\ inFlight = <<>>
    /\ AttnIdle
    /\ projection = 0

(* The model reads attention metadata only of the plan in flight, and no   *)
(* step finds the context taken by an earlier one.                         *)
AttentionFollowsPlan ==
  /\ consumer # NoEpoch => MetadataReadable /\ pc = "execute" /\ epoch = planId
  /\ stage = "planned" => AttnIdle

(* generate returns one output per prompt, in the order of the prompts,    *)
(* each with the tokens generated for that prompt.                         *)
ResultsComplete ==
  call = "returned" =>
    /\ ~OrderErrs
    /\ \A k \in DOMAIN requestIds :
         LET s == requestIds[k]
         IN  OrderedOutputs[k].completion = SubSeq(tokens[s], numPrompt[s] + 1, Len(tokens[s]))

(* A generate call that has submitted its requests returns.                *)
CallReturns == call = "loop" ~> call \in {"returned", "failed"}

(* Whatever a sequence attends to, or a prefix lookup may hand to a later  *)
(* one, was computed from the history it stands for, also after failures.  *)
KvIsFaithful == KvMatchesHistory /\ PublishedKvIntact

=============================================================================
