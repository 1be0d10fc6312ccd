----------------------------- MODULE Generation -----------------------------
(***************************************************************************)
(* What LLM::generate promises for each request, whatever the scheduler    *)
(* does below: its history grows by one sampled token at a time, until     *)
(* max_tokens are generated or, unless the request ignores it, an end of   *)
(* sequence token is; or a failed step aborts all requests of the call.    *)
(* Batching, chunking, preemption, recomputation and prefix sharing do not *)
(* appear here: they must be invisible.                                    *)
(***************************************************************************)
EXTENDS Integers, Sequences

CONSTANTS SeqId, Token, Prompt, MaxTokens, EosTokens

VARIABLES
  stage,              \* "absent", "active", "done" or "aborted"
  request,            \* what was asked for
  completion          \* the tokens generated so far

genVars == <<stage, request, completion>>

NoRequest == [prompt |-> <<>>, max |-> 0, ignoreEos |-> FALSE]

GenInit ==
  /\ stage = [s \in SeqId |-> "absent"]
  /\ request = [s \in SeqId |-> NoRequest]
  /\ completion = [s \in SeqId |-> <<>>]

Accept(s, r) ==
  /\ stage[s] = "absent"
  /\ stage' = [stage EXCEPT ![s] = "active"]
  /\ request' = [request EXCEPT ![s] = r]
  /\ UNCHANGED completion

IsLast(s, t) ==
  \/ Len(completion[s]) + 1 = request[s].max
  \/ t \in EosTokens /\ ~request[s].ignoreEos

Generate(s, t) ==
  /\ stage[s] = "active"
  /\ completion' = [completion EXCEPT ![s] = Append(@, t)]
  /\ stage' = [stage EXCEPT ![s] = IF IsLast(s, t) THEN "done" ELSE @]
  /\ UNCHANGED request

Abort ==
  /\ stage' = [s \in SeqId |-> IF stage[s] = "active" THEN "aborted" ELSE stage[s]]
  /\ UNCHANGED <<request, completion>>

GenNext ==
  \/ \E s \in SeqId, p \in Prompt, m \in MaxTokens, i \in BOOLEAN :
       Accept(s, [prompt |-> p, max |-> m, ignoreEos |-> i])
  \/ \E s \in SeqId, t \in Token : Generate(s, t)
  \/ Abort

GenSpec == GenInit /\ [][GenNext]_genVars
=============================================================================
