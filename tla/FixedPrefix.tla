----------------------------- MODULE FixedPrefix -----------------------------
(***************************************************************************)
(* Fixed-prefix replay: bin/fixed_prefix.rs drives one engine through the  *)
(* setup plans and then the target plan; a ReplaySession inside generate   *)
(* (golden_capture/fixed_prefix.rs) records the logits row of every        *)
(* sampled step and, unless it is a control run, replaces the sampled      *)
(* token by the frozen one before the scheduler applies the result.  A     *)
(* LayerTrace (golden_capture/layer_trace.rs), made by LLM::new, may watch *)
(* every forward of the call.  The engine is seen as EngineCore leaves it: *)
(* requests advance in chunks, in any batch, may start from cached blocks  *)
(* and may be preempted; the model predicts from the whole history.        *)
(***************************************************************************)
EXTENDS Naturals, Sequences, FiniteSets, SequencesExt, SeqOrder

CONSTANTS
    PlanLists,      \* what main may be asked for: setup plans, then the target plan,
                    \* each a sequence of members
    Predict(_),     \* the greedy token of a history
    MaxChunk,       \* tokens of one request in one step, at most
    MaxReplayPreempts, \* preemptions of a call (bound)
    TraceLimit      \* executed tokens a layer trace admits

\* A list, whatever its elements are.
IsList(s) == s \in Seq({s[n] : n \in DOMAIN s})

ASSUME PlansNonEmpty ==
    /\ {MaxChunk, MaxReplayPreempts, TraceLimit} \subseteq Nat
    /\ \A list \in PlanLists :
         /\ IsList(list) /\ list # <<>>
         /\ \A k \in DOMAIN list :
              /\ IsList(list[k])
              /\ \A i \in DOMAIN list[k] :
                   /\ IsList(list[k][i].prompt) /\ list[k][i].prompt # <<>>
                   /\ IsList(list[k][i].continuation) /\ list[k][i].continuation # <<>>

VARIABLES
    fixPc, mode, \* where main is; "replay", "control" or "trace"
    plans,      \* the plans read
    call,       \* index of the plan that runs
    fixEnv,     \* private variables that are set: "plan", "output", "control", "trace"
    requests,   \* the engine's sequences of the call: history and computed tokens
    replayPreempts,
    replay,     \* ReplaySession: rows, next_rows, advances
    trace,      \* LayerTrace: the traced steps, "off" before LLM::new
    disk,       \* <<"stage", k>> and <<"capture", k>>
    captures,   \* contents of the published captures
    error       \* "none" or why main returned an error

fixVars == <<fixPc, mode, plans, call, fixEnv, requests, replayPreempts, replay, trace, disk, captures, error>>

Members == plans[call]
Target == Len(plans)
NoRows == [rows |-> <<>>, advances |-> <<>>]

FixInit ==
    /\ fixPc = "preflight" /\ call = 1 /\ plans \in PlanLists /\ mode \in {"replay", "control", "trace"}
    /\ fixEnv \in {{}, {"output"}}
    /\ requests = <<>> /\ replayPreempts = 0 /\ replay = NoRows
    /\ trace = [on |-> FALSE, steps |-> <<>>]
    /\ disk = {} /\ captures = [k \in DOMAIN plans |-> <<>>] /\ error = "none"

Stop(why) == fixPc' = "failed" /\ error' = why

-----------------------------------------------------------------------------
(* main up to LLM::new *)

\* A trace takes one request, few predictions, and no setup plan.
TraceAllowed ==
    /\ Len(plans) = 1 /\ Len(plans[1]) = 1
    /\ Len(plans[1][1].prompt) + Len(plans[1][1].continuation) - 1 <= TraceLimit

\* Identity, plans and options are validated and no private variable may be
\* set already; then the plan's variable, and the trace's, are set.
Preflight ==
    /\ fixPc = "preflight"
    /\ IF fixEnv # {} \/ (mode = "trace" /\ ~TraceAllowed)
       THEN Stop("preflight") /\ UNCHANGED fixEnv
       ELSE /\ fixEnv' = {"plan"} \cup (IF mode = "trace" THEN {"trace"} ELSE {})
            /\ fixPc' = "new" /\ UNCHANGED error
    /\ UNCHANGED <<mode, plans, call, requests, replayPreempts, replay, trace, disk, captures>>

\* LayerTrace::begin: only the forwards of a replayed call are traced.
ActiveCall == "output" \in fixEnv

\* begin_values: the first traced step is the whole prompt, the next ones the
\* continuation token by token.
TraceAccepts(tokens, first) ==
    LET m == plans[1][1]
        n == Len(trace.steps)
    IN IF n = 0 THEN tokens = m.prompt /\ first = 0
       ELSE /\ n < Len(m.continuation)
            /\ tokens = <<m.continuation[n]>> /\ first = Len(m.prompt) + n - 1

Traced(tokens, first) ==
    IF trace.on /\ ActiveCall THEN [trace EXCEPT !.steps = Append(@, [tokens |-> tokens, first |-> first])]
    ELSE trace

\* LLM::new loads the trace and runs warm-up forwards, which are not of a
\* replayed call: an active trace would refuse them.
NewEngine ==
    /\ fixPc = "new"
    /\ \/ Stop("engine") /\ UNCHANGED trace
       \/ /\ ~ActiveCall
          /\ trace' = [trace EXCEPT !.on = "trace" \in fixEnv]
          /\ fixPc' = "call" /\ UNCHANGED error
    /\ UNCHANGED <<mode, plans, call, fixEnv, requests, replayPreempts, replay, disk, captures>>

-----------------------------------------------------------------------------
(* One generate call *)

\* The destination of plan k: setup-k or the requested output.
OutputOf(k) == <<"capture", k>>

\* The variables of this plan are set; ReplaySession::from_env checks the plan
\* against the prompts and the neutral greedy parameters, wants a fresh
\* destination and stages a file; the requests are admitted and bound.  A
\* cached prefix of whole blocks, short of the last token, may be reused.
StartCall ==
    /\ fixPc = "call"
    /\ fixEnv' = fixEnv \cup {"plan", "output"} \cup (IF mode = "control" THEN {"control"} ELSE {})
    /\ \/ Stop("admission") /\ UNCHANGED <<requests, replay, disk>>
       \/ IF OutputOf(call) \in disk THEN Stop("not_fresh") /\ UNCHANGED <<requests, replay, disk>>
          ELSE /\ disk' = disk \cup {<<"stage", call>>}
               /\ \E cached \in BOOLEAN :
                    requests' = [i \in DOMAIN Members |->
                      [history |-> Members[i].prompt,
                       computed |-> IF cached /\ call > 1 THEN Len(Members[i].prompt) - 1 ELSE 0]]
               /\ replay' = [rows |-> <<>>, advances |-> [i \in DOMAIN Members |-> <<>>]]
               /\ fixPc' = "running" /\ UNCHANGED error
    /\ replayPreempts' = 0
    /\ UNCHANGED <<mode, plans, call, trace, captures>>

Generated(i) == Len(requests[i].history) - Len(Members[i].prompt)

Unreplayed == {i \in DOMAIN requests : Generated(i) < Len(Members[i].continuation)}

\* The scheduler preempts a request: everything is recomputed.
PreemptReplayed ==
    /\ fixPc = "running" /\ replayPreempts < MaxReplayPreempts
    /\ \E i \in Unreplayed :
         /\ requests[i].computed > 0
         /\ requests' = [requests EXCEPT ![i].computed = 0]
    /\ replayPreempts' = replayPreempts + 1
    /\ UNCHANGED <<fixPc, mode, plans, call, fixEnv, replay, trace, disk, captures, error>>

Remaining(i) == Len(requests[i].history) - requests[i].computed

\* A chunk of request i samples when it reaches the end of the history.
Samples(i, chunk) == chunk = Remaining(i)

History(i) == Members[i].prompt \o replay.advances[i]

\* record_and_advance compares the executed plan with the frozen history.
MatchesPlan(i) ==
    /\ Generated(i) = Len(replay.advances[i]) /\ Generated(i) < Len(Members[i].continuation)
    /\ requests[i].history = History(i)

\* The token the request advances with.
Advance(i, predicted) ==
    IF mode = "control" THEN predicted ELSE Members[i].continuation[Generated(i) + 1]

MutExecuted(i, predicted) == predicted

\* The token left in the step result, which the scheduler applies.
Executed(i, predicted) == Advance(i, predicted)

Predicted(i) == Predict(requests[i].history)

\* The row written for request i.
RowOf(i) ==
    [member |-> i, step |-> Generated(i), history |-> requests[i].history,
     predicted |-> Predicted(i), advance |-> Advance(i, Predicted(i))]

\* The chunks a step may plan: one token of a decoding request, any part of
\* the remaining prefill of another.
ChunkPlans == UNION {[planned -> 1..MaxChunk] : planned \in (SUBSET Unreplayed) \ {{}}}

\* One step with the replay in control.  With a trace on, the inputs of the
\* step must be the ones of the diagnostic request.
ReplayStep ==
    /\ fixPc = "running"
    /\ \E chunks \in ChunkPlans :
         LET planned  == DOMAIN chunks
             sampling == {i \in planned : Samples(i, chunks[i])}
             order    == InOrder(sampling)
             inputs   == SubSeq(requests[1].history, requests[1].computed + 1, requests[1].computed + chunks[1])
         IN /\ \A i \in planned : chunks[i] <= Remaining(i)
            /\ IF trace.on /\ ActiveCall /\ ~TraceAccepts(inputs, requests[1].computed)
               THEN Stop("trace") /\ UNCHANGED <<requests, replay, trace>>
               ELSE /\ trace' = IF trace.on THEN Traced(inputs, requests[1].computed) ELSE trace
                    /\ IF \A i \in sampling : MatchesPlan(i)
                       THEN /\ replay' = [rows |-> replay.rows \o [n \in DOMAIN order |-> RowOf(order[n])],
                                           advances |-> [i \in DOMAIN Members |->
                                             IF i \in sampling
                                             THEN Append(replay.advances[i], Advance(i, Predicted(i)))
                                             ELSE replay.advances[i]]]
                            /\ requests' = [i \in DOMAIN requests |->
                                 IF i \notin planned THEN requests[i]
                                 ELSE [history |-> IF i \in sampling
                                                   THEN Append(requests[i].history, Executed(i, Predicted(i)))
                                                   ELSE requests[i].history,
                                       computed |-> requests[i].computed + chunks[i]]]
                            /\ UNCHANGED <<fixPc, error>>
                       ELSE Stop("history") /\ UNCHANGED <<requests, replay>>
    /\ UNCHANGED <<mode, plans, call, fixEnv, replayPreempts, disk, captures>>

\* The step, a transfer or a write fails, or a value is not finite: the engine
\* aborts its requests and main returns.  The staging file stays behind.
ReplayStepFails ==
    /\ fixPc = "running"
    /\ Stop("step")
    /\ UNCHANGED <<mode, plans, call, fixEnv, requests, replayPreempts, replay, trace, disk, captures>>

\* next_rows of member i.
RowsOf(i) == Cardinality({n \in DOMAIN replay.rows : replay.rows[n].member = i})

Complete ==
    \A i \in DOMAIN Members :
      /\ RowsOf(i) = Len(Members[i].continuation)
      /\ requests[i].history = History(i)

\* finish: the rows are complete, the file is closed and linked to the
\* destination, which must still be free.
FinishCall ==
    /\ fixPc = "running" /\ Unreplayed = {}
    /\ \/ /\ Complete /\ OutputOf(call) \notin disk
          /\ disk' = disk \cup {OutputOf(call)}
          /\ captures' = [captures EXCEPT ![call] = replay]
          /\ fixPc' = "linked" /\ UNCHANGED error
       \/ Stop("finish") /\ UNCHANGED <<disk, captures>>
    /\ UNCHANGED <<mode, plans, call, fixEnv, requests, replayPreempts, replay, trace>>

\* The staging name is removed; then the next plan, or the evidence line.
NextCall ==
    /\ fixPc = "linked"
    /\ \/ /\ disk' = disk \ {<<"stage", call>>}
          /\ fixPc' = IF call = Target THEN "done" ELSE "call"
          /\ call' = IF call = Target THEN call ELSE call + 1
          /\ UNCHANGED error
       \/ Stop("cleanup") /\ UNCHANGED <<disk, call>>
    /\ requests' = <<>> /\ replay' = NoRows
    /\ UNCHANGED <<mode, plans, fixEnv, replayPreempts, trace, captures>>

FixNext == Preflight \/ NewEngine \/ StartCall \/ PreemptReplayed \/ ReplayStep \/ ReplayStepFails
           \/ FinishCall \/ NextCall

-----------------------------------------------------------------------------
(* Properties *)

\* The free greedy generation of a member: what the engine would produce with
\* no session attached.
FreeRun(prompt, n) ==
    LET free[k \in 0..n] == IF k = 0 THEN prompt ELSE Append(free[k - 1], Predict(free[k - 1]))
    IN free[n]

\* Every published row predicts from the frozen history, whatever the model
\* predicted before it and however the engine chunked, batched or preempted.
ReplayIsFrozen ==
    mode # "control" => \A k \in DOMAIN plans : captures[k] # <<>> =>
      \A n \in DOMAIN captures[k].rows :
        LET row == captures[k].rows[n]
            m   == plans[k][row.member]
        IN row.history = m.prompt \o SubSeq(m.continuation, 1, row.step)

\* The session changes the result before the scheduler applies it, so that the
\* next plan always agrees with the frozen history.
ReplayNeverDiverges == error # "history"

\* A control run is undisturbed: its tokens are those of free generation.
ControlIsFree ==
    mode = "control" => \A k \in DOMAIN plans : captures[k] # <<>> =>
      \A i \in DOMAIN plans[k] :
        plans[k][i].prompt \o captures[k].advances[i]
          = FreeRun(plans[k][i].prompt, Len(plans[k][i].continuation))

\* A capture is published whole and after all the setups before it: every
\* member has one row for each frozen token.
CapturesAreComplete ==
    \A k \in DOMAIN plans : captures[k] # <<>> =>
      /\ \A j \in 1..k : OutputOf(j) \in disk /\ captures[j] # <<>>
      /\ \A i \in DOMAIN plans[k] : \A s \in 1..Len(plans[k][i].continuation) :
           Cardinality({n \in DOMAIN captures[k].rows :
             captures[k].rows[n].member = i /\ captures[k].rows[n].step = s - 1}) = 1

\* A finished trace shows every executed token once, in order, and nothing of
\* the warm-up.
TraceCoversCall ==
    fixPc = "done" /\ mode = "trace" =>
      LET m == plans[1][1]
      IN FlattenSeq([n \in DOMAIN trace.steps |-> trace.steps[n].tokens])
           = m.prompt \o SubSeq(m.continuation, 1, Len(m.continuation) - 1)
=============================================================================
