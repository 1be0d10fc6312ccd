------------------------------ MODULE Startup ------------------------------
(***************************************************************************)
(* LLM::new as a whole (crates/vllm-oxide/src/llm.rs): ModelResolution     *)
(* picks and opens the artifacts of one model, EngineInit turns them into  *)
(* an engine.  The two interleave in the order of LLM::new: options and    *)
(* device, resolution, the context limit, the tokenizer, the factory, the  *)
(* configuration, the weights, the KV cache, the warm-up.                  *)
(***************************************************************************)
EXTENDS EngineInit, ModelResolution

startVars == <<allVars, resVars>>

StartupInit ==
  /\ StartInit
  /\ ResInit
  /\ source.dtype = options.dtype

(* The resolution runs at "resolve" until its artifacts are taken, and at  *)
(* "build" it opens the tokenizer, finds the factory and, for a            *)
(* configuration that validates, maps the weights.                         *)
ResolutionRuns ==
  \/ stage = "resolve" /\ pc # "load"
  \/ stage = "build" /\ pc \in {"load", "factory"}
  \/ stage = "build" /\ pc = "map" /\ ConfigOK(config)

Preparing ==
  \/ ResolutionRuns /\ ResolveStep /\ UNCHANGED allVars
  \/ Validate /\ UNCHANGED resVars
  \/ \E found \in BOOLEAN : FindDevice(found) /\ UNCHANGED resVars
  \/ pc = "load" /\ UNCHANGED resVars /\ \E c \in Configs : Resolve(TRUE, c)
  \/ pc = "failed" /\ UNCHANGED resVars /\ Resolve(FALSE, config)
  \/ pc = "loaded" /\ UNCHANGED resVars /\ \E built \in BOOLEAN : Build(built)
  \/ (pc = "failed" \/ (pc = "map" /\ ~ConfigOK(config))) /\ UNCHANGED resVars /\ Build(FALSE)

Outside ==
  /\ stage \in {"resolve", "build"}
  /\ Prune \/ \E s \in Published : MoveRef(s)
  /\ UNCHANGED allVars

StartupNext == Preparing \/ Outside \/ (Initialize /\ UNCHANGED resVars)

StartupSpec == StartupInit /\ [][StartupNext]_startVars

-----------------------------------------------------------------------------
(* An engine that admits requests serves one model that is loaded, and a   *)
(* loaded model is one model: all its artifacts come from the snapshot its *)
(* identity names, although the branch moved and the cache was cleaned     *)
(* meanwhile; its weights are exactly those the snapshot publishes; its    *)
(* stop tokens and its dtype are usable.                                   *)
ReadyServesOneModel ==
  /\ stage = "ready" => pc = "loaded"
  /\ OneIdentity /\ WeightsAreComplete /\ ContractHolds

(* An engine that admits requests can serve them: the pool holds one       *)
(* request of max_model_len tokens and both kernels are warm.              *)
ReadyCanServe == ReadyHoldsOneRequest /\ WarmedBeforeReady

(* A construction fails for a reason: a checkpoint is refused only if      *)
(* something is wrong with it, and options that pass validation never fail *)
(* for the shape of the warm-up.                                           *)
RefusalIsJustified == RefusalHasCause /\ WarmupAlwaysFits

=============================================================================
