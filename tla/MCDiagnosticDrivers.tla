------------------------ MODULE MCDiagnosticDrivers ------------------------
(***************************************************************************)
(* Small diagnostic runs: step times that are short at once or long after  *)
(* a pause; a setup plan and a two-member target that shares its prompt;   *)
(* and the single request of a layer trace.                                *)
(***************************************************************************)
EXTENDS DiagnosticDrivers

TimesModel == {<<0, 1>>, <<1, 3>>}

\* A deterministic model over three tokens that rarely predicts what is frozen.
PredictModel(history) == (history[Len(history)] + Len(history)) % 3

Member(prompt, continuation) == [prompt |-> prompt, continuation |-> continuation]

ReplayPlans ==
    << <<Member(<<0, 1, 1>>, <<2, 0>>)>>,
       <<Member(<<0, 1, 1>>, <<2, 2, 0>>), Member(<<1, 2, 0>>, <<0, 1>>)>> >>

TracePlans == << <<Member(<<0, 1, 0>>, <<2, 2, 1, 0>>)>> >>

MCPlanLists == {ReplayPlans, TracePlans}
=============================================================================
