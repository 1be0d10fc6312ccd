---------------------------- MODULE MCGoldenGate ----------------------------
(***************************************************************************)
(* A corpus of a canonical, a batch of two and a regression prompt.  The   *)
(* inputs are all sound, or defective in one respect each.                 *)
(***************************************************************************)
EXTENDS GoldenGate

Raw(id, category, subs) == [id |-> id, category |-> category, subs |-> subs]
BaseCorpus == <<Raw("c", "canonical", 0), Raw("b", "canonical", 2), Raw("r", "regression", 0)>>

BasePrompts == <<[id |-> <<"c", 0>>, family |-> "canonical"], [id |-> <<"b", 1>>, family |-> "batch"],
                 [id |-> <<"b", 2>>, family |-> "batch"], [id |-> <<"r", 0>>, family |-> "regression"]>>

Reference(p) ==
    [prompt |-> p.id, family |-> p.family, oracle |-> "transformers", role |-> "reference",
     required |-> IF p.family = "regression" THEN "l1" ELSE "l1l2"]
Baseline(p) ==
    [prompt |-> p.id, family |-> p.family, oracle |-> "vllm", role |-> "baseline", required |-> "calibration"]

\* Both expectations of each prompt, the reference first.
BaseSeq == [k \in 1..8 |-> IF k % 2 = 1 THEN Reference(BasePrompts[(k + 1) \div 2]) ELSE Baseline(BasePrompts[k \div 2])]
FirstReference == 1
FirstBaseline == 2

Meta(e) ==
    [prompt |-> e.prompt, oracle |-> e.oracle, sha |-> 1, tokens |-> 2,
     category |-> IF e.family = "regression" THEN "regression" ELSE "canonical",
     shape |-> IF e.family = "regression" THEN <<0, 0>> ELSE <<2, 2>>]
File(e) ==
    [name |-> FixtureId(e), sha |-> 1, kind |-> Meta(e).category, tokens |-> <<0, 1>>, prompted |-> TRUE,
     logits |-> IF e.family = "regression" THEN <<>> ELSE <<<<1, 0>>, <<0, 1>>>>]

BaseManifest ==
    [release |-> TRUE, model |-> TRUE,
     wheels |-> <<[name |-> "torch", version |-> 1], [name |-> "vllm", version |-> 1]>>,
     policy |-> [gap |-> 1, atol |-> 1, evidence |-> {"observation"}, rationale |-> "classes"],
     expected |-> BaseSeq, fixtures |-> [k \in DOMAIN BaseSeq |-> Meta(BaseSeq[k])],
     calibrated |-> SelectSeq([k \in DOMAIN BaseSeq |-> FixtureId(BaseSeq[k])], LAMBDA i : i.oracle = "vllm")]
BaseDir == [readable |-> TRUE, files |-> {File(BaseSeq[k]) : k \in DOMAIN BaseSeq}]
BaseOpts == [l1only |-> FALSE, l2only |-> FALSE, debug |-> FALSE]
Base == [corpus |-> BaseCorpus, manifest |-> BaseManifest, dir |-> BaseDir, opts |-> BaseOpts]

Without(s, k) == RemoveAt(s, k)
Edited(file) == (BaseDir.files \ {File(BaseSeq[FirstReference])}) \cup {file}

MCInputs ==
    {Base}
    \cup {[Base EXCEPT !.corpus = c] : c \in {
             Append(BaseCorpus, Raw("x", "canonical", 0)), Append(BaseCorpus, Raw("c", "regression", 0)),
             SubSeq(BaseCorpus, 1, 2), [BaseCorpus EXCEPT ![2].subs = 1],
             <<Raw("c", "canonical", 0), Raw("b", "canonical", 2), Raw("r", "regression", 0), Raw("d", "canonical", 2)>>,
             [BaseCorpus EXCEPT ![1].category = "regression"]}}
    \cup {[Base EXCEPT !.manifest = m] : m \in {
             [BaseManifest EXCEPT !.release = FALSE],
             [BaseManifest EXCEPT !.wheels = Append(@, @[1])],
             [BaseManifest EXCEPT !.policy.evidence = {}],
             [BaseManifest EXCEPT !.expected = Without(@, FirstBaseline)],
             [BaseManifest EXCEPT !.expected[FirstReference].required = "l1"],
             [BaseManifest EXCEPT !.fixtures = Without(@, FirstReference)],
             [BaseManifest EXCEPT !.calibrated = Tail(@)],
             [BaseManifest EXCEPT !.calibrated = Append(Tail(@), FixtureId(BaseSeq[FirstReference]))],
             [BaseManifest EXCEPT !.expected = SelectSeq(@, LAMBDA e : e.prompt # <<"c", 0>>),
                                  !.fixtures = SelectSeq(@, LAMBDA e : e.prompt # <<"c", 0>>),
                                  !.calibrated = SelectSeq(@, LAMBDA e : e.prompt # <<"c", 0>>)],
             [BaseManifest EXCEPT !.fixtures[FirstBaseline].sha = 2]}}
    \cup {[Base EXCEPT !.dir = d] : d \in {
             [BaseDir EXCEPT !.readable = FALSE],
             [BaseDir EXCEPT !.files = @ \ {File(BaseSeq[FirstReference])}],
             [BaseDir EXCEPT !.files = @ \ {File(BaseSeq[FirstBaseline])}],
             [BaseDir EXCEPT !.files = @ \cup {[File(BaseSeq[1]) EXCEPT !.name = [prompt |-> <<"z", 0>>, oracle |-> "vllm"]]}],
             [BaseDir EXCEPT !.files = Edited([File(BaseSeq[FirstReference]) EXCEPT !.sha = 2])],
             [BaseDir EXCEPT !.files = Edited([File(BaseSeq[FirstReference]) EXCEPT !.tokens = <<0, 7>>])]}}
    \cup {[Base EXCEPT !.opts = o] : o \in {
             [BaseOpts EXCEPT !.l1only = TRUE], [BaseOpts EXCEPT !.l2only = TRUE], [BaseOpts EXCEPT !.debug = TRUE]}}

Rows == {<<a, b>> : a, b \in {0, 1, 2, 9}}
MCCandidates ==
    {[tokens |-> <<t, u>>, logits |-> <<r, s>>] : t, u \in {0, 1}, r \in Rows, s \in {<<0, 1>>, <<1, 1>>, <<2, 2>>, <<9, 1>>}}
    \cup {[tokens |-> <<t>>, logits |-> <<r>>] : t \in {0, 1}, r \in {<<1, 0>>, <<2, 2>>}}
    \cup {[tokens |-> <<0, 1, t>>, logits |-> <<<<1, 0>>, <<0, 1>>, <<1, 0>>>>] : t \in {0, 1}}
    \cup {[tokens |-> <<0, 1>>, logits |-> <<>>], [tokens |-> <<0>>, logits |-> <<<<1, 0>>, <<0, 1>>>>]}
=============================================================================
