----------------------------- MODULE GoldenGate -----------------------------
(***************************************************************************)
(* The release gate of vllm-oxide-test: prompts are loaded (prompts.rs),   *)
(* the manifest's contract is checked (manifest.rs), every expected        *)
(* fixture is tracked through discovery, generation and comparison         *)
(* (lifecycle.rs), each reference case is generated and compared           *)
(* (driver.rs, l1.rs, l2.rs, l3.rs), and the report decides the exit code  *)
(* (report.rs, main.rs).                                                   *)
(*                                                                         *)
(* A prompt id is <<raw id, sub-prompt>>; a fixture id is a prompt id with *)
(* its oracle, and its file name is the fixture id.  Logits are integers,  *)
(* NonFinite among them.                                                   *)
(***************************************************************************)
EXTENDS SeqOrder, SequencesExt, FiniteSetsExt

CONSTANTS
    Inputs,         \* prompt files, manifest, fixture directory and options together
    Candidates,     \* what the engine may produce for a case
    Vocab,          \* vocabulary size of the release model
    NonFinite       \* stands for an infinite or NaN logit; finite ones are smaller

ASSUME GateShape == Vocab \in Nat \ {0} /\ NonFinite \in Nat

\* Lists are sequences, tokens and thresholds numbers; a directory is finite.
Listed(s) == s \in Seq(ToSet(s))
LogitRows == Seq(Seq(0..NonFinite))

ASSUME InputTypes ==
    /\ \A i \in Inputs :
         /\ Listed(i.corpus) /\ \A k \in DOMAIN i.corpus : i.corpus[k].subs \in Nat
         /\ Listed(i.manifest.expected) /\ Listed(i.manifest.fixtures) /\ Listed(i.manifest.calibrated)
         /\ {i.manifest.policy.gap, i.manifest.policy.atol} \subseteq Nat
         /\ IsFiniteSet(i.dir.files)
         /\ \A f \in i.dir.files : f.tokens \in Seq(Nat) /\ f.logits \in LogitRows
    /\ \A g \in Candidates : g.tokens \in Seq(0..(Vocab - 1)) /\ g.logits \in LogitRows

VARIABLES
    corpus, manifest, dir, opts,    \* inputs
    pc, prompts,                    \* progress; loaded prompts
    tracker,                        \* LifecycleTracker
    cases,                          \* reference cases still to compare
    results,                        \* pushed L1/L2 results
    failures,                       \* fixtures with an error message
    last,                           \* the last comparison: its case, candidate and verdict
    exit                            \* "none", "error" (refused early), "pass", "fail"

gateVars == <<corpus, manifest, dir, opts, pc, prompts, tracker, cases, results, failures, last, exit>>

Oracles == {"transformers", "vllm"}
Families == {"canonical", "batch", "regression"}
NoTracker == [expected |-> {}, discovered |-> {}, generated |-> {}, compared |-> {},
              skipped |-> {}, failed |-> {}, unexpected |-> {}]
NoComparison == [case |-> <<>>, candidate |-> <<>>, verdict |-> <<>>]

GateInit ==
    /\ \E i \in Inputs : corpus = i.corpus /\ manifest = i.manifest /\ dir = i.dir /\ opts = i.opts
    /\ pc = "load" /\ prompts = {} /\ tracker = NoTracker /\ cases = <<>>
    /\ results = <<>> /\ failures = {} /\ last = NoComparison /\ exit = "none"

-----------------------------------------------------------------------------
(* prompts.rs *)

\* The entries a raw prompt flattens into.
Entries(raw) ==
    IF raw.subs > 0
    THEN {[id |-> <<raw.id, k>>, family |-> "batch"] : k \in 1..raw.subs}
    ELSE {[id |-> <<raw.id, 0>>, family |-> raw.category]}

\* load_all_prompts: batches are canonical and of 2 to 26 prompts, identifiers
\* are unique, and every family is present.
CorpusOK(c) ==
    /\ \A k \in DOMAIN c : c[k].subs > 0 => c[k].category = "canonical" /\ c[k].subs \in 2..26
    /\ \A j, k \in DOMAIN c : j # k =>
           {e.id : e \in Entries(c[j])} \cap {e.id : e \in Entries(c[k])} = {}
    /\ {e.family : e \in UNION {Entries(c[k]) : k \in DOMAIN c}} = Families

LoadedPrompts(c) == UNION {Entries(c[k]) : k \in DOMAIN c}

PromptOf(id) == CHOOSE p \in prompts : p.id = id
HasPrompt(id) == \E p \in prompts : p.id = id

-----------------------------------------------------------------------------
(* manifest.rs *)

FixtureId(x) == [prompt |-> x.prompt, oracle |-> x.oracle]

\* The locked wheels, each once and at its version.
WheelsOK(m) ==
    /\ \A j, k \in DOMAIN m.wheels : m.wheels[j].name = m.wheels[k].name => j = k
    /\ {[name |-> "torch", version |-> 1], [name |-> "vllm", version |-> 1]} \subseteq ToSet(m.wheels)

\* validate_runtime_and_kernels, and the pinned model and tokenizer.
IdentityOK(m) == m.release /\ m.model /\ WheelsOK(m)

\* An observation manifest is pending and of zero thresholds, an authoritative
\* one has a rationale and evidence.
PolicyOK(m, purpose) ==
    IF purpose = "observation"
    THEN m.policy.gap = 0 /\ m.policy.atol = 0 /\ m.policy.evidence = {} /\ m.policy.rationale = "pending"
    ELSE m.policy.evidence # {} /\ m.policy.rationale # ""

\* Which oracle plays which role, and what the role must be compared by.
RoleOK(e) ==
    \/ /\ e.oracle = "transformers" /\ e.role = "reference"
       /\ e.required = IF e.family = "regression" THEN "l1" ELSE "l1l2"
    \/ e.oracle = "vllm" /\ e.role = "baseline" /\ e.required = "calibration"

\* Every expectation is unique and well formed, every prompt has both roles and
\* one family; generated and calibrated fixtures are expected ones.
ContractOK(m) ==
    LET ids == {FixtureId(e) : e \in ToSet(m.expected)}
        byId(x) == CHOOSE e \in ToSet(m.expected) : FixtureId(e) = FixtureId(x)
    IN /\ m.expected # <<>> /\ Cardinality(ids) = Len(m.expected)
       /\ \A e \in ToSet(m.expected) : RoleOK(e)
       /\ \A e \in ToSet(m.expected) :
              LET mine == {x \in ToSet(m.expected) : x.prompt = e.prompt}
              IN {x.role : x \in mine} = {"reference", "baseline"} /\ Cardinality({x.family : x \in mine}) = 1
       /\ Cardinality({FixtureId(x) : x \in ToSet(m.fixtures)}) = Len(m.fixtures)
       /\ Cardinality(ToSet(m.calibrated)) = Len(m.calibrated)
       /\ \A c \in ToSet(m.calibrated) :
              c \in ids /\ byId(c).role = "baseline" /\ \E x \in ToSet(m.fixtures) : FixtureId(x) = c
       /\ \A x \in ToSet(m.fixtures) :
              /\ FixtureId(x) \in ids
              /\ x.category = IF byId(x).family = "regression" THEN "regression" ELSE "canonical"

\* parse_manifest for the authoritative purpose.
ManifestAccepted(m) == IdentityOK(m) /\ PolicyOK(m, "authoritative") /\ ContractOK(m)

\* load_fixture: the tensors of the category, of the declared shapes; then
\* validate_fixture_values: a prompt and tokens inside the vocabulary.
FixtureLoads(file, meta) ==
    /\ meta.tokens > 0 /\ Len(file.tokens) = meta.tokens
    /\ file.kind = meta.category
    /\ IF meta.category = "canonical"
       THEN /\ meta.shape = <<meta.tokens, Vocab>> /\ Len(file.logits) = meta.tokens
            /\ \A k \in DOMAIN file.logits : Len(file.logits[k]) = meta.shape[2]
       ELSE meta.shape = <<0, 0>>
    /\ file.prompted /\ \A k \in DOMAIN file.tokens : file.tokens[k] < Vocab

-----------------------------------------------------------------------------
(* lifecycle.rs *)

\* record_stage: an unexpected identifier is counted as such, in no stage.
Record(t, stage, ids) ==
    [t EXCEPT ![stage] = @ \cup (ids \cap t.expected),
              !.unexpected = @ \cup (ids \ t.expected)]

ExpectedIds == {FixtureId(e) : e \in ToSet(manifest.expected)}

\* The expectation a piece of metadata belongs to.
ExpectationOf(meta) == CHOOSE e \in ToSet(manifest.expected) : FixtureId(e) = FixtureId(meta)

FileOf(meta) == {f \in dir.files : f.name = FixtureId(meta)}

\* What the first pass finds: prompts, their families, prompts that nothing
\* expects, and files that nothing expects.
Discovered ==
    LET found == {e \in ToSet(manifest.expected) : HasPrompt(e.prompt)}
        wrong == {e \in found : PromptOf(e.prompt).family # e.family}
        extra == {[prompt |-> p.id, oracle |-> o] : p \in prompts, o \in Oracles} \ ExpectedIds
        fresh == [NoTracker EXCEPT !.expected = ExpectedIds]
        stray == {f.name : f \in dir.files} \ ExpectedIds
    IN LET one == Record(Record(fresh, "discovered", {FixtureId(e) : e \in found} \cup extra),
                         "failed", {FixtureId(e) : e \in wrong})
       IN IF dir.readable THEN Record(one, "generated", stray) ELSE Record(one, "failed", ExpectedIds)

\* Metadata whose file cannot be used: another checksum, another shape.
Broken(meta) == \E f \in FileOf(meta) : f.sha # meta.sha \/ ~FixtureLoads(f, meta)

\* The second pass over the generated fixtures.
Generated(t) ==
    LET there == {x \in ToSet(manifest.fixtures) : FileOf(x) # {}}
    IN Record(Record(t, "generated", {FixtureId(x) : x \in there}),
              "failed", {FixtureId(x) : x \in {y \in there : Broken(y)}})

\* The third pass: calibration evidence counts as a comparison only for a
\* baseline that was generated and has not failed.
Calibrated(t) ==
    LET good == {c \in ToSet(manifest.calibrated) : c \in t.generated /\ c \notin t.failed}
    IN Record(Record(t, "compared", good), "failed", ToSet(manifest.calibrated) \ good)

\* Reference cases ready for comparison, in the manifest's order.
ReferenceCases ==
    Retain(manifest.fixtures,
           {x \in ToSet(manifest.fixtures) :
                /\ ExpectationOf(x).role = "reference"
                /\ FileOf(x) # {} /\ ~Broken(x)
                /\ HasPrompt(x.prompt) /\ PromptOf(x.prompt).family = ExpectationOf(x).family})

\* Fixtures preflight has an error message about.
PreflightErrors(t) ==
    LET wrong == {e \in ToSet(manifest.expected) :
                      HasPrompt(e.prompt) /\ PromptOf(e.prompt).family # e.family}
        bad == {x \in ToSet(manifest.fixtures) : FileOf(x) = {} \/ Broken(x)}
        uncalibrated == {c \in ToSet(manifest.calibrated) : c \notin t.generated \/ c \in t.failed}
    IN {FixtureId(x) : x \in wrong \cup bad} \cup uncalibrated
       \cup (IF dir.readable THEN {} ELSE ExpectedIds)

-----------------------------------------------------------------------------
(* l1.rs, l2.rs: the comparison of one candidate. *)

Gap(row, a, b) == IF NonFinite \in {row[a + 1], row[b + 1]} THEN NonFinite
                  ELSE IF row[a + 1] >= row[b + 1] THEN row[a + 1] - row[b + 1] ELSE row[b + 1] - row[a + 1]

\* compare_tokens_loop: token by token to the first divergence, which passes
\* only as a near tie in the candidate's own logits; a missing or additional
\* token is a divergence when there was none before.
CompareL1(file, g, policy, withLogits) ==
    LET n == Min({Len(file.tokens), Len(g.tokens)})
        at[k \in 1..(n + 1)] ==
            IF k > n
            THEN IF Len(file.tokens) = Len(g.tokens)
                 THEN [passed |-> TRUE, divergence |-> 0]
                 ELSE [passed |-> FALSE, divergence |-> n + 1]
            ELSE IF file.tokens[k] = g.tokens[k] THEN at[k + 1]
            ELSE LET gap == Gap(g.logits[k], g.tokens[k], file.tokens[k])
                 IN [passed |-> withLogits /\ gap # NonFinite /\ gap <= policy.gap, divergence |-> k]
    IN at[1]

Exceeds(a, b, policy) ==
    a = NonFinite \/ b = NonFinite \/ (IF a >= b THEN a - b ELSE b - a) > policy.atol

MutCompareL2(file, g, policy) ==
    LET n == Min({Len(file.tokens), Len(g.tokens)})
        at[k \in 1..(n + 1)] ==
            IF k > n THEN [exceeding |-> 0, steps |-> n]
            ELSE IF file.tokens[k] # g.tokens[k] THEN [exceeding |-> 0, steps |-> k - 1]
            ELSE [at[k + 1] EXCEPT !.exceeding =
                      @ + Cardinality({v \in 1..Vocab : Exceeds(g.logits[k][v], file.logits[k][v], policy)})]
    IN at[1]

\* compare_l2: every row whose prefix is shared, the diverging one included.
CompareL2(file, g, policy) ==
    LET n == Min({Len(file.tokens), Len(g.tokens)})
        over(k) == Cardinality({v \in 1..Vocab : Exceeds(g.logits[k][v], file.logits[k][v], policy)})
        at[k \in 1..(n + 1)] ==
            IF k > n THEN [exceeding |-> 0, steps |-> n]
            ELSE IF file.tokens[k] # g.tokens[k] THEN [exceeding |-> over(k), steps |-> k]
            ELSE [at[k + 1] EXCEPT !.exceeding = @ + over(k)]
    IN at[1]

\* generated_logits_geometry: at least one row, of the manifest's width.
GeometryOK(g) == Len(g.logits) > 0 /\ \A k \in DOMAIN g.logits : Len(g.logits[k]) = Vocab

\* The verdict of compare_reference_case, by the category of the metadata.
Verdict(file, meta, g) ==
    IF meta.category = "canonical"
    THEN [l1 |-> CompareL1(file, g, manifest.policy, TRUE).passed,
          l2 |-> CompareL2(file, g, manifest.policy).exceeding = 0]
    ELSE [l1 |-> CompareL1(file, g, manifest.policy, FALSE).passed, l2 |-> TRUE]

-----------------------------------------------------------------------------
(* driver.rs *)

\* required_layers_enabled.
LayersEnabled(required) ==
    \/ required = "l1" /\ ~opts.l2only
    \/ required = "l1l2" /\ ~opts.l1only /\ ~opts.l2only

\* main: the manifest, then the prompts, then the preflight.  The approval of
\* the policy comes between them.
Load ==
    /\ pc = "load"
    /\ IF ManifestAccepted(manifest) /\ CorpusOK(corpus)
       THEN pc' = "preflight" /\ prompts' = LoadedPrompts(corpus) /\ UNCHANGED exit
       ELSE pc' = "done" /\ exit' = "error" /\ UNCHANGED prompts
    /\ UNCHANGED <<corpus, manifest, dir, opts, tracker, cases, results, failures, last>>

Preflight ==
    /\ pc = "preflight"
    /\ tracker' = Calibrated(Generated(Discovered))
    /\ cases' = ReferenceCases
    /\ failures' = PreflightErrors(tracker')
    /\ pc' = "compare"
    /\ UNCHANGED <<corpus, manifest, dir, opts, prompts, results, last, exit>>

\* A case whose required layers are switched off is skipped, not passed.
SkipCase ==
    /\ pc = "compare" /\ cases # <<>> /\ ~LayersEnabled(ExpectationOf(Head(cases)).required)
    /\ tracker' = Record(tracker, "skipped", {FixtureId(Head(cases))})
    /\ cases' = Tail(cases)
    /\ UNCHANGED <<corpus, manifest, dir, opts, pc, prompts, results, failures, last, exit>>

\* compare_reference_case: the engine is loaded, the case generated, captured
\* and compared.
CompareCase ==
    /\ pc = "compare" /\ cases # <<>> /\ LayersEnabled(ExpectationOf(Head(cases)).required)
    /\ last = NoComparison /\ ~opts.debug
    /\ \E g \in Candidates :
           LET meta == Head(cases)
               file == CHOOSE f \in FileOf(meta) : TRUE
           IN /\ GeometryOK(g)
              /\ meta.category = "canonical" => Len(g.tokens) = Len(g.logits)
              /\ last' = [case |-> <<file, meta>>, candidate |-> <<g>>, verdict |-> <<Verdict(file, meta, g)>>]
    /\ UNCHANGED <<corpus, manifest, dir, opts, pc, prompts, tracker, cases, results, failures, exit>>

\* run_prepared_comparisons records the outcome.
RecordCase ==
    /\ last # NoComparison
    /\ LET verdict == last.verdict[1]
           id == {FixtureId(Head(cases))}
       IN /\ tracker' = IF verdict.l1 /\ verdict.l2 THEN Record(tracker, "compared", id)
                        ELSE Record(Record(tracker, "compared", id), "failed", id)
          /\ results' = Append(results, verdict)
    /\ cases' = Tail(cases) /\ last' = NoComparison
    /\ UNCHANGED <<corpus, manifest, dir, opts, pc, prompts, failures, exit>>

MutCaseFails ==
    /\ pc = "compare" /\ cases # <<>> /\ LayersEnabled(ExpectationOf(Head(cases)).required)
    /\ last = NoComparison
    /\ failures' = failures \cup {FixtureId(Head(cases))}
    /\ cases' = Tail(cases)
    /\ UNCHANGED <<corpus, manifest, dir, opts, pc, prompts, tracker, results, last, exit>>

\* The comparison returns an error: the engine cannot be loaded, generation or
\* capture fails, the logits have another geometry, or --debug asks for L3,
\* which does not exist.
CaseFails ==
    /\ pc = "compare" /\ cases # <<>> /\ LayersEnabled(ExpectationOf(Head(cases)).required)
    /\ last = NoComparison
    /\ tracker' = Record(tracker, "failed", {FixtureId(Head(cases))})
    /\ failures' = failures \cup {FixtureId(Head(cases))}
    /\ cases' = Tail(cases)
    /\ UNCHANGED <<corpus, manifest, dir, opts, pc, prompts, results, last, exit>>

-----------------------------------------------------------------------------
(* report.rs *)

\* LifecycleTotals::release_passed, on the counters the report holds.
ReleasePassed(t) ==
    LET n == Cardinality(t.expected)
    IN /\ n > 0 /\ Cardinality(t.discovered) = n /\ Cardinality(t.generated) = n
       /\ Cardinality(t.compared) = n /\ Cardinality(t.expected \ (t.discovered \cap t.generated)) = 0
       /\ Cardinality(t.unexpected) = 0 /\ Cardinality(t.skipped) = 0 /\ Cardinality(t.failed) = 0

\* reference_passed: something was compared and all of it passed.
ReferencePassed == results # <<>> /\ \A k \in DOMAIN results : results[k].l1 /\ results[k].l2

Report ==
    /\ pc = "compare" /\ cases = <<>>
    /\ exit' = IF ReferencePassed /\ ReleasePassed(tracker) THEN "pass" ELSE "fail"
    /\ pc' = "done"
    /\ UNCHANGED <<corpus, manifest, dir, opts, prompts, tracker, cases, results, failures, last>>

GateNext == Load \/ Preflight \/ SkipCase \/ CompareCase \/ RecordCase \/ CaseFails \/ Report

GateSpec == GateInit /\ [][GateNext]_gateVars

-----------------------------------------------------------------------------
(* Properties. *)

\* A file that is what its metadata says.
Sound(x) == \E f \in FileOf(x) : f.sha = x.sha /\ FixtureLoads(f, x)

\* The gate fails closed: it passes only if every prompt of the corpus is
\* covered by both oracles, every expected fixture is on disk and sound, every
\* baseline was calibrated, every reference was compared and passed, and the
\* directory holds nothing else.
PassMeansEverything ==
    exit = "pass" =>
        /\ ExpectedIds = {[prompt |-> p.id, oracle |-> o] : p \in prompts, o \in Oracles}
        /\ \A e \in ToSet(manifest.expected) :
               /\ PromptOf(e.prompt).family = e.family
               /\ \E x \in ToSet(manifest.fixtures) : FixtureId(x) = FixtureId(e) /\ Sound(x)
               /\ e.role = "baseline" => FixtureId(e) \in ToSet(manifest.calibrated)
        /\ Len(results) = Cardinality({e \in ToSet(manifest.expected) : e.role = "reference"})
        /\ {f.name : f \in dir.files} = ExpectedIds

\* A report with an error message is never a pass.
MessagesFailTheGate == exit = "pass" => failures = {}

\* No expected fixture gets lost: at the end each was compared, skipped or
\* failed, or is counted as missing.
NothingIsLost ==
    exit \in {"pass", "fail"} =>
        \A id \in ExpectedIds :
            \/ id \in tracker.compared \cup tracker.skipped \cup tracker.failed
            \/ id \notin tracker.discovered \/ id \notin tracker.generated
            \/ id.oracle = "vllm" /\ id \notin ToSet(manifest.calibrated)

\* What "the same prefix" means: the tokens before position k agree.
SharedPrefix(file, g, k) == \A j \in 1..(k - 1) : j <= Len(g.tokens) /\ file.tokens[j] = g.tokens[j]

\* A case passes exactly when, at every position whose prefix is shared, the
\* candidate chose the reference token or one within the near-tie gap, both
\* stop together if they never differ, and (for a canonical case) all logits of
\* all these positions are finite and within the tolerance.
VerdictIsSamePrefix ==
    last # NoComparison =>
        LET file == last.case[1]
            meta == last.case[2]
            g == last.candidate[1]
            both == 1..Min({Len(file.tokens), Len(g.tokens)})
            shared == {k \in both : SharedPrefix(file, g, k)}
            near(k) == /\ meta.category = "canonical"
                       /\ ~Exceeds(g.logits[k][g.tokens[k] + 1], g.logits[k][file.tokens[k] + 1],
                                   [atol |-> manifest.policy.gap])
            l1 == /\ \A k \in shared : g.tokens[k] = file.tokens[k] \/ near(k)
                  /\ (\A k \in both : g.tokens[k] = file.tokens[k]) => Len(g.tokens) = Len(file.tokens)
            l2 == meta.category = "canonical" =>
                      \A k \in shared, v \in 1..Vocab :
                          ~Exceeds(g.logits[k][v], file.logits[k][v], manifest.policy)
        IN last.verdict[1] = [l1 |-> l1, l2 |-> l2]

\* The gate fails closed and accounts for everything: a pass means that all
\* was compared without a message, and no expected fixture drops out of the
\* report on the way.
GateFailsClosed == PassMeansEverything /\ MessagesFailTheGate /\ NothingIsLost

=============================================================================
