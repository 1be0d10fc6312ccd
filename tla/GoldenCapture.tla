---------------------------- MODULE GoldenCapture ----------------------------
(***************************************************************************)
(* Raw-logit capture.  The consumer (vllm-oxide-test/src/capture.rs) makes *)
(* a private workspace, takes a process-wide lock, names the workspace and *)
(* its call in three environment variables and calls LLM::generate.  The   *)
(* producer (golden_capture.rs) reads the variables, spools the sampled    *)
(* rows of each request as the engine interleaves them, writes them        *)
(* request by request into one staged artifact, checks it and publishes it *)
(* without replacement.  The consumer parses it again with its own code.   *)
(* The release gate passes one prompt; the protocol is for any number.     *)
(***************************************************************************)
EXTENDS DiagnosticCall, SeqOrder

CONSTANTS
    Threads,    \* threads of the consumer process
    Vocabulary, \* token values
    MaxCalls    \* capture calls of the process (bound)

ASSUME CaptureShape ==
    /\ MaxCalls \in Nat \ {0}
    /\ IsFiniteSet(Threads) /\ IsFiniteSet(Vocabulary)
    /\ "free" \notin Threads

VARIABLES
    lock,       \* holder of CAPTURE_ENV_LOCK, or "free"
    poisoned,   \* a panic unwound through the holder
    captureEnv,        \* the call named by the environment variables, 0 if none
    nonce,      \* WORKSPACE_NONCE: calls begun so far
    thread,     \* per thread: pc, its call, what the call returned
    dirs,       \* per call: the workspace; file 0 is the stage, i the spool of input i
    capture,    \* the CaptureSession of the call that runs
    sampled,    \* per request: the tokens the engine sampled, in order
    preserved   \* per thread: the preserved destination, <<>> if absent

capVars == <<lock, poisoned, captureEnv, nonce, thread, dirs, capture, sampled, preserved>>

CallIds == 1..MaxCalls

\* How a call is over; a thread that panicked makes no further call.
Over == {"ok", "err", "panic", "poisoned", "occupied"}

\* The stable ids of a call: a used engine does not start at 0 again.
RequestId(call, i) == (call - 1) * Requests + i - 1

NoDir == [exists |-> FALSE, files |-> {}, artifact |-> <<>>]

NoSession == [call |-> 0, spools |-> <<>>, published |-> FALSE]

CapInit ==
    /\ lock = "free" /\ poisoned = FALSE /\ captureEnv = 0 /\ nonce = 0
    /\ thread = [t \in Threads |-> [pc |-> "idle", call |-> 0, result |-> <<>>]]
    /\ dirs = [c \in CallIds |-> NoDir]
    /\ capture = NoSession
    /\ sampled = [i \in Inputs |-> <<>>]
    /\ preserved = [t \in Threads |-> <<>>]

-----------------------------------------------------------------------------
\* CaptureWorkspace::drop removes the artifact, then the directory if that
\* leaves it empty.
Emptied(dir) == IF dir.files = {} THEN NoDir ELSE [dir EXCEPT !.artifact = <<>>]

\* CaptureSession::drop removes the spools and the unpublished stage.
DropSession(dir) == [dir EXCEPT !.files = {}]

MutReleaseEnvironment(t) == lock' = "free" /\ UNCHANGED captureEnv

\* CaptureEnvironment::drop: the variables, then the guard.
ReleaseEnvironment(t) ==
    lock' = "free" /\ captureEnv' = 0

\* An error leaves the call: session, environment, workspace are dropped.
Returned(t, how) == [thread EXCEPT ![t].pc = how]

MutUnwind(t, how) ==
    /\ thread' = Returned(t, how)
    /\ captureEnv' = 0 /\ UNCHANGED lock
    /\ dirs' = [dirs EXCEPT ![thread[t].call] = Emptied(DropSession(@))]
    /\ capture' = NoSession /\ sampled' = [i \in Inputs |-> <<>>]
    /\ UNCHANGED <<nonce, preserved>>

Unwind(t, how) ==
    /\ thread' = Returned(t, how)
    /\ ReleaseEnvironment(t)
    /\ dirs' = [dirs EXCEPT ![thread[t].call] = Emptied(DropSession(@))]
    /\ capture' = NoSession /\ sampled' = [i \in Inputs |-> <<>>]
    /\ UNCHANGED <<nonce, preserved>>

\* unique_call_id and CaptureWorkspace::new, which may find no directory to
\* create.
Begin(t) ==
    /\ thread[t].pc \in {"idle"} \cup (Over \ {"panic"}) /\ nonce < MaxCalls
    /\ nonce' = nonce + 1
    /\ \E created \in BOOLEAN :
         /\ thread' = [thread EXCEPT ![t] = [pc     |-> IF created THEN "locking" ELSE "err",
                                            call   |-> nonce + 1,
                                            result |-> <<>>]]
         /\ dirs' = [dirs EXCEPT ![nonce + 1] = [NoDir EXCEPT !.exists = created]]
    /\ UNCHANGED <<lock, poisoned, captureEnv, capture, sampled, preserved>>

\* CAPTURE_ENV_LOCK.lock() blocks while another thread holds it.
LockFree(t) == lock = "free"

\* CaptureEnvironment::install waits for the lock; a poisoned lock and a
\* reserved variable that is already set are errors.
Install(t) ==
    /\ thread[t].pc = "locking" /\ LockFree(t)
    /\ IF poisoned \/ captureEnv # 0
       THEN /\ thread' = Returned(t, IF poisoned THEN "poisoned" ELSE "occupied")
            /\ dirs' = [dirs EXCEPT ![thread[t].call] = Emptied(@)]
            /\ UNCHANGED <<lock, captureEnv>>
       ELSE /\ lock' = t /\ captureEnv' = thread[t].call
            /\ thread' = [thread EXCEPT ![t].pc = "prepare"]
            /\ UNCHANGED dirs
    /\ UNCHANGED <<poisoned, nonce, capture, sampled, preserved>>

\* CaptureSession::from_env and bind_requests: the stage and one spool per
\* request, in the directory the environment names.  Either may fail midway.
PrepareCapture(t) ==
    /\ thread[t].pc = "prepare" /\ captureEnv # 0 /\ dirs[captureEnv].exists /\ dirs[captureEnv].artifact = <<>>
    /\ dirs' = [dirs EXCEPT ![captureEnv].files = {0} \cup Inputs]
    /\ capture' = [call |-> captureEnv, spools |-> [i \in Inputs |-> <<>>], published |-> FALSE]
    /\ sampled' = [i \in Inputs |-> <<>>]
    /\ thread' = [thread EXCEPT ![t].pc = "stepping"]
    /\ UNCHANGED <<lock, poisoned, captureEnv, nonce, preserved>>

-----------------------------------------------------------------------------
StillSampling == {i \in Inputs : Len(sampled[i]) < Tokens}

\* EngineCore::step_with_capture: one row of the logits tensor per planned
\* request that samples, in plan order.
LogitsTensor(call, planned) ==
    LET order == InOrder(planned) IN [n \in DOMAIN order |-> <<call, order[n], Len(sampled[order[n]])>>]

\* The tensor row that belongs to request i of the step.
MutTensorRow(planned, i) == 1

TensorRow(planned, i) == Cardinality({j \in planned : j <= i})

HostRow(call, planned, i, token) ==
    [id |-> RequestId(call, i), step |-> Len(sampled[i]), token |-> token,
     logits |-> LogitsTensor(call, planned)[TensorRow(planned, i)]]

\* record_engine_step, record_host_rows: each row goes to its request's spool.
RecordRows(t) ==
    /\ thread[t].pc = "stepping" /\ StillSampling # {}
    /\ \E planned \in (SUBSET StillSampling) \ {{}}, token \in Vocabulary :
         /\ sampled' = [i \in Inputs |-> IF i \in planned THEN Append(sampled[i], token) ELSE sampled[i]]
         /\ capture' = [capture EXCEPT !.spools =
              [i \in Inputs |-> IF i \in planned THEN Append(@[i], HostRow(capture.call, planned, i, token))
                                ELSE @[i]]]
    /\ UNCHANGED <<lock, poisoned, captureEnv, nonce, thread, dirs, preserved>>

\* Any `?` of generate before the artifact is published: an unusable directory
\* or spool, a failed step, a non-finite or misplaced row, a full disk, a
\* removal or rename that fails.
GenerateFails(t) ==
    /\ thread[t].pc \in {"prepare", "stepping"}
    /\ Unwind(t, "err")
    /\ UNCHANGED poisoned

\* A panic unwinds in the same order and poisons the lock its guard held.
GeneratePanics(t) ==
    /\ thread[t].pc = "stepping"
    /\ Unwind(t, "panic")
    /\ poisoned' = TRUE

-----------------------------------------------------------------------------
(* finish *)

Bindings(call) == [i \in Inputs |-> [position |-> i, id |-> RequestId(call, i)]]

\* Which spool and which of its rows each row of the artifact comes from.
BodyOrder == FlattenSeq([i \in Inputs |-> [k \in DOMAIN capture.spools[i] |-> <<i, k>>]])

ArtifactLines ==
    LET order == BodyOrder
        Body(n) == LET row == capture.spools[order[n][1]][order[n][2]]
                   IN [kind |-> "row", index |-> n - 1, position |-> order[n][1], id |-> row.id,
                       token |-> row.token, step |-> row.step, logits |-> row.logits]
    IN <<[kind |-> "header", call |-> capture.call, requests |-> Bindings(capture.call)]>>
       \o [n \in DOMAIN order |-> Body(n)]
       \o <<[kind |-> "trailer", count |-> Len(order)]>>

\* RequestOutput of each input: its id and its tokens.
Outputs(call) ==
    [i \in Inputs |-> [id |-> RequestId(call, i), tokens |-> sampled[i]]]

\* validate_artifact, the producer's own check of the staged file.
SelfCheck(lines, call, outputs) ==
    LET rows == SubSeq(lines, 2, Len(lines) - 1)
        Earlier(n) == {m \in 1..(n - 1) : rows[m].position = rows[n].position}
        TokensOf(i) == LET mine == InOrder({n \in DOMAIN rows : rows[n].position = i})
                       IN [k \in DOMAIN mine |-> rows[mine[k]].token]
    IN /\ lines[1] = [kind |-> "header", call |-> call, requests |-> Bindings(call)]
       /\ \A n \in DOMAIN rows :
            /\ rows[n].kind = "row" /\ rows[n].index = n - 1
            /\ n > 1 => rows[n - 1].position <= rows[n].position
            /\ rows[n].position \in Inputs /\ rows[n].id = outputs[rows[n].position].id
            /\ rows[n].step = Cardinality(Earlier(n))
       /\ Last(lines) = [kind |-> "trailer", count |-> Len(rows)]
       /\ \A i \in Inputs : TokensOf(i) = outputs[i].tokens

\* Spools removed, stage renamed onto the fresh destination.
FinishCapture(t) ==
    /\ thread[t].pc = "stepping" /\ StillSampling = {}
    /\ LET c == capture.call
       IN IF SelfCheck(ArtifactLines, c, Outputs(c)) /\ dirs[c].artifact = <<>>
          THEN /\ dirs' = [dirs EXCEPT ![c] = [exists |-> TRUE, files |-> {}, artifact |-> ArtifactLines]]
               /\ capture' = [capture EXCEPT !.published = TRUE]
               /\ thread' = [thread EXCEPT ![t].pc = "generated"]
               /\ UNCHANGED <<lock, captureEnv, nonce, sampled, preserved>>
          ELSE Unwind(t, "err")
    /\ UNCHANGED poisoned

\* generate has returned its outputs: drop(capture_env).
DropEnvironment(t) ==
    /\ thread[t].pc = "generated"
    /\ ReleaseEnvironment(t)
    /\ capture' = NoSession
    /\ thread' = [thread EXCEPT ![t].pc = "reading", ![t].result = Outputs(thread[t].call)]
    /\ sampled' = [i \in Inputs |-> <<>>]
    /\ UNCHANGED <<poisoned, nonce, dirs, preserved>>

-----------------------------------------------------------------------------
\* The body rows of a parsed artifact.
BodyRows(lines) == SubSeq(lines, 2, Len(lines) - 1)

\* read_and_validate_capture, the consumer's parser: the header is this call's,
\* the rows of input p follow those of the inputs before it, and each row
\* carries the token that the public output has at its completion step.
ConsumerAccepts(lines, call, outputs) ==
    /\ lines # <<>> /\ lines[1].kind = "header" /\ lines[1].call = call
    /\ lines[1].requests = [i \in DOMAIN outputs |-> [position |-> i, id |-> outputs[i].id]]
    /\ Last(lines).kind = "trailer" /\ Last(lines).count = Len(BodyRows(lines))
    /\ LET rows == BodyRows(lines)
           Before(p) == Cardinality({n \in DOMAIN rows : rows[n].position < p})
       IN /\ \A n \in DOMAIN rows :
               LET p == rows[n].position
               IN /\ rows[n].kind = "row" /\ rows[n].index = n - 1
                  /\ p \in DOMAIN outputs /\ rows[n].id = outputs[p].id
                  /\ rows[n].step = n - 1 - Before(p)
                  /\ rows[n].step < Len(outputs[p].tokens) /\ rows[n].token = outputs[p].tokens[rows[n].step + 1]
          /\ \A i \in DOMAIN outputs : Before(i + 1) - Before(i) = Len(outputs[i].tokens)

\* The CapturedGeneration: the logits of all rows in artifact order.
Captured(lines) == LET rows == BodyRows(lines) IN [n \in DOMAIN rows |-> rows[n].logits]

FreshDestination(t) == preserved[t] = <<>>

\* The artifact is validated, linked to the preserved destination when one is
\* asked for, and the workspace dropped.
ReadCapture(t) ==
    /\ thread[t].pc = "reading"
    /\ LET c == thread[t].call
           lines == dirs[c].artifact
           accepted == ConsumerAccepts(lines, c, thread[t].result)
       IN /\ \E preserve \in BOOLEAN :
               IF ~accepted \/ (preserve /\ ~FreshDestination(t))
               THEN thread' = Returned(t, "err") /\ UNCHANGED preserved
               ELSE /\ thread' = [thread EXCEPT ![t].pc = "ok", ![t].result = Captured(lines)]
                    /\ preserved' = IF preserve THEN [preserved EXCEPT ![t] = lines] ELSE preserved
          /\ dirs' = [dirs EXCEPT ![c] = Emptied(@)]
    /\ UNCHANGED <<lock, poisoned, captureEnv, nonce, capture, sampled>>

ThreadStep(t) == Install(t) \/ PrepareCapture(t) \/ RecordRows(t) \/ GenerateFails(t) \/ GeneratePanics(t)
                 \/ FinishCapture(t) \/ DropEnvironment(t) \/ ReadCapture(t)

CapNext == \E t \in Threads : Begin(t) \/ ThreadStep(t)

\* A thread inside a call keeps running.  The mutex need not be fair: the calls
\* that can overtake a waiting one are finitely many.
CapFairness == \A t \in Threads : WF_capVars(ThreadStep(t))

-----------------------------------------------------------------------------
(* Properties *)

\* A successful capture returns, request by request, exactly the rows and the
\* tokens that its own call sampled, however the engine interleaved them and
\* whatever other threads captured meanwhile.
CaptureIsFaithful ==
    \A t \in Threads : thread[t].pc = "ok" =>
      thread[t].result = FlattenSeq([i \in Inputs |-> [k \in 1..Tokens |-> <<thread[t].call, i, k - 1>>]])

\* A capture whose requests all finished is never refused: the request-major
\* artifact satisfies the producer's check and the consumer's parser alike.
CompleteCaptureAccepted ==
    \A t \in Threads : thread[t].pc = "stepping" /\ StillSampling = {} =>
      /\ SelfCheck(ArtifactLines, capture.call, Outputs(capture.call))
      /\ ConsumerAccepts(ArtifactLines, capture.call, Outputs(capture.call))

\* The variables are set only while their owner holds the lock, and they name
\* the owner's call: nobody else's generate can write into a workspace.
EnvironmentOwned ==
    /\ lock = "free" => captureEnv = 0
    /\ \A t \in Threads : lock = t => captureEnv = thread[t].call

\* A call that returned, in whichever way, left no file and no directory.
WorkspaceRemoved ==
    \A c \in CallIds :
      dirs[c].exists => \E t \in Threads : thread[t].call = c /\ thread[t].pc \notin Over

\* Contention alone never fails a call: the reserved variables are found set
\* only if something other than a capture of this process has set them.
NeverOccupied == \A t \in Threads : thread[t].pc # "occupied"

\* Every call returns: the lock is never left behind, not by an error and not
\* by a panic.
CallsReturn ==
    \A t \in Threads : thread[t].pc = "locking" ~> thread[t].pc \in Over
=============================================================================
