----------------------------- MODULE NvmlMonitor -----------------------------
(***************************************************************************)
(* ActiveMemoryMonitor of benchmark/nvml_monitor.rs: a worker thread that  *)
(* samples GPU memory every Interval, and the benchmark thread that starts *)
(* it, waits for a baseline, asks it to stop, waits for its                *)
(* acknowledgement with a deadline, joins it and saves the record.  They   *)
(* share the trace behind a mutex and three one-place channels.  Time is   *)
(* a tick counter that both threads read; a deadline of the benchmark      *)
(* thread (five seconds) may expire at any moment the answer is missing.   *)
(***************************************************************************)
EXTENDS NvmlSession, Integers, SequencesExt, FiniteSetsExt

CONSTANTS
    Interval,       \* INTERVAL: ticks between an observation and the next query
    Limit,          \* LIMIT: ticks a completion gap or one API call may take
    TicksPerMs,     \* ticks in the millisecond the record is projected to
    SampleLimit,    \* SAMPLE_LIMIT: capacity of the raw sample storage
    MaxTime         \* bound on the clock

ASSUME ClockUnits ==
    /\ {Interval, Limit, TicksPerMs, SampleLimit, MaxTime} \subseteq Nat \ {0}
    /\ TicksPerMs <= Interval /\ Interval <= Limit /\ Limit % TicksPerMs = 0

VARIABLES
    now,        \* origin.elapsed()
    trace,      \* the shared Trace
    worker,     \* the sampling thread: control point and locals
    stop, ready, done,      \* channels: None or the one message sent
    monitor,    \* ActiveMemoryMonitor, and the benchmark thread's control point
    files       \* what was written into the record directory

channels == <<stop, ready, done>>
monVars == <<now, trace, worker, channels, monitor, files, sessionVars>>

None == -1
NoError == "none"

NewTrace ==
    [raw |-> <<>>, projected |-> <<>>, baseline |-> None, maxGap |-> 0, finishRequested |-> None,
     finalEnter |-> None, finalObserved |-> None, primary |-> NoError, shutdown |-> "pending",
     finished |-> FALSE]

NewWorker ==
    [pc |-> "unborn", next |-> 0, requested |-> None, enter |-> 0, returned |-> 0,
     reply |-> "none", final |-> FALSE, readySent |-> FALSE]

NewMonitor ==
    [pc |-> "idle", finishRequested |-> None, joined |-> FALSE, trace |-> NewTrace,
     timedOut |-> FALSE, failure |-> NoError, viaFinish |-> FALSE, saved |-> FALSE, result |-> "none"]

MonInit ==
    /\ now = 0 /\ trace = NewTrace /\ worker = NewWorker /\ monitor = NewMonitor
    /\ stop = None /\ ready = "none" /\ done = FALSE /\ files = {}
    /\ SessionInit

\* observed_interval: a positive gap of at most Limit, rounded up to milliseconds.
ObservedInterval(gap) ==
    IF gap = 0 \/ gap > Limit THEN None ELSE (gap + TicksPerMs - 1) \div TicksPerMs

Elapsed(observed, baseline) == (observed - baseline) \div TicksPerMs

-----------------------------------------------------------------------------
(* The worker thread *)

\* The loop is left; its locals are dead.
Leaving == [NewWorker EXCEPT !.pc = "close", !.readySent = worker.readySent]

Fails(error) == worker' = Leaving /\ trace' = [trace EXCEPT !.primary = error]

\* The factory runs on the worker: an error or a panic ends the thread without
\* a session, and the waiting benchmark thread is told.
WorkerOpen ==
    /\ worker.pc = "open"
    /\ \E step \in OpenSteps \cup {"panic"} :
         IF step = "panic" THEN UNCHANGED sessionVars ELSE SessionOpen(step)
    /\ \/ /\ session'.library = "open"
          /\ worker' = [worker EXCEPT !.pc = "init"]
          /\ UNCHANGED <<trace, ready, done>>
       \/ /\ session'.library # "open"
          /\ trace' = [trace EXCEPT !.primary = "factory"]
          /\ ready' = "err"
          /\ worker' = [worker EXCEPT !.pc = "ended"]
          /\ done' = TRUE
    /\ UNCHANGED <<now, stop, monitor, files>>

WorkerInitialize ==
    /\ worker.pc = "init"
    /\ \E step \in InitSteps :
         /\ SessionInitialize(step)
         /\ IF step = "initialized"
            THEN worker' = [worker EXCEPT !.pc = "wait", !.next = now] /\ UNCHANGED trace
            ELSE Fails("initialize")
    /\ UNCHANGED <<now, channels, monitor, files>>

\* recv_timeout(next - now): the stop request, or the time of the next sample.
WorkerWait ==
    /\ worker.pc = "wait"
    /\ worker.requested # None \/ stop # None \/ now >= worker.next
    /\ worker' = [worker EXCEPT !.pc = "sleep", !.requested = IF @ = None THEN stop ELSE @]
    /\ UNCHANGED <<now, trace, channels, monitor, files, sessionVars>>

StorageFull == Len(trace.raw) = SampleLimit

\* After the sleep the channel is polled once more, then the call is entered
\* in the trace before it is made: a call that never returns is on record.
WorkerEnter ==
    /\ worker.pc = "sleep" /\ now >= worker.next
    /\ LET requested == IF worker.requested = None THEN stop ELSE worker.requested
           seen == [trace EXCEPT !.finishRequested = requested]
           final == requested # None /\ now >= requested
       IN IF StorageFull
          THEN /\ trace' = [seen EXCEPT !.primary = "storage"]
               /\ worker' = Leaving
          ELSE /\ trace' = [seen EXCEPT !.raw = Append(@,
                     [enter |-> now, returned |-> None, observed |-> None, valid |-> FALSE, final |-> final])]
               /\ worker' = [worker EXCEPT !.pc = "query", !.requested = requested,
                                           !.enter = now, !.final = final]
    /\ UNCHANGED <<now, channels, monitor, files, sessionVars>>

\* nvmlDeviceGetMemoryInfo returns after any time, with memory that adds up,
\* memory that does not, or an error code; or it unwinds and leaves the entry.
WorkerQuery ==
    /\ worker.pc = "query"
    /\ \/ \E reply \in {"valid", "code", "accounting"} :
            /\ worker' = [worker EXCEPT !.pc = "observe", !.returned = now, !.reply = reply]
            /\ UNCHANGED trace
       \/ Fails("panic")
    /\ UNCHANGED <<now, channels, monitor, files, sessionVars>>

\* The samples before the pending entry, which the completed one replaces.
EarlierSamples == Front(trace.raw)

MutRefusal(sample, gap) ==
    IF gap # None /\ ObservedInterval(gap) = None THEN "gap"
    ELSE IF ~sample.valid THEN "reply"
    ELSE NoError

\* Why retain_sample refuses a completed sample: the gap to the previous
\* observation, the wall span of the call, the reply (validate_memory).
Refusal(sample, gap) ==
    IF gap # None /\ ObservedInterval(gap) = None THEN "gap"
    ELSE IF sample.returned - sample.enter > Limit THEN "span"
    ELSE IF ~sample.valid THEN "reply"
    ELSE NoError

\* retain_sample: the sample stays on record whatever is wrong with it, and
\* only an accepted one is projected to milliseconds since the baseline.
Retained(sample) ==
    LET before == EarlierSamples
        last == IF before = <<>> THEN None ELSE Last(before).observed
        gap == IF last = None \/ sample.observed = None THEN None ELSE sample.observed - last
        refusal == Refusal(sample, gap)
        base == IF trace.baseline = None THEN sample.observed ELSE trace.baseline
    IN [trace EXCEPT !.raw = Append(before, sample), !.maxGap = Max({@, gap}), !.primary = refusal,
                     !.baseline = IF refusal = NoError THEN base ELSE @,
                     !.projected = IF refusal = NoError
                                   THEN Append(@, Elapsed(sample.observed, base)) ELSE @]

\* sync_channel(1): a send into the empty channel does not wait for a receiver.
MutReadyHasRoom == monitor.pc = "baseline"

ReadyHasRoom == ready = "none"

WorkerObserve ==
    /\ worker.pc = "observe"
    /\ LET valid == worker.reply = "valid"
           kept == Retained([enter |-> worker.enter, returned |-> worker.returned, valid |-> valid,
                             observed |-> IF valid THEN now ELSE None, final |-> worker.final])
           good == kept.primary = NoError
       IN /\ good /\ ~worker.readySent => ReadyHasRoom
          /\ trace' = IF good /\ worker.final
                      THEN [kept EXCEPT !.finalEnter = worker.enter, !.finalObserved = now]
                      ELSE kept
          /\ ready' = IF good THEN "ok" ELSE ready
          /\ worker' = IF good /\ ~worker.final
                       THEN [NewWorker EXCEPT !.pc = "wait", !.next = now + Interval, !.readySent = TRUE,
                                              !.requested = worker.requested]
                       ELSE [Leaving EXCEPT !.readySent = @ \/ good]
    /\ UNCHANGED <<now, stop, done, monitor, files, sessionVars>>

\* Shutdown after the last query; the acknowledgement is the closure's last
\* act, and a baseline that never came is reported as an error.
WorkerClose ==
    /\ worker.pc = "close"
    /\ SessionClose
    /\ \E closed \in Outcomes :
         trace' = [trace EXCEPT !.shutdown = closed, !.finished = TRUE]
    /\ ~worker.readySent => ReadyHasRoom
    /\ ready' = IF worker.readySent THEN ready ELSE "err"
    /\ worker' = [worker EXCEPT !.pc = "drop"]
    /\ UNCHANGED <<now, stop, done, monitor, files>>

WorkerDrop ==
    /\ worker.pc = "drop"
    /\ SessionDrop
    /\ worker' = [worker EXCEPT !.pc = "ended"]
    /\ done' = TRUE
    /\ UNCHANGED <<now, trace, stop, ready, monitor, files>>

WorkerStep == WorkerOpen \/ WorkerInitialize \/ WorkerWait \/ WorkerEnter \/ WorkerQuery
              \/ WorkerObserve \/ WorkerClose \/ WorkerDrop

-----------------------------------------------------------------------------
(* The benchmark thread *)

\* start: a fresh record directory, the channels and the worker thread.
Start ==
    /\ monitor.pc = "idle"
    /\ \/ /\ monitor' = [monitor EXCEPT !.pc = "baseline"]
          /\ worker' = [worker EXCEPT !.pc = "open"]
          /\ files' = {"directory"}
       \/ /\ monitor' = [monitor EXCEPT !.pc = "returned", !.result = "err", !.saved = TRUE]
          /\ files' \in {{}, {"directory"}}      \* directory exists already, or the spawn fails
          /\ UNCHANGED worker
    /\ UNCHANGED <<now, trace, channels, sessionVars>>

\* baseline.recv_timeout: the answer, or the deadline while there is none.
AwaitBaseline ==
    /\ monitor.pc = "baseline"
    /\ \/ ready = "ok" /\ monitor' = [monitor EXCEPT !.pc = "running"]
       \/ /\ ready # "ok"      \* the worker's error, or the deadline of five seconds
          /\ monitor' = [monitor EXCEPT !.pc = "close", !.failure = "baseline"]
    /\ UNCHANGED <<now, trace, worker, channels, files, sessionVars>>

\* finish() after generate, or Drop when the benchmark fails in between.
Finish ==
    /\ monitor.pc = "running"
    /\ monitor' \in {[monitor EXCEPT !.pc = "close", !.viaFinish = TRUE],
                     [monitor EXCEPT !.pc = "close", !.failure = "dropped"]}
    /\ UNCHANGED <<now, trace, worker, channels, files, sessionVars>>

\* request_stop: the sender is taken, so the request is made once.
RequestStop ==
    /\ monitor.pc = "close"
    /\ stop' = now
    /\ monitor' = [monitor EXCEPT !.pc = "acknowledge", !.finishRequested = now]
    /\ UNCHANGED <<now, trace, worker, ready, done, files, sessionVars>>

\* done.recv_timeout: past the deadline a snapshot of the live trace is kept
\* and the failure is decided; the join below still waits for the worker.
AwaitDone ==
    /\ monitor.pc = "acknowledge"
    /\ \/ /\ done
          /\ monitor' = [monitor EXCEPT !.pc = "join"]
          /\ UNCHANGED files
       \/ /\ ~done
          /\ monitor' = [monitor EXCEPT !.pc = "join", !.timedOut = TRUE,
                !.failure = IF @ = NoError THEN "ack_timeout" ELSE @]
          /\ files' \in {files, files \cup {"worker-timeout"}}
    /\ UNCHANGED <<now, trace, worker, channels, sessionVars>>

Join ==
    /\ monitor.pc = "join" /\ worker.pc = "ended"
    /\ monitor' = [monitor EXCEPT !.pc = "evidence", !.joined = TRUE, !.trace = trace]
    /\ UNCHANGED <<now, trace, worker, channels, files, sessionVars>>

\* MemoryMonitorEvidence::validate over the projected samples.
ValidEvidence(interval, samples) ==
    /\ interval \in 1..(Limit \div TicksPerMs)
    /\ Len(samples) >= 2 /\ samples[1] = 0
    /\ \A i \in 2..Len(samples) : samples[i] - samples[i - 1] \in 1..interval

\* evidence(): the first reason to refuse the record, in the order of the code.
Evidence ==
    LET t == monitor.trace
    IN IF monitor.failure # NoError THEN monitor.failure
       ELSE IF t.primary # NoError THEN t.primary
       ELSE IF t.shutdown # "ok" \/ ~monitor.joined THEN "shutdown"
       ELSE IF t.finishRequested # monitor.finishRequested \/ t.finalEnter < monitor.finishRequested
               \/ t.finalObserved = None THEN "final"
       ELSE IF ~ValidEvidence(ObservedInterval(t.maxGap), t.projected) THEN "samples"
       ELSE NoError

\* save_result: record.json, or preservation-error.json when that write
\* fails, in which case no success is reported.
SaveResult ==
    /\ monitor.pc = "evidence"
    /\ LET refusal == IF monitor.viaFinish THEN Evidence ELSE monitor.failure
       IN \/ /\ files' = files \cup {"record"}
             /\ monitor' = [monitor EXCEPT !.pc = "returned", !.saved = TRUE, !.failure = refusal,
                   !.result = IF refusal = NoError THEN "ok" ELSE "err"]
          \/ /\ files' \in {files, files \cup {"preservation-error"}}
             /\ monitor' = [monitor EXCEPT !.pc = "returned", !.saved = TRUE, !.failure = refusal,
                   !.result = "err"]
    /\ UNCHANGED <<now, trace, worker, channels, sessionVars>>

MonitorStep == AwaitBaseline \/ RequestStop \/ AwaitDone \/ Join \/ SaveResult

\* Only instants of the sampling loop are compared, so the clock stands still
\* outside it; past MaxTime it only runs to the sample the worker sleeps for.
Tick ==
    /\ worker.pc \in {"wait", "sleep", "query", "observe"}
    /\ now < MaxTime \/ (worker.pc \in {"wait", "sleep"} /\ now < worker.next)
    /\ now' = now + 1
    /\ UNCHANGED <<trace, worker, channels, monitor, files, sessionVars>>

MonNext == WorkerStep \/ Start \/ Finish \/ MonitorStep \/ Tick

\* Threads are scheduled, the clock runs and a running benchmark reaches its
\* end; an NVML call is assumed to return (the code relies on an outer process
\* guard for one that does not).
MonFairness == WF_monVars(WorkerStep) /\ WF_monVars(Finish) /\ WF_monVars(MonitorStep) /\ WF_monVars(Tick)

MonSpec == MonInit /\ [][MonNext]_monVars /\ MonFairness

-----------------------------------------------------------------------------
(* Properties *)

\* A record is accepted only if it covers the measured call without a hole:
\* every call returned valid memory, consecutive observations are at most
\* Limit apart, and the last query was entered after the stop request.
AcceptedCoversCall ==
    monitor.result = "ok" =>
      LET raw == monitor.trace.raw
      IN /\ \A i \in DOMAIN raw : raw[i].valid /\ raw[i].returned - raw[i].enter <= Limit
         /\ \A i \in 2..Len(raw) : raw[i].observed - raw[i - 1].observed \in 1..Limit
         /\ Len(raw) >= 2 /\ raw[1].enter <= monitor.finishRequested
         /\ Last(raw).enter >= monitor.finishRequested

\* The converse: the millisecond projection of a hole-free sampling never
\* makes the evidence check refuse it.  Truncated instants of two observations
\* differ by at most the gap rounded up, and by at least one.
CleanSamplingIsAccepted ==
    monitor.pc = "evidence" /\ monitor.viaFinish => Evidence \notin {"samples", "final"}

\* A missed deadline is never turned into success by a worker that answers
\* late, and the worker is joined before anything is reported.
LateWorkerNeverAccepted ==
    /\ monitor.result = "ok" => ~monitor.timedOut /\ monitor.joined /\ monitor.trace = trace
    /\ monitor.pc \in {"evidence", "returned"} /\ "directory" \in files /\ worker.pc # "unborn"
         => worker.pc = "ended"

\* When the thread is gone the vendor library is back where it was: every
\* reference released once, every load unloaded once, on every failure path;
\* and no query runs without a live session and a device.
DriverBalanced ==
    /\ worker.pc = "ended" => driver.shutdowns = driver.inits /\ driver.unloads = driver.loads
    /\ worker.pc = "query" => session.initialized /\ session.device /\ session.library = "open"

\* Every monitor that starts ends with its worker stopped and a result: no
\* channel, deadline or failure leaves the two threads waiting for each other.
MonitorReturns == monitor.pc # "idle" ~> monitor.pc = "returned"

\* Evidence is accepted exactly when the samples cover the call: no hole, no
\* late worker, and no refusal that only the projection to milliseconds made.
AcceptanceIsExact == AcceptedCoversCall /\ CleanSamplingIsAccepted /\ LateWorkerNeverAccepted

=============================================================================
