--------------------------- MODULE TestToolProofs ---------------------------
(***************************************************************************)
(* The tools of the test crate, each proved on its own.  The NVML memory   *)
(* monitor, for every clock unit, interval, gap limit, sample capacity and *)
(* bound on time: the vendor library is given back on every path, and      *)
(* evidence is accepted exactly when its samples cover the measured call.  *)
(* The installation of a release, for any number of installers, releases   *)
(* and prior contents of the cache: an install is whole, is what the       *)
(* manifest declares, is never replaced, and no installer fails only       *)
(* because others run.  The golden gate, for every corpus, manifest,       *)
(* fixture directory and candidate: it fails closed, and the verdict of a  *)
(* case is the one its meaning asks for.                                   *)
(***************************************************************************)
EXTENDS NvmlMonitor, ReleaseInstall, GoldenGate, SeqOrderProofs

(***************************************************************************)
(* Part 1: the NVML memory monitor.                                        *)
(***************************************************************************)

-----------------------------------------------------------------------------
(* The types of the shared state.                                          *)

WorkerPoints ==
  {"unborn", "open", "init", "wait", "sleep", "query", "observe", "close", "drop", "ended"}

MonitorPoints ==
  {"idle", "baseline", "running", "close", "acknowledge", "join", "evidence", "returned"}

(* An instant, or None.                                                    *)
Instant == Nat \cup {None}

WorkerCauses ==
  {NoError, "factory", "initialize", "storage", "panic", "gap", "span", "reply"}

MonitorCauses == {NoError, "baseline", "dropped", "ack_timeout"}

Causes == WorkerCauses \cup MonitorCauses \cup {"shutdown", "final", "samples"}

Samples ==
  [enter : Nat, returned : Instant, observed : Instant, valid : BOOLEAN, final : BOOLEAN]

Traces ==
  [raw : Seq(Samples), projected : Seq(Int), baseline : Instant, maxGap : Nat,
   finishRequested : Instant, finalEnter : Instant, finalObserved : Instant,
   primary : WorkerCauses, shutdown : {"pending"} \cup Outcomes, finished : BOOLEAN]

Workers ==
  [pc : WorkerPoints, next : Nat, requested : Instant, enter : Nat, returned : Nat,
   reply : {"none", "valid", "code", "accounting"}, final : BOOLEAN, readySent : BOOLEAN]

Monitors ==
  [pc : MonitorPoints, finishRequested : Instant, joined : BOOLEAN, trace : Traces,
   timedOut : BOOLEAN, failure : Causes, viaFinish : BOOLEAN, saved : BOOLEAN, result : {"none", "ok", "err"}]

MonTypes ==
  /\ now \in Nat /\ trace \in Traces /\ worker \in Workers /\ monitor \in Monitors
  /\ stop \in Instant /\ ready \in {"none", "ok", "err"} /\ done \in BOOLEAN

SessionTypes ==
  /\ session \in [library : {"none", "open", "closed"}, initialized : BOOLEAN,
                  device : BOOLEAN, closed : BOOLEAN]
  /\ driver \in [loads : Nat, unloads : Nat, inits : Nat, shutdowns : Nat]

-----------------------------------------------------------------------------
(* The inductive invariant.                                                *)

Calling == {"query", "observe"}
Waiting == {"wait", "sleep"}
Looping == Waiting \cup Calling
Left == {"close", "drop", "ended"}

(* The driver is where the worker's control point says: nothing loaded,    *)
(* loaded, initialised, or given back.                                     *)
SessionOK ==
  /\ SessionTypes
  /\ worker.pc \in {"unborn", "open"} =>
       /\ session.library = "none" /\ ~session.initialized /\ ~session.closed
       /\ driver.loads = 0 /\ driver.unloads = 0 /\ driver.inits = 0 /\ driver.shutdowns = 0
  /\ worker.pc \in {"init", "close"} \cup Looping =>
       /\ session.library = "open" /\ ~session.closed
       /\ driver.loads = 1 /\ driver.unloads = 0 /\ driver.shutdowns = 0
       /\ driver.inits = IF session.initialized THEN 1 ELSE 0
  /\ worker.pc = "init" => ~session.initialized
  /\ worker.pc \in Looping => session.initialized /\ session.device
  /\ worker.pc = "drop" => session.closed
  /\ worker.pc \in {"drop", "ended"} =>
       driver.shutdowns = driver.inits /\ driver.unloads = driver.loads

(* The number of accepted samples.                                         *)
Taken == Len(trace.projected)

SampleOK(e) ==
  /\ e.valid /\ e.returned # None /\ e.observed # None
  /\ e.enter <= e.returned /\ e.returned <= e.observed /\ e.observed <= now
  /\ e.returned - e.enter <= Limit

(* The accepted samples are a prefix of the raw ones, without a hole, and  *)
(* are projected relative to the first; at most one entry is not accepted, *)
(* the pending or the refused one.                                         *)
TraceOK ==
  /\ Len(trace.raw) \in {Taken, Taken + 1}
  /\ \A i \in 1 .. Taken :
       /\ SampleOK(trace.raw[i])
       /\ trace.projected[i] = Elapsed(trace.raw[i].observed, trace.raw[1].observed)
  /\ \A i \in 2 .. Taken :
       LET gap == trace.raw[i].observed - trace.raw[i - 1].observed
       IN  gap \in Interval .. Limit /\ gap <= trace.maxGap
  /\ trace.baseline = IF Taken = 0 THEN None ELSE trace.raw[1].observed

(* The next query comes at least Interval after the last observation.      *)
PaceOK ==
  /\ trace.primary = NoError =>
       /\ trace.maxGap <= Limit
       /\ worker.pc \notin Calling => Len(trace.raw) = Taken
  /\ worker.pc \in {"unborn", "open", "init"} => trace = NewTrace
  /\ worker.pc \in Looping => trace.primary = NoError
  /\ worker.pc \in Waiting /\ Taken > 0 =>
       worker.next >= trace.raw[Taken].observed + Interval
  /\ worker.pc \in Calling =>
       /\ Len(trace.raw) = Taken + 1 /\ worker.enter <= now
       /\ Taken > 0 => worker.enter >= trace.raw[Taken].observed + Interval
  /\ worker.pc = "observe" => worker.enter <= worker.returned /\ worker.returned <= now

(* The stop request is made once; a final query was entered after it; a    *)
(* worker that left its loop without an error made one.                    *)
StopOK ==
  /\ monitor.pc \in {"idle", "baseline", "running", "close"} => stop = None
  /\ monitor.pc \in {"acknowledge", "join", "evidence"} \/ (monitor.viaFinish /\ monitor.pc = "returned") =>
       stop # None /\ monitor.finishRequested = stop
  /\ worker.requested # None => worker.requested = stop
  /\ worker.pc \in Calling /\ worker.final =>
       stop # None /\ trace.finishRequested = stop /\ worker.enter >= stop
  /\ trace.finalEnter # None => stop # None
  /\ worker.pc \in Left /\ trace.primary = NoError =>
       /\ stop # None /\ trace.finishRequested = stop /\ Taken > 0
       /\ trace.finalEnter # None /\ trace.finalObserved # None
       /\ trace.finalEnter >= stop /\ trace.raw[Taken].enter = trace.finalEnter

(* A benchmark that ran saw a baseline, so that a final sample is a second *)
(* one.                                                                    *)
BaselineOK ==
  /\ worker.pc \in {"unborn", "open", "init"} => ~worker.readySent
  /\ ready = "ok" => worker.readySent /\ Taken > 0
  /\ monitor.pc = "running" \/ monitor.viaFinish => ready = "ok"
  /\ monitor.pc \in {"idle", "baseline", "running"} => ~monitor.viaFinish
  /\ monitor.viaFinish /\ stop # None => trace.raw[1].enter <= stop
  /\ monitor.viaFinish /\ trace.finalEnter # None => Taken > 1

(* The worker is joined before anything is judged, and the judged trace is *)
(* the last one; a missed deadline is a failure.                           *)
JoinOK ==
  /\ monitor.pc = "idle" => worker.pc = "unborn"
  /\ monitor.pc = "evidence" => worker.pc = "ended" /\ monitor.joined /\ monitor.trace = trace
  /\ monitor.pc = "returned" => worker.pc \in {"unborn", "ended"}
  /\ monitor.timedOut => monitor.failure # NoError
  /\ monitor.pc \in {"close", "acknowledge", "join", "evidence"} /\ ~monitor.viaFinish =>
       monitor.failure # NoError
  /\ monitor.pc # "returned" => monitor.failure \in MonitorCauses
  /\ monitor.result = "ok" =>
       /\ monitor.pc = "returned" /\ worker.pc = "ended" /\ monitor.trace = trace
       /\ monitor.viaFinish /\ Evidence = NoError

MonInv == MonTypes /\ SessionOK /\ TraceOK /\ PaceOK /\ StopOK /\ BaselineOK /\ JoinOK

-----------------------------------------------------------------------------
(* The units of the clock.                                                 *)

(* The constants are positive, and the gap limit is a whole number of      *)
(* milliseconds.                                                           *)
LEMMA UnitTypes ==
  /\ Interval \in Nat \ {0} /\ Limit \in Nat \ {0} /\ TicksPerMs \in Nat \ {0}
  /\ SampleLimit \in Nat \ {0} /\ MaxTime \in Nat \ {0}
  /\ TicksPerMs <= Interval /\ Interval <= Limit /\ Limit % TicksPerMs = 0
BY ClockUnits

(* Two multiples of a unit are in the order of their factors.              *)
LEMMA ProductCancel ==
  ASSUME NEW i \in Int, NEW j \in Int, NEW b \in Nat \ {0}, i * b < j * b
  PROVE  i < j
<1> SUFFICES ASSUME j <= i
             PROVE  FALSE
  OBVIOUS
<1>1. i * b = j * b + (i - j) * b
  OBVIOUS
<1>2. i - j \in Nat
  OBVIOUS
<1>3. (i - j) * b >= 0
  BY <1>2
<1>4. i * b \in Int /\ j * b \in Int /\ (i - j) * b \in Int
  OBVIOUS
<1> QED
  BY <1>1, <1>3, <1>4

(* Division rounds down, below zero too.                                   *)
LEMMA FloorProperties ==
  ASSUME NEW a \in Int, NEW b \in Nat \ {0}
  PROVE  /\ a \div b \in Int
         /\ (a \div b) * b <= a
         /\ a < ((a \div b) + 1) * b
OBVIOUS

(* A positive gap within the limit is rounded up to between one and the    *)
(* whole milliseconds of the limit.                                        *)
LEMMA RoundedGap ==
  ASSUME NEW g \in Nat, 0 < g, g <= Limit
  PROVE  LET c == (g + TicksPerMs - 1) \div TicksPerMs
         IN  c \in 1 .. (Limit \div TicksPerMs) /\ g <= c * TicksPerMs
<1> DEFINE T == TicksPerMs
           a == g + T - 1
           c == a \div T
           k == Limit \div T
<1>1. T \in Nat \ {0} /\ Limit \in Nat /\ Limit % T = 0
  BY UnitTypes
<1> HIDE DEF T
<1>2. a \in Nat
  BY <1>1
<1> HIDE DEF a
<1>3. c \in Nat /\ c * T <= a /\ a < (c + 1) * T
  BY <1>1, <1>2, DivProperties
<1>4. k \in Nat /\ Limit = k * T
  BY <1>1
<1> HIDE DEF c, k
<1>5. (c + 1) * T = c * T + T /\ (k + 1) * T = k * T + T
  BY <1>1, <1>3, <1>4
<1>6. c * T \in Nat /\ k * T \in Nat
  BY <1>1, <1>3, <1>4
<1>7. g <= c * T
  BY <1>1, <1>3, <1>5, <1>6 DEF a
<1>8. c < k + 1
  <2>1. c * T < (k + 1) * T
    BY <1>1, <1>3, <1>4, <1>5, <1>6 DEF a
  <2>2. k + 1 \in Nat
    BY <1>4
  <2> QED
    BY <2>1, <2>2, <1>1, <1>3, ProductCancel
<1>9. c # 0
  BY <1>1, <1>7
<1>10. c \in 1 .. k /\ g <= c * T
  BY <1>3, <1>4, <1>7, <1>8, <1>9
<1> QED
  BY <1>10 DEF c, k, a, T

(* The truncated instants of two observations differ by at least one       *)
(* millisecond, and by at most any rounded gap that covers them.           *)
LEMMA ProjectedGap ==
  ASSUME NEW u \in Int, NEW v \in Int, NEW c \in Nat,
         v - u >= TicksPerMs, v - u <= c * TicksPerMs
  PROVE  (v \div TicksPerMs) - (u \div TicksPerMs) \in 1 .. c
<1> DEFINE T == TicksPerMs
           p == u \div T
           q == v \div T
<1>1. T \in Nat \ {0}
  BY UnitTypes
<1>2. v - u >= T /\ v - u <= c * T
  OBVIOUS
<1> HIDE DEF T
<1>3. /\ p \in Int /\ p * T <= u /\ u < (p + 1) * T
      /\ q \in Int /\ q * T <= v /\ v < (q + 1) * T
  BY <1>1, FloorProperties
<1> HIDE DEF p, q
<1>4. /\ (p + 1) * T = p * T + T /\ (q + 1) * T = q * T + T
      /\ (p + 1 + c) * T = p * T + T + c * T
  BY <1>1, <1>3
<1>5. p * T \in Int /\ q * T \in Int /\ c * T \in Nat
  BY <1>1, <1>3
<1>6. (p + 1) * T < (q + 1) * T
  BY <1>1, <1>2, <1>3, <1>4, <1>5
<1>7. q * T < (p + 1 + c) * T
  BY <1>1, <1>2, <1>3, <1>4, <1>5
<1>8. p + 1 \in Int /\ q + 1 \in Int /\ p + 1 + c \in Int
  BY <1>3
<1>9. p + 1 < q + 1
  BY <1>1, <1>6, <1>8, ProductCancel
<1>10. q < p + 1 + c
  BY <1>1, <1>3, <1>7, <1>8, ProductCancel
<1>11. q - p \in 1 .. c
  BY <1>3, <1>9, <1>10
<1> QED
  BY <1>11 DEF p, q, T
-----------------------------------------------------------------------------
(* Steps that leave most of the state alone.                               *)

(* What is said of the samples stays true while they are kept and time     *)
(* passes.                                                                 *)
LEMMA SamplesKept ==
  ASSUME MonTypes, TraceOK, now' \in Nat, now <= now',
         trace'.raw = trace.raw, trace'.projected = trace.projected,
         trace'.baseline = trace.baseline, trace'.maxGap = trace.maxGap
  PROVE  TraceOK'
<1>1. Taken' = Taken
  BY DEF Taken
<1>2. trace.raw \in Seq(Samples) /\ Taken \in Nat /\ Len(trace.raw) \in {Taken, Taken + 1}
  BY DEF MonTypes, Traces, TraceOK, Taken
<1>3. \A i \in 1 .. Taken : SampleOK(trace.raw[i])'
  <2> SUFFICES ASSUME NEW i \in 1 .. Taken
               PROVE  SampleOK(trace.raw[i])'
    OBVIOUS
  <2>1. i \in DOMAIN trace.raw
    BY <1>2
  <2>2. trace.raw[i] \in Samples
    BY <1>2, <2>1
  <2>3. SampleOK(trace.raw[i])
    BY DEF TraceOK
  <2>4. trace.raw[i].observed \in Nat
    BY <2>2, <2>3 DEF SampleOK, Samples, Instant
  <2> QED
    BY <2>3, <2>4 DEF SampleOK, MonTypes
<1> QED
  BY <1>1, <1>3 DEF TraceOK, Elapsed, SampleOK

(* The session invariant depends on the worker's control point only.       *)
LEMMA SessionKept ==
  ASSUME SessionOK, UNCHANGED sessionVars, worker'.pc = worker.pc
  PROVE  SessionOK'
BY DEF SessionOK, SessionTypes, sessionVars

(* The fields of the worker that remain when its loop is left.             *)
LEMMA LeavingFields ==
  ASSUME worker \in Workers
  PROVE  /\ Leaving \in Workers /\ Leaving.pc = "close" /\ Leaving.requested = None
         /\ Leaving.final = FALSE /\ Leaving.readySent = worker.readySent
BY DEF Leaving, NewWorker, Workers, WorkerPoints, Instant, None

(* The new trace and worker have the types of the state.                   *)
LEMMA NewTypes ==
  /\ NewTrace \in Traces /\ NewWorker \in Workers /\ NewMonitor \in Monitors
  /\ NewTrace.raw = <<>> /\ NewTrace.projected = <<>> /\ NewTrace.primary = NoError
  /\ NewTrace.baseline = None /\ NewTrace.maxGap = 0 /\ NewTrace.finalEnter = None
<1>1. NewTrace \in Traces
  BY DEF NewTrace, Traces, Instant, None, Causes, WorkerCauses, MonitorCauses, NoError
<1>2. NewWorker \in Workers
  BY DEF NewWorker, Workers, WorkerPoints, Instant, None
<1>3. NewMonitor \in Monitors
  BY <1>1 DEF NewMonitor, Monitors, MonitorPoints, Instant, None, Causes, WorkerCauses, MonitorCauses, NoError
<1> QED
  BY <1>1, <1>2, <1>3 DEF NewTrace

(* The state before the monitor is started.                                *)
LEMMA InitMonitor == MonInit => MonInv
<1> SUFFICES ASSUME MonInit
             PROVE  MonInv
  OBVIOUS
<1> USE DEF MonInit
<1>1. MonTypes
  BY NewTypes DEF MonTypes, Instant
<1>2. worker.pc = "unborn" /\ worker.requested = None /\ ~worker.final /\ ~worker.readySent
  BY DEF NewWorker
<1>3. /\ monitor.pc = "idle" /\ ~monitor.viaFinish /\ ~monitor.timedOut
      /\ monitor.result = "none" /\ monitor.failure \in MonitorCauses
  BY DEF NewMonitor, MonitorCauses
<1>4. SessionOK
  BY <1>2 DEF SessionOK, SessionTypes, SessionInit, Looping, Waiting, Calling
<1>5. Taken = 0 /\ Len(trace.raw) = 0
  BY NewTypes DEF Taken
<1>6. TraceOK
  BY <1>5, NewTypes DEF TraceOK
<1>7. PaceOK
  BY <1>2, <1>5, NewTypes, UnitTypes DEF PaceOK, Looping, Waiting, Calling
<1>8. StopOK
  BY <1>2, <1>3, NewTypes DEF StopOK, Calling, Left
<1>9. BaselineOK
  BY <1>2, <1>3, NewTypes DEF BaselineOK
<1>10. JoinOK
  BY <1>2, <1>3 DEF JoinOK
<1> QED
  BY <1>1, <1>4, <1>6, <1>7, <1>8, <1>9, <1>10 DEF MonInv
-----------------------------------------------------------------------------
(* The worker's steps.                                                     *)

(* Before the loop nothing was sampled.                                    *)
LEMMA NothingSampled ==
  ASSUME MonInv, worker.pc \in {"unborn", "open", "init"}
  PROVE  /\ trace = NewTrace /\ Taken = 0 /\ Len(trace.raw) = 0
         /\ trace.primary = NoError /\ trace.maxGap = 0 /\ trace.finalEnter = None
         /\ ready # "ok" /\ ~monitor.viaFinish /\ monitor.pc # "running"
BY NewTypes DEF MonInv, PaceOK, BaselineOK, Taken

(* What Session::open does to the session and the driver.                  *)
LEMMA OpenEffect ==
  ASSUME SessionTypes, NEW step \in OpenSteps, SessionOpen(step)
  PROVE  /\ SessionTypes'
         /\ session'.library = IF step = "opened" THEN "open"
                               ELSE IF step = "dlopen" THEN "none" ELSE "closed"
         /\ session'.initialized = session.initialized /\ session'.closed = session.closed
         /\ driver'.loads = IF step = "dlopen" THEN driver.loads ELSE driver.loads + 1
         /\ driver'.unloads = IF step \in {"dlopen", "opened"} THEN driver.unloads
                              ELSE driver.unloads + 1
         /\ driver'.inits = driver.inits /\ driver'.shutdowns = driver.shutdowns
<1>1. PICK lib : lib = IF step = "opened" THEN "open"
                       ELSE IF step = "dlopen" THEN "none" ELSE "closed"
  OBVIOUS
<1>2. PICK l : l = IF step = "dlopen" THEN driver.loads ELSE driver.loads + 1
  OBVIOUS
<1>3. PICK u : u = IF step \in {"dlopen", "opened"} THEN driver.unloads ELSE driver.unloads + 1
  OBVIOUS
<1>4. session' = [session EXCEPT !.library = lib]
  BY <1>1 DEF SessionOpen
<1>5. driver' = [driver EXCEPT !.loads = l, !.unloads = u]
  BY <1>2, <1>3 DEF SessionOpen
<1>6. driver.loads \in Nat /\ driver.unloads \in Nat
  BY DEF SessionTypes
<1>7. lib \in {"none", "open", "closed"} /\ l \in Nat /\ u \in Nat
  BY <1>1, <1>2, <1>3, <1>6
<1>8. /\ SessionTypes' /\ session'.library = lib
      /\ session'.initialized = session.initialized /\ session'.closed = session.closed
      /\ driver'.loads = l /\ driver'.unloads = u
      /\ driver'.inits = driver.inits /\ driver'.shutdowns = driver.shutdowns
  BY <1>4, <1>5, <1>7 DEF SessionTypes
<1> QED
  BY <1>1, <1>2, <1>3, <1>8

(* Opening the library: a worker without a session ends at once, and       *)
(* whatever was loaded is unloaded.                                        *)
LEMMA OpenPreserves == MonInv /\ WorkerOpen => MonInv'
<1> SUFFICES ASSUME MonInv, WorkerOpen
             PROVE  MonInv'
  OBVIOUS
<1>1. /\ MonTypes /\ SessionOK /\ TraceOK /\ PaceOK /\ StopOK /\ BaselineOK /\ JoinOK
      /\ worker.pc = "open" /\ UNCHANGED <<now, stop, monitor, files>>
  BY DEF MonInv, WorkerOpen
<1>2. /\ trace = NewTrace /\ Taken = 0 /\ Len(trace.raw) = 0
      /\ trace.primary = NoError /\ trace.maxGap = 0 /\ trace.finalEnter = None
      /\ ready # "ok" /\ ~monitor.viaFinish /\ monitor.pc # "running"
  BY <1>1, NothingSampled
<1>3. /\ worker \in Workers /\ trace \in Traces /\ now \in Nat
      /\ worker.requested # None => worker.requested = stop
      /\ ~worker.readySent
  BY <1>1 DEF MonTypes, StopOK, BaselineOK
<1>4. CASE session'.library = "open"
  <2>1. worker' = [worker EXCEPT !.pc = "init"] /\ UNCHANGED <<trace, ready, done>>
    BY <1>4 DEF WorkerOpen
  <2>2. /\ worker'.pc = "init" /\ worker'.requested = worker.requested
        /\ worker'.readySent = worker.readySent
    BY <1>3, <2>1 DEF Workers
  <2>3. MonTypes'
    BY <1>1, <2>1 DEF MonTypes, Workers, WorkerPoints
  <2>4. SessionOK'
    <3>1. /\ session.library = "none" /\ ~session.initialized /\ ~session.closed
          /\ driver.loads = 0 /\ driver.unloads = 0 /\ driver.inits = 0 /\ driver.shutdowns = 0
          /\ SessionTypes
      BY <1>1 DEF SessionOK
    <3>2. PICK step \in OpenSteps \cup {"panic"} :
            IF step = "panic" THEN UNCHANGED sessionVars ELSE SessionOpen(step)
      BY DEF WorkerOpen
    <3>3. step = "opened"
      BY <1>4, <3>1, <3>2 DEF SessionOpen, sessionVars, SessionTypes, OpenSteps
    <3>4. SessionOpen("opened")
      BY <3>2, <3>3
    <3>5. /\ SessionTypes' /\ session'.library = "open" /\ ~session'.initialized /\ ~session'.closed
          /\ driver'.loads = 1 /\ driver'.unloads = 0 /\ driver'.inits = 0 /\ driver'.shutdowns = 0
      BY <3>1, <3>4, OpenEffect DEF OpenSteps
    <3> QED
      BY <2>2, <3>5 DEF SessionOK, Looping, Waiting, Calling
  <2>5. TraceOK'
    BY <1>1, <1>3, <2>1, SamplesKept
  <2>6. Taken' = Taken
    BY <2>1 DEF Taken
  <2>7. PaceOK'
    BY <1>1, <1>2, <2>1, <2>2, <2>6 DEF PaceOK, Looping, Waiting, Calling
  <2>8. StopOK'
    BY <1>1, <1>2, <2>1, <2>2, <2>6 DEF StopOK, Calling, Left
  <2>9. BaselineOK'
    BY <1>1, <1>2, <1>3, <2>1, <2>2, <2>6 DEF BaselineOK
  <2>10. JoinOK'
    BY <1>1, <2>1, <2>2 DEF JoinOK, Evidence
  <2> QED
    BY <2>3, <2>4, <2>5, <2>7, <2>8, <2>9, <2>10 DEF MonInv
<1>5. CASE session'.library # "open"
  <2>1. /\ worker' = [worker EXCEPT !.pc = "ended"]
        /\ trace' = [trace EXCEPT !.primary = "factory"]
        /\ ready' = "err" /\ done' = TRUE
    BY <1>5 DEF WorkerOpen
  <2>2. /\ worker'.pc = "ended" /\ worker'.requested = worker.requested
        /\ worker'.readySent = worker.readySent
    BY <1>3, <2>1 DEF Workers
  <2>3. /\ trace'.raw = trace.raw /\ trace'.projected = trace.projected
        /\ trace'.baseline = trace.baseline /\ trace'.maxGap = trace.maxGap
        /\ trace'.finalEnter = trace.finalEnter /\ trace'.primary = "factory"
        /\ trace' \in Traces
    BY <1>3, <2>1 DEF Traces, Causes, WorkerCauses, MonitorCauses
  <2>4. MonTypes'
    BY <1>1, <2>1, <2>3 DEF MonTypes, Workers, WorkerPoints
  <2>5. SessionOK'
    <3>1. /\ session.library = "none" /\ ~session.initialized /\ ~session.closed
          /\ driver.loads = 0 /\ driver.unloads = 0 /\ driver.inits = 0 /\ driver.shutdowns = 0
          /\ SessionTypes
      BY <1>1 DEF SessionOK
    <3>2. PICK step \in OpenSteps \cup {"panic"} :
            IF step = "panic" THEN UNCHANGED sessionVars ELSE SessionOpen(step)
      BY DEF WorkerOpen
    <3>3. SessionTypes' /\ driver'.shutdowns = driver'.inits /\ driver'.unloads = driver'.loads
      <4>1. CASE step = "panic"
        BY <3>1, <3>2, <4>1 DEF sessionVars, SessionTypes
      <4>2. CASE step # "panic"
        <5>1. SessionOpen(step) /\ step # "opened"
          BY <1>5, <3>1, <3>2, <4>2 DEF SessionOpen, SessionTypes
        <5>2. step \in OpenSteps
          BY <3>2, <4>2
        <5>3. /\ SessionTypes'
              /\ driver'.loads = IF step = "dlopen" THEN driver.loads ELSE driver.loads + 1
              /\ driver'.unloads = IF step \in {"dlopen", "opened"} THEN driver.unloads
                                   ELSE driver.unloads + 1
              /\ driver'.inits = driver.inits /\ driver'.shutdowns = driver.shutdowns
          BY <3>1, <5>1, <5>2, OpenEffect
        <5> QED
          BY <3>1, <5>1, <5>3
      <4> QED
        BY <4>1, <4>2
    <3> QED
      BY <2>2, <3>3 DEF SessionOK, Looping, Waiting, Calling
  <2>6. TraceOK'
    BY <1>1, <1>3, <2>3, SamplesKept
  <2>7. Taken' = Taken
    BY <2>3 DEF Taken
  <2>8. PaceOK'
    BY <2>2, <2>3 DEF PaceOK, Looping, Waiting, Calling, NoError
  <2>9. StopOK'
    BY <1>1, <1>2, <2>1, <2>2, <2>3, <2>7 DEF StopOK, Calling, Left, NoError
  <2>10. BaselineOK'
    BY <1>1, <1>2, <1>3, <2>1, <2>2 DEF BaselineOK
  <2>11. JoinOK'
    BY <1>1, <2>1, <2>2 DEF JoinOK
  <2> QED
    BY <2>4, <2>5, <2>6, <2>8, <2>9, <2>10, <2>11 DEF MonInv
<1> QED
  BY <1>4, <1>5
(* What Session::initialize does to the session and the driver.            *)
LEMMA InitializeEffect ==
  ASSUME SessionTypes, NEW step \in InitSteps, SessionInitialize(step)
  PROVE  /\ SessionTypes'
         /\ session'.library = session.library /\ session'.closed = session.closed
         /\ session'.initialized <=> step # "nvmlInit"
         /\ session'.device <=> step \in {"version", "initialized"}
         /\ driver'.inits = IF session'.initialized THEN driver.inits + 1 ELSE driver.inits
         /\ driver'.loads = driver.loads /\ driver'.unloads = driver.unloads
         /\ driver'.shutdowns = driver.shutdowns
<1>1. PICK i \in BOOLEAN : i = (step # "nvmlInit")
  OBVIOUS
<1>2. PICK d \in BOOLEAN : d = (step \in {"version", "initialized"})
  <2>1. (step \in {"version", "initialized"}) \in BOOLEAN
    OBVIOUS
  <2> QED
    BY <2>1, Zenon
<1>3. PICK n : n = IF step = "nvmlInit" THEN driver.inits ELSE driver.inits + 1
  OBVIOUS
<1>4. session' = [session EXCEPT !.initialized = i, !.device = d]
  BY <1>1, <1>2 DEF SessionInitialize
<1>5. driver' = [driver EXCEPT !.inits = n]
  BY <1>3 DEF SessionInitialize
<1>6. n \in Nat
  BY <1>3 DEF SessionTypes
<1>7. /\ SessionTypes' /\ session'.library = session.library /\ session'.closed = session.closed
      /\ session'.initialized = i /\ session'.device = d
  BY <1>4, <1>5, <1>6 DEF SessionTypes
<1>8. /\ driver'.loads = driver.loads /\ driver'.unloads = driver.unloads
      /\ driver'.shutdowns = driver.shutdowns /\ driver'.inits = n
  BY <1>5, <1>6 DEF SessionTypes
<1>9. session'.initialized <=> step # "nvmlInit"
  BY <1>1, <1>7
<1>10. session'.device <=> step \in {"version", "initialized"}
  BY <1>2, <1>7
<1> QED
  BY <1>3, <1>7, <1>8, <1>9, <1>10

(* A worker that leaves its loop with an error keeps its samples, and is   *)
(* judged by that error.                                                   *)
LEMMA FailurePreserves ==
  ASSUME MonInv, MonTypes', SessionOK',
         worker.pc \in {"init"} \cup Looping, UNCHANGED <<now, channels, monitor, files>>,
         worker'.pc = "close", worker'.requested = None, worker'.readySent = worker.readySent,
         trace'.primary # NoError,
         trace'.raw = trace.raw, trace'.projected = trace.projected,
         trace'.baseline = trace.baseline, trace'.maxGap = trace.maxGap,
         trace'.finalEnter = trace.finalEnter
  PROVE  MonInv'
<1>1. MonTypes /\ SessionOK /\ TraceOK /\ PaceOK /\ StopOK /\ BaselineOK /\ JoinOK
  BY DEF MonInv
<1>2. UNCHANGED <<now, stop, ready, done, monitor>>
  BY DEF channels
<1>3. Taken' = Taken
  BY DEF Taken
<1>4. TraceOK'
  BY <1>1, <1>2, SamplesKept DEF MonTypes
<1>5. PaceOK'
  BY DEF PaceOK, Looping, Waiting, Calling
<1>6. StopOK'
  BY <1>1, <1>2 DEF StopOK, Calling, Left
<1>7. BaselineOK'
  BY <1>1, <1>2, <1>3 DEF BaselineOK
<1>8. JoinOK'
  BY <1>1, <1>2 DEF JoinOK, Looping, Waiting, Calling
<1> QED
  BY <1>4, <1>5, <1>6, <1>7, <1>8 DEF MonInv

(* Initialising: a reference that nvmlInit_v2 took is remembered.          *)
LEMMA InitializePreserves == MonInv /\ WorkerInitialize => MonInv'
<1> SUFFICES ASSUME MonInv, WorkerInitialize
             PROVE  MonInv'
  OBVIOUS
<1>1. /\ MonTypes /\ SessionOK /\ TraceOK /\ PaceOK /\ StopOK /\ BaselineOK /\ JoinOK
      /\ worker.pc = "init" /\ UNCHANGED <<now, channels, monitor, files>>
  BY DEF MonInv, WorkerInitialize
<1>2. UNCHANGED <<stop, ready, done>>
  BY <1>1 DEF channels
<1>3. /\ trace = NewTrace /\ Taken = 0 /\ Len(trace.raw) = 0
      /\ trace.primary = NoError /\ trace.maxGap = 0 /\ trace.finalEnter = None
      /\ ready # "ok" /\ ~monitor.viaFinish /\ monitor.pc # "running"
  BY <1>1, NothingSampled
<1>4. /\ worker \in Workers /\ trace \in Traces /\ now \in Nat
      /\ worker.requested # None => worker.requested = stop
      /\ ~worker.readySent
  BY <1>1 DEF MonTypes, StopOK, BaselineOK
<1>5. PICK step \in InitSteps :
         /\ SessionInitialize(step)
         /\ IF step = "initialized"
            THEN worker' = [worker EXCEPT !.pc = "wait", !.next = now] /\ UNCHANGED trace
            ELSE Fails("initialize")
  BY DEF WorkerInitialize
<1>6. /\ SessionTypes /\ session.library = "open" /\ ~session.closed
      /\ driver.loads = 1 /\ driver.unloads = 0 /\ driver.shutdowns = 0 /\ driver.inits = 0
  BY <1>1 DEF SessionOK
<1>7. /\ SessionTypes' /\ session'.library = "open" /\ ~session'.closed
      /\ driver'.loads = 1 /\ driver'.unloads = 0 /\ driver'.shutdowns = 0
      /\ driver'.inits = IF session'.initialized THEN 1 ELSE 0
      /\ session'.initialized <=> step # "nvmlInit"
      /\ session'.device <=> step \in {"version", "initialized"}
  <2>1. /\ SessionTypes'
        /\ session'.library = session.library /\ session'.closed = session.closed
        /\ session'.initialized <=> step # "nvmlInit"
        /\ session'.device <=> step \in {"version", "initialized"}
        /\ driver'.inits = IF session'.initialized THEN driver.inits + 1 ELSE driver.inits
        /\ driver'.loads = driver.loads /\ driver'.unloads = driver.unloads
        /\ driver'.shutdowns = driver.shutdowns
    BY <1>5, <1>6, InitializeEffect
  <2> QED
    BY <1>6, <2>1
<1>8. CASE step = "initialized"
  <2>1. worker' = [worker EXCEPT !.pc = "wait", !.next = now] /\ trace' = trace
    BY <1>5, <1>8
  <2>2. /\ worker'.pc = "wait" /\ worker'.requested = worker.requested
        /\ worker'.readySent = worker.readySent
    BY <1>4, <2>1 DEF Workers
  <2>3. MonTypes'
    BY <1>1, <1>2, <1>4, <2>1 DEF MonTypes, Workers, WorkerPoints
  <2>4. SessionOK'
    BY <1>7, <1>8, <2>2 DEF SessionOK, Looping, Waiting, Calling
  <2>5. TraceOK'
    BY <1>1, <1>4, <2>1, SamplesKept
  <2>6. Taken' = Taken
    BY <2>1 DEF Taken
  <2>7. PaceOK'
    BY <1>1, <1>3, <2>1, <2>2, <2>6 DEF PaceOK, Looping, Waiting, Calling
  <2>8. StopOK'
    BY <1>1, <1>2, <1>3, <2>1, <2>2, <2>6 DEF StopOK, Calling, Left
  <2>9. BaselineOK'
    BY <1>1, <1>2, <1>3, <1>4, <2>1, <2>2, <2>6 DEF BaselineOK
  <2>10. JoinOK'
    BY <1>1, <2>1, <2>2 DEF JoinOK, Evidence
  <2> QED
    BY <2>3, <2>4, <2>5, <2>7, <2>8, <2>9, <2>10 DEF MonInv
<1>9. CASE step # "initialized"
  <2>1. worker' = Leaving /\ trace' = [trace EXCEPT !.primary = "initialize"]
    BY <1>5, <1>9 DEF Fails
  <2>2. /\ worker' \in Workers /\ worker'.pc = "close" /\ worker'.requested = None
        /\ worker'.readySent = worker.readySent
    BY <1>4, <2>1, LeavingFields
  <2>3. /\ trace'.raw = trace.raw /\ trace'.projected = trace.projected
        /\ trace'.baseline = trace.baseline /\ trace'.maxGap = trace.maxGap
        /\ trace'.finalEnter = trace.finalEnter /\ trace'.primary = "initialize"
        /\ trace' \in Traces
    BY <1>4, <2>1 DEF Traces, Causes, WorkerCauses, MonitorCauses
  <2>4. MonTypes'
    BY <1>1, <1>2, <2>2, <2>3 DEF MonTypes
  <2>5. SessionOK'
    BY <1>7, <2>2 DEF SessionOK, Looping, Waiting, Calling
  <2>6. trace'.primary # NoError
    BY <2>3 DEF NoError
  <2> QED
    BY <1>1, <2>2, <2>3, <2>4, <2>5, <2>6, FailurePreserves
<1> QED
  BY <1>8, <1>9
(* Waiting for the next sample: a stop request may be received.            *)
LEMMA WaitPreserves == MonInv /\ WorkerWait => MonInv'
<1> SUFFICES ASSUME MonInv, WorkerWait
             PROVE  MonInv'
  OBVIOUS
<1>1. /\ MonTypes /\ SessionOK /\ TraceOK /\ PaceOK /\ StopOK /\ BaselineOK /\ JoinOK
      /\ worker.pc = "wait" /\ UNCHANGED <<now, trace, channels, monitor, files, sessionVars>>
  BY DEF MonInv, WorkerWait
<1>2. UNCHANGED <<stop, ready, done>> /\ trace' = trace /\ UNCHANGED sessionVars
  BY <1>1 DEF channels
<1>3. PICK r : r = IF worker.requested = None THEN stop ELSE worker.requested
  OBVIOUS
<1>4. worker \in Workers /\ r \in Instant /\ (r # None => r = stop)
  BY <1>1, <1>3 DEF MonTypes, StopOK, Workers
<1>5. worker' = [worker EXCEPT !.pc = "sleep", !.requested = r]
  BY <1>3 DEF WorkerWait
<1>6. /\ worker'.pc = "sleep" /\ worker'.requested = r /\ worker'.next = worker.next
      /\ worker'.readySent = worker.readySent /\ worker' \in Workers
  BY <1>4, <1>5 DEF Workers, WorkerPoints
<1>7. Taken' = Taken
  BY <1>2 DEF Taken
<1>8. MonTypes'
  BY <1>1, <1>2, <1>6 DEF MonTypes
<1>9. SessionOK'
  BY <1>1, <1>2, <1>6 DEF SessionOK, SessionTypes, sessionVars, Looping, Waiting, Calling
<1>10. TraceOK'
  BY <1>1, <1>2, SamplesKept DEF MonTypes
<1>11. PaceOK'
  BY <1>1, <1>2, <1>6, <1>7 DEF PaceOK, Looping, Waiting, Calling
<1>12. StopOK'
  BY <1>1, <1>2, <1>4, <1>6, <1>7 DEF StopOK, Calling, Left
<1>13. BaselineOK'
  BY <1>1, <1>2, <1>6, <1>7 DEF BaselineOK
<1>14. JoinOK'
  BY <1>1, <1>2, <1>6 DEF JoinOK
<1> QED
  BY <1>8, <1>9, <1>10, <1>11, <1>12, <1>13, <1>14 DEF MonInv

(* Entering a call: a pending entry is put on record, or the storage is    *)
(* full and the loop ends.                                                 *)
LEMMA EnterPreserves == MonInv /\ WorkerEnter => MonInv'
<1> SUFFICES ASSUME MonInv, WorkerEnter
             PROVE  MonInv'
  OBVIOUS
<1>1. /\ MonTypes /\ SessionOK /\ TraceOK /\ PaceOK /\ StopOK /\ BaselineOK /\ JoinOK
      /\ worker.pc = "sleep" /\ now >= worker.next
      /\ UNCHANGED <<now, channels, monitor, files, sessionVars>>
  BY DEF MonInv, WorkerEnter
<1>2. UNCHANGED <<stop, ready, done>> /\ now' = now /\ UNCHANGED sessionVars
  BY <1>1 DEF channels
<1>3. PICK r : r = IF worker.requested = None THEN stop ELSE worker.requested
  OBVIOUS
<1>4. PICK f \in BOOLEAN : f = (r # None /\ now >= r)
  BY Zenon
<1>5. PICK e : e = [enter |-> now, returned |-> None, observed |-> None, valid |-> FALSE, final |-> f]
  OBVIOUS
<1>6. /\ worker \in Workers /\ trace \in Traces /\ now \in Nat
      /\ r \in Instant /\ (r # None => r = stop)
  BY <1>1, <1>3 DEF MonTypes, StopOK, Workers
<1>7. /\ trace.raw \in Seq(Samples) /\ Taken \in Nat /\ Len(trace.raw) = Taken
      /\ trace.primary = NoError
  BY <1>1, <1>6 DEF Traces, Taken, PaceOK, Looping, Waiting, Calling
<1>8. CASE StorageFull
  <2>1. /\ trace' = [[trace EXCEPT !.finishRequested = r] EXCEPT !.primary = "storage"]
        /\ worker' = Leaving
    BY <1>3, <1>8 DEF WorkerEnter
  <2>2. /\ worker' \in Workers /\ worker'.pc = "close" /\ worker'.requested = None
        /\ worker'.readySent = worker.readySent
    BY <1>6, <2>1, LeavingFields
  <2>3. /\ trace'.raw = trace.raw /\ trace'.projected = trace.projected
        /\ trace'.baseline = trace.baseline /\ trace'.maxGap = trace.maxGap
        /\ trace'.finalEnter = trace.finalEnter /\ trace'.primary = "storage"
        /\ trace' \in Traces
    BY <1>6, <2>1 DEF Traces, Causes, WorkerCauses, MonitorCauses
  <2>4. MonTypes'
    BY <1>1, <1>2, <2>2, <2>3 DEF MonTypes
  <2>5. SessionOK'
    BY <1>1, <1>2, <2>2 DEF SessionOK, SessionTypes, sessionVars, Looping, Waiting, Calling
  <2>6. trace'.primary # NoError /\ worker.pc \in Looping
    BY <1>1, <2>3 DEF NoError, Looping, Waiting
  <2>7. UNCHANGED <<now, channels, monitor, files>>
    BY <1>1
  <2> QED
    BY <2>2, <2>3, <2>4, <2>5, <2>6, <2>7, FailurePreserves
<1>9. CASE ~StorageFull
  <2>1. /\ trace' = [[trace EXCEPT !.finishRequested = r] EXCEPT !.raw = Append(trace.raw, e)]
        /\ worker' = [worker EXCEPT !.pc = "query", !.requested = r, !.enter = now, !.final = f]
    BY <1>3, <1>4, <1>5, <1>6, <1>9 DEF WorkerEnter, Traces
  <2>2. e \in Samples
    BY <1>4, <1>5, <1>6 DEF Samples, Instant
  <2>3. /\ Append(trace.raw, e) \in Seq(Samples) /\ Len(Append(trace.raw, e)) = Taken + 1
        /\ \A i \in 1 .. Taken : Append(trace.raw, e)[i] = trace.raw[i]
    BY <1>7, <2>2
  <2>4. PICK raw : raw = Append(trace.raw, e)
    OBVIOUS
  <2>5. /\ raw \in Seq(Samples) /\ Len(raw) = Taken + 1
        /\ \A i \in 1 .. Taken : raw[i] = trace.raw[i]
    BY <2>3, <2>4
  <2>6. /\ trace'.raw = raw /\ trace'.projected = trace.projected
        /\ trace'.baseline = trace.baseline /\ trace'.maxGap = trace.maxGap
        /\ trace'.finalEnter = trace.finalEnter /\ trace'.primary = trace.primary
        /\ trace'.finishRequested = r /\ trace' \in Traces
    BY <1>6, <2>1, <2>4, <2>5 DEF Traces
  <2>7. /\ worker' \in Workers /\ worker'.pc = "query" /\ worker'.requested = r
        /\ worker'.readySent = worker.readySent /\ worker'.enter = now /\ worker'.final = f
    BY <1>4, <1>6, <2>1 DEF Workers, WorkerPoints
  <2>8. Taken' = Taken
    BY <2>6 DEF Taken
  <2>9. MonTypes'
    BY <1>1, <1>2, <2>6, <2>7 DEF MonTypes
  <2>10. SessionOK'
    BY <1>1, <1>2, <2>7 DEF SessionOK, SessionTypes, sessionVars, Looping, Waiting, Calling
  <2>11. TraceOK'
    <3>1. \A i \in 1 .. Taken : SampleOK(trace.raw[i])'
      <4> SUFFICES ASSUME NEW i \in 1 .. Taken
                   PROVE  SampleOK(trace.raw[i])'
        OBVIOUS
      <4>1. SampleOK(trace.raw[i]) /\ trace'.raw[i] = trace.raw[i]
        BY <1>1, <2>5, <2>6 DEF TraceOK
      <4> QED
        BY <1>2, <4>1 DEF SampleOK
    <3>2. \A i \in 1 .. Taken :
            trace'.projected[i] = Elapsed(trace'.raw[i].observed, trace'.raw[1].observed)
      <4> SUFFICES ASSUME NEW i \in 1 .. Taken
                   PROVE  trace'.projected[i] = Elapsed(trace'.raw[i].observed, trace'.raw[1].observed)
        OBVIOUS
      <4>1. 1 \in 1 .. Taken
        BY <1>7
      <4>2. trace'.raw[1] = trace.raw[1] /\ trace'.raw[i] = trace.raw[i]
        BY <2>5, <2>6, <4>1
      <4> QED
        BY <1>1, <2>6, <4>2 DEF TraceOK
    <3>3. \A i \in 2 .. Taken :
            LET gap == trace'.raw[i].observed - trace'.raw[i - 1].observed
            IN  gap \in Interval .. Limit /\ gap <= trace'.maxGap
      <4> SUFFICES ASSUME NEW i \in 2 .. Taken
                   PROVE  LET gap == trace'.raw[i].observed - trace'.raw[i - 1].observed
                          IN  gap \in Interval .. Limit /\ gap <= trace'.maxGap
        OBVIOUS
      <4>1. i \in 1 .. Taken /\ i - 1 \in 1 .. Taken
        BY <1>7
      <4>2. trace'.raw[i] = trace.raw[i] /\ trace'.raw[i - 1] = trace.raw[i - 1]
        BY <2>5, <2>6, <4>1
      <4> QED
        BY <1>1, <2>6, <4>2 DEF TraceOK
    <3>4. trace'.baseline = IF Taken = 0 THEN None ELSE trace'.raw[1].observed
      <4>1. CASE Taken = 0
        BY <1>1, <2>6, <4>1 DEF TraceOK
      <4>2. CASE Taken # 0
        <5>1. 1 \in 1 .. Taken
          BY <1>7, <4>2
        <5>2. trace'.raw[1] = trace.raw[1]
          BY <2>5, <2>6, <5>1
        <5> QED
          BY <1>1, <2>6, <4>2, <5>2 DEF TraceOK
      <4> QED
        BY <4>1, <4>2
    <3>5. Len(trace'.raw) \in {Taken, Taken + 1}
      BY <2>5, <2>6
    <3> QED
      BY <2>8, <3>1, <3>2, <3>3, <3>4, <3>5 DEF TraceOK
  <2>12. Taken > 0 => trace'.raw[Taken] = trace.raw[Taken] /\ trace'.raw[1] = trace.raw[1]
    <3> SUFFICES ASSUME Taken > 0
                 PROVE  trace'.raw[Taken] = trace.raw[Taken] /\ trace'.raw[1] = trace.raw[1]
      OBVIOUS
    <3>1. Taken \in 1 .. Taken /\ 1 \in 1 .. Taken
      BY <1>7
    <3> QED
      BY <2>5, <2>6, <3>1
  <2>13. Taken > 0 => now >= trace.raw[Taken].observed + Interval
    <3> SUFFICES ASSUME Taken > 0
                 PROVE  now >= trace.raw[Taken].observed + Interval
      OBVIOUS
    <3>1. Taken \in 1 .. Taken /\ Taken \in DOMAIN trace.raw
      BY <1>7
    <3>2. trace.raw[Taken] \in Samples /\ SampleOK(trace.raw[Taken])
      BY <1>1, <1>7, <3>1 DEF TraceOK
    <3>3. trace.raw[Taken].observed \in Nat
      BY <3>2 DEF Samples, SampleOK, Instant
    <3>4. worker.next >= trace.raw[Taken].observed + Interval /\ worker.next \in Nat
      BY <1>1, <1>6 DEF PaceOK, Waiting, Workers
    <3> QED
      BY <1>1, <1>6, <3>3, <3>4, UnitTypes
  <2>14. PaceOK'
    <3>1. worker'.pc \in Calling /\ worker'.pc \notin Waiting /\ worker'.pc # "observe"
          /\ worker'.pc \notin {"unborn", "open", "init"}
      BY <2>7 DEF Calling, Waiting
    <3>2. trace'.primary = NoError /\ trace'.maxGap <= Limit
      BY <1>1, <1>7, <2>6 DEF PaceOK
    <3>3. Len(trace'.raw) = Taken + 1 /\ worker'.enter <= now
      BY <1>6, <2>5, <2>6, <2>7
    <3>4. Taken > 0 => worker'.enter >= trace'.raw[Taken].observed + Interval
      BY <2>7, <2>12, <2>13
    <3> QED
      BY <1>2, <2>8, <3>1, <3>2, <3>3, <3>4 DEF PaceOK
  <2>15. StopOK'
    <3>1. worker'.final => stop # None /\ trace'.finishRequested = stop /\ worker'.enter >= stop
      BY <1>4, <1>6, <2>6, <2>7
    <3> QED
      BY <1>1, <1>2, <1>6, <2>6, <2>7, <3>1 DEF StopOK, Calling, Left
  <2>16. BaselineOK'
    BY <1>1, <1>2, <2>6, <2>7, <2>8, <2>12 DEF BaselineOK
  <2>17. JoinOK'
    BY <1>1, <1>2, <2>7 DEF JoinOK
  <2> QED
    BY <2>9, <2>10, <2>11, <2>14, <2>15, <2>16, <2>17 DEF MonInv
<1> QED
  BY <1>8, <1>9
(* The query returns, or unwinds and leaves its entry on record.           *)
LEMMA QueryPreserves == MonInv /\ WorkerQuery => MonInv'
<1> SUFFICES ASSUME MonInv, WorkerQuery
             PROVE  MonInv'
  OBVIOUS
<1>1. /\ MonTypes /\ SessionOK /\ TraceOK /\ PaceOK /\ StopOK /\ BaselineOK /\ JoinOK
      /\ worker.pc = "query" /\ UNCHANGED <<now, channels, monitor, files, sessionVars>>
  BY DEF MonInv, WorkerQuery
<1>2. UNCHANGED <<stop, ready, done>> /\ now' = now /\ UNCHANGED sessionVars
  BY <1>1 DEF channels
<1>3. worker \in Workers /\ trace \in Traces /\ now \in Nat
  BY <1>1 DEF MonTypes
<1>4. ASSUME NEW reply \in {"valid", "code", "accounting"},
             worker' = [worker EXCEPT !.pc = "observe", !.returned = now, !.reply = reply],
             UNCHANGED trace
      PROVE  MonInv'
  <2>1. /\ worker' \in Workers /\ worker'.pc = "observe" /\ worker'.requested = worker.requested
        /\ worker'.readySent = worker.readySent /\ worker'.enter = worker.enter
        /\ worker'.final = worker.final /\ worker'.returned = now
    BY <1>3, <1>4 DEF Workers, WorkerPoints
  <2>2. Taken' = Taken /\ trace' = trace
    BY <1>4 DEF Taken
  <2>3. MonTypes'
    BY <1>1, <1>2, <2>1, <2>2 DEF MonTypes
  <2>4. SessionOK'
    BY <1>1, <1>2, <2>1 DEF SessionOK, SessionTypes, sessionVars, Looping, Waiting, Calling
  <2>5. TraceOK'
    BY <1>1, <1>2, <1>3, <2>2, SamplesKept
  <2>6. PaceOK'
    BY <1>1, <1>2, <1>3, <2>1, <2>2 DEF PaceOK, Looping, Waiting, Calling
  <2>7. StopOK'
    BY <1>1, <1>2, <2>1, <2>2 DEF StopOK, Calling, Left
  <2>8. BaselineOK'
    BY <1>1, <1>2, <2>1, <2>2 DEF BaselineOK
  <2>9. JoinOK'
    BY <1>1, <1>2, <2>1, <2>2 DEF JoinOK
  <2> QED
    BY <2>3, <2>4, <2>5, <2>6, <2>7, <2>8, <2>9 DEF MonInv
<1>5. CASE Fails("panic")
  <2>1. worker' = Leaving /\ trace' = [trace EXCEPT !.primary = "panic"]
    BY <1>5 DEF Fails
  <2>2. /\ worker' \in Workers /\ worker'.pc = "close" /\ worker'.requested = None
        /\ worker'.readySent = worker.readySent
    BY <1>3, <2>1, LeavingFields
  <2>3. /\ trace'.raw = trace.raw /\ trace'.projected = trace.projected
        /\ trace'.baseline = trace.baseline /\ trace'.maxGap = trace.maxGap
        /\ trace'.finalEnter = trace.finalEnter /\ trace'.primary = "panic"
        /\ trace' \in Traces
    BY <1>3, <2>1 DEF Traces, Causes, WorkerCauses, MonitorCauses
  <2>4. MonTypes'
    BY <1>1, <1>2, <2>2, <2>3 DEF MonTypes
  <2>5. SessionOK'
    BY <1>1, <1>2, <2>2 DEF SessionOK, SessionTypes, sessionVars, Looping, Waiting, Calling
  <2>6. trace'.primary # NoError /\ worker.pc \in Looping
    BY <1>1, <2>3 DEF NoError, Looping, Calling
  <2>7. UNCHANGED <<now, channels, monitor, files>>
    BY <1>1
  <2> QED
    BY <2>2, <2>3, <2>4, <2>5, <2>6, <2>7, FailurePreserves
<1> QED
  BY <1>4, <1>5 DEF WorkerQuery

(* Closing: one shutdown for the one init, one unload for the one load.    *)
LEMMA ClosePreserves == MonInv /\ WorkerClose => MonInv'
<1> SUFFICES ASSUME MonInv, WorkerClose
             PROVE  MonInv'
  OBVIOUS
<1>1. /\ MonTypes /\ SessionOK /\ TraceOK /\ PaceOK /\ StopOK /\ BaselineOK /\ JoinOK
      /\ worker.pc = "close" /\ UNCHANGED <<now, stop, done, monitor, files>>
  BY DEF MonInv, WorkerClose
<1>2. PICK closed \in Outcomes : trace' = [trace EXCEPT !.shutdown = closed, !.finished = TRUE]
  BY DEF WorkerClose
<1>3. worker \in Workers /\ trace \in Traces /\ now \in Nat
  BY <1>1 DEF MonTypes
<1>4. /\ worker' = [worker EXCEPT !.pc = "drop"]
      /\ ready' = IF worker.readySent THEN ready ELSE "err"
  BY DEF WorkerClose
<1>5. /\ worker' \in Workers /\ worker'.pc = "drop" /\ worker'.requested = worker.requested
      /\ worker'.readySent = worker.readySent /\ worker'.final = worker.final
  BY <1>3, <1>4 DEF Workers, WorkerPoints
<1>6. /\ trace'.raw = trace.raw /\ trace'.projected = trace.projected
      /\ trace'.baseline = trace.baseline /\ trace'.maxGap = trace.maxGap
      /\ trace'.finalEnter = trace.finalEnter /\ trace'.finalObserved = trace.finalObserved
      /\ trace'.finishRequested = trace.finishRequested
      /\ trace'.primary = trace.primary /\ trace' \in Traces
  BY <1>2, <1>3 DEF Traces
<1>7. Taken' = Taken
  BY <1>6 DEF Taken
<1>8. ready = "ok" <=> ready' = "ok"
  BY <1>1, <1>4 DEF BaselineOK
<1>9. MonTypes'
  BY <1>1, <1>4, <1>5, <1>6 DEF MonTypes
<1>10. SessionOK'
  <2>1. /\ SessionTypes /\ session.library = "open"
        /\ driver.loads = 1 /\ driver.unloads = 0 /\ driver.shutdowns = 0
        /\ driver.inits = IF session.initialized THEN 1 ELSE 0
    BY <1>1 DEF SessionOK
  <2>2. PICK sh : sh = IF session.initialized THEN driver.shutdowns + 1 ELSE driver.shutdowns
    OBVIOUS
  <2>3. SessionClose
    BY DEF WorkerClose
  <2>4. driver' = [driver EXCEPT !.shutdowns = sh, !.unloads = driver.unloads + 1]
    BY <2>1, <2>2, <2>3 DEF SessionClose, SessionTypes
  <2>5. sh \in Nat /\ sh = driver.inits /\ driver.unloads + 1 = driver.loads
    BY <2>1, <2>2
  <2>6. /\ driver'.shutdowns = sh /\ driver'.unloads = driver.unloads + 1
        /\ driver'.inits = driver.inits /\ driver'.loads = driver.loads
        /\ driver' \in [loads : Nat, unloads : Nat, inits : Nat, shutdowns : Nat]
    BY <2>1, <2>4, <2>5 DEF SessionTypes
  <2>7. session' = [session EXCEPT !.closed = TRUE, !.initialized = FALSE, !.library = "closed"]
    BY <2>1, <2>3 DEF SessionClose, SessionTypes
  <2>8. /\ session'.closed
        /\ session' \in [library : {"none", "open", "closed"}, initialized : BOOLEAN,
                         device : BOOLEAN, closed : BOOLEAN]
    BY <2>1, <2>7 DEF SessionTypes
  <2> QED
    BY <1>5, <2>5, <2>6, <2>8 DEF SessionOK, SessionTypes, Looping, Waiting, Calling
<1>11. TraceOK'
  BY <1>1, <1>3, <1>6, SamplesKept
<1>12. PaceOK'
  BY <1>1, <1>5, <1>6, <1>7 DEF PaceOK, Looping, Waiting, Calling
<1>13. StopOK'
  BY <1>1, <1>5, <1>6, <1>7 DEF StopOK, Calling, Left
<1>14. BaselineOK'
  BY <1>1, <1>5, <1>6, <1>7, <1>8 DEF BaselineOK
<1>15. JoinOK'
  BY <1>1, <1>5 DEF JoinOK
<1> QED
  BY <1>9, <1>10, <1>11, <1>12, <1>13, <1>14, <1>15 DEF MonInv

(* Dropping the session finds it closed; the thread ends.                  *)
LEMMA DropPreserves == MonInv /\ WorkerDrop => MonInv'
<1> SUFFICES ASSUME MonInv, WorkerDrop
             PROVE  MonInv'
  OBVIOUS
<1>1. /\ MonTypes /\ SessionOK /\ TraceOK /\ PaceOK /\ StopOK /\ BaselineOK /\ JoinOK
      /\ worker.pc = "drop" /\ UNCHANGED <<now, trace, stop, ready, monitor, files>>
      /\ worker' = [worker EXCEPT !.pc = "ended"] /\ done' = TRUE
  BY DEF MonInv, WorkerDrop
<1>2. worker \in Workers /\ now \in Nat
  BY <1>1 DEF MonTypes
<1>3. /\ worker' \in Workers /\ worker'.pc = "ended" /\ worker'.requested = worker.requested
      /\ worker'.readySent = worker.readySent
  BY <1>1, <1>2 DEF Workers, WorkerPoints
<1>4. Taken' = Taken
  BY <1>1 DEF Taken
<1>5. UNCHANGED sessionVars
  BY <1>1 DEF WorkerDrop, SessionDrop, SessionOK
<1>6. MonTypes'
  BY <1>1, <1>3 DEF MonTypes
<1>7. SessionOK'
  BY <1>1, <1>3, <1>5 DEF SessionOK, SessionTypes, sessionVars, Looping, Waiting, Calling
<1>8. TraceOK'
  BY <1>1, <1>2, SamplesKept
<1>9. PaceOK'
  BY <1>1, <1>3, <1>4 DEF PaceOK, Looping, Waiting, Calling
<1>10. StopOK'
  BY <1>1, <1>3, <1>4 DEF StopOK, Calling, Left
<1>11. BaselineOK'
  BY <1>1, <1>3, <1>4 DEF BaselineOK
<1>12. JoinOK'
  BY <1>1, <1>3 DEF JoinOK
<1> QED
  BY <1>6, <1>7, <1>8, <1>9, <1>10, <1>11, <1>12 DEF MonInv
(* The larger of two numbers.                                              *)
LEMMA MaxOfTwo ==
  ASSUME NEW a \in Nat, NEW b \in Int
  PROVE  Max({a, b}) \in Nat /\ Max({a, b}) >= a /\ Max({a, b}) >= b /\ Max({a, b}) \in {a, b}
<1>1. PICK m \in {a, b} : \A y \in {a, b} : m >= y
  <2>1. CASE a >= b
    BY <2>1
  <2>2. CASE b > a
    BY <2>2
  <2> QED
    BY <2>1, <2>2
<1>2. Max({a, b}) \in {a, b} /\ \A y \in {a, b} : Max({a, b}) >= y
  BY <1>1, Zenon DEF Max
<1> QED
  BY <1>2

(* What completing the pending entry does to the trace.                    *)
LEMMA RetainedEffect ==
  ASSUME MonInv, worker.pc = "observe", NEW sample \in Samples,
         sample.observed \in {None, now},
         NEW gap \in Int,
         gap = IF Taken = 0 \/ sample.observed = None THEN None
               ELSE sample.observed - trace.raw[Taken].observed
  PROVE  LET k == Retained(sample)
             base == IF Taken = 0 THEN sample.observed ELSE trace.raw[1].observed
         IN  /\ k \in Traces
             /\ Len(k.raw) = Taken + 1 /\ k.raw[Taken + 1] = sample
             /\ \A i \in 1 .. Taken : k.raw[i] = trace.raw[i]
             /\ k.primary = Refusal(sample, gap)
             /\ k.maxGap >= trace.maxGap /\ k.maxGap >= gap /\ k.maxGap \in {trace.maxGap, gap}
             /\ k.finalEnter = trace.finalEnter /\ k.finalObserved = trace.finalObserved
             /\ k.finishRequested = trace.finishRequested
             /\ k.primary # NoError => k.projected = trace.projected /\ k.baseline = trace.baseline
             /\ k.primary = NoError =>
                  /\ k.projected = Append(trace.projected, Elapsed(sample.observed, base))
                  /\ k.baseline = base
<1> DEFINE n == Taken
           before == EarlierSamples
           k == Retained(sample)
<1>1. MonTypes /\ TraceOK /\ PaceOK
  BY DEF MonInv
<1>2. /\ trace \in Traces /\ trace.raw \in Seq(Samples) /\ trace.projected \in Seq(Int) /\ n \in Nat
      /\ Len(trace.raw) = n + 1 /\ now \in Nat /\ trace.maxGap \in Nat /\ trace.baseline \in Instant
  BY <1>1 DEF MonTypes, Traces, Taken, PaceOK, Calling
<1>3. /\ before \in Seq(Samples) /\ Len(before) = n
      /\ \A i \in 1 .. n : before[i] = trace.raw[i]
  BY <1>2 DEF EarlierSamples, Front
<1>4. n > 0 => n \in 1 .. n /\ 1 \in 1 .. n
  BY <1>2
<1>5. \A i \in 1 .. n : trace.raw[i] \in Samples /\ trace.raw[i].observed \in Nat
  <2> SUFFICES ASSUME NEW i \in 1 .. n
               PROVE  trace.raw[i] \in Samples /\ trace.raw[i].observed \in Nat
    OBVIOUS
  <2>1. i \in DOMAIN trace.raw
    BY <1>2
  <2>2. trace.raw[i] \in Samples
    BY <1>2, <2>1
  <2>3. SampleOK(trace.raw[i])
    BY <1>1 DEF TraceOK
  <2> QED
    BY <2>2, <2>3 DEF Samples, SampleOK, Instant
<1> HIDE DEF n, before
<1>6. PICK prior : prior = IF before = <<>> THEN None ELSE Last(before).observed
  OBVIOUS
<1>7. prior = IF n = 0 THEN None ELSE trace.raw[n].observed
  <2>1. CASE n = 0
    BY <1>3, <1>6, <2>1
  <2>2. CASE n # 0
    <3>1. before # <<>>
      BY <1>3, <2>2
    <3>2. Last(before) = before[n]
      BY <1>3 DEF Last
    <3>3. before[n] = trace.raw[n]
      BY <1>2, <1>3, <1>4, <2>2
    <3> QED
      BY <1>6, <2>2, <3>1, <3>2, <3>3
  <2> QED
    BY <2>1, <2>2
<1>8. gap = IF prior = None \/ sample.observed = None THEN None ELSE sample.observed - prior
  <2>1. CASE n = 0
    BY <1>7, <2>1 DEF n
  <2>2. CASE n # 0
    <3>1. prior = trace.raw[n].observed /\ prior \in Nat
      BY <1>2, <1>4, <1>5, <1>7, <2>2
    <3>2. prior # None
      BY <3>1 DEF None
    <3> QED
      BY <2>2, <3>1, <3>2 DEF n
  <2> QED
    BY <2>1, <2>2
<1>9. PICK refusal : refusal = Refusal(sample, gap)
  OBVIOUS
<1>10. PICK base : base = IF trace.baseline = None THEN sample.observed ELSE trace.baseline
  OBVIOUS
<1>11. base = IF n = 0 THEN sample.observed ELSE trace.raw[1].observed
  <2>1. CASE n = 0
    BY <1>1, <1>10, <2>1 DEF TraceOK, n
  <2>2. CASE n # 0
    <3>1. trace.baseline = trace.raw[1].observed /\ trace.raw[1].observed \in Nat
      BY <1>1, <1>2, <1>4, <1>5, <2>2 DEF TraceOK, n
    <3> QED
      BY <1>10, <2>2, <3>1 DEF None
  <2> QED
    BY <2>1, <2>2
<1>12. PICK raw : raw = Append(before, sample)
  OBVIOUS
<1>13. PICK m : m = Max({trace.maxGap, gap})
  OBVIOUS
<1>14. PICK b : b = IF refusal = NoError THEN base ELSE trace.baseline
  OBVIOUS
<1>15. PICK p : p = IF refusal = NoError
                    THEN Append(trace.projected, Elapsed(sample.observed, base))
                    ELSE trace.projected
  OBVIOUS
<1>16. k = [trace EXCEPT !.raw = raw, !.maxGap = m, !.primary = refusal, !.baseline = b, !.projected = p]
  BY <1>6, <1>8, <1>9, <1>10, <1>12, <1>13, <1>14, <1>15 DEF Retained, before
<1>17. /\ raw \in Seq(Samples) /\ Len(raw) = n + 1 /\ raw[n + 1] = sample
       /\ \A i \in 1 .. n : raw[i] = trace.raw[i]
  BY <1>2, <1>3, <1>12
<1>18. m \in Nat /\ m >= trace.maxGap /\ m >= gap /\ m \in {trace.maxGap, gap}
  BY <1>2, <1>13, MaxOfTwo
<1>19. refusal \in WorkerCauses
  BY <1>9 DEF Refusal, Causes, WorkerCauses, MonitorCauses
<1>21. sample.observed \in Int /\ base \in Instant
  <2>1. sample.observed \in Instant
    BY DEF Samples
  <2> QED
    BY <1>2, <1>10, <2>1 DEF Instant, None
<1>22. Elapsed(sample.observed, base) \in Int
  <2>1. base \in Int
    BY <1>21 DEF Instant, None
  <2>2. TicksPerMs \in Nat \ {0}
    BY UnitTypes
  <2> QED
    BY <1>21, <2>1, <2>2 DEF Elapsed
<1>23. b \in Instant /\ p \in Seq(Int)
  BY <1>2, <1>14, <1>15, <1>21, <1>22
<1> HIDE DEF k
<1>20. k \in Traces
  BY <1>2, <1>16, <1>17, <1>18, <1>19, <1>23 DEF Traces
<1>24. /\ k.raw = raw /\ k.maxGap = m /\ k.primary = refusal
       /\ k.baseline = b /\ k.projected = p
       /\ k.finalEnter = trace.finalEnter /\ k.finalObserved = trace.finalObserved
       /\ k.finishRequested = trace.finishRequested
  BY <1>2, <1>16 DEF Traces
<1>25. /\ k \in Traces
       /\ Len(k.raw) = n + 1 /\ k.raw[n + 1] = sample
       /\ \A i \in 1 .. n : k.raw[i] = trace.raw[i]
       /\ k.primary = Refusal(sample, gap)
       /\ k.maxGap >= trace.maxGap /\ k.maxGap >= gap /\ k.maxGap \in {trace.maxGap, gap}
       /\ k.finalEnter = trace.finalEnter /\ k.finalObserved = trace.finalObserved
       /\ k.finishRequested = trace.finishRequested
       /\ k.primary # NoError => k.projected = trace.projected /\ k.baseline = trace.baseline
       /\ k.primary = NoError =>
            /\ k.projected = Append(trace.projected, Elapsed(sample.observed, base))
            /\ k.baseline = base
  BY <1>9, <1>14, <1>15, <1>17, <1>18, <1>20, <1>24
<1> QED
  BY <1>11, <1>25 DEF k, n
(* What an accepted sample satisfies.                                      *)
LEMMA AcceptedSample ==
  ASSUME NEW sample, NEW gap \in Int, Refusal(sample, gap) = NoError
  PROVE  /\ sample.valid /\ ~(sample.returned - sample.enter > Limit)
         /\ gap # None => gap # 0 /\ gap <= Limit
<1>1. Limit \in Nat
  BY UnitTypes
<1>2. ~(gap # None /\ ObservedInterval(gap) = None)
  BY DEF Refusal, NoError
<1>3. ~(sample.returned - sample.enter > Limit)
  BY DEF Refusal, NoError
<1>4. sample.valid
  BY DEF Refusal, NoError
<1>5. gap # None => gap # 0 /\ gap <= Limit
  BY <1>1, <1>2 DEF ObservedInterval
<1> QED
  BY <1>3, <1>4, <1>5

(* An observation is on record, accepted or refused.                       *)
LEMMA ObservePreserves == MonInv /\ WorkerObserve => MonInv'
<1> SUFFICES ASSUME MonInv, WorkerObserve
             PROVE  MonInv'
  OBVIOUS
<1> DEFINE n == Taken
<1>1. /\ MonTypes /\ SessionOK /\ TraceOK /\ PaceOK /\ StopOK /\ BaselineOK /\ JoinOK
      /\ worker.pc = "observe" /\ UNCHANGED <<now, stop, done, monitor, files, sessionVars>>
  BY DEF MonInv, WorkerObserve
<1>2. /\ worker \in Workers /\ trace \in Traces /\ now \in Nat /\ now' = now
      /\ stop' = stop /\ done' = done /\ monitor' = monitor /\ UNCHANGED sessionVars
  BY <1>1 DEF MonTypes
<1>3. /\ trace.raw \in Seq(Samples) /\ trace.projected \in Seq(Int) /\ n \in Nat
      /\ n = Len(trace.projected) /\ Len(trace.raw) = n + 1 /\ trace.maxGap \in Nat
      /\ trace.maxGap <= Limit /\ trace.primary = NoError
  BY <1>1, <1>2 DEF Traces, Taken, PaceOK, Calling, Looping
<1>4. /\ worker.enter \in Nat /\ worker.returned \in Nat
      /\ worker.enter <= worker.returned /\ worker.returned <= now
      /\ worker.final \in BOOLEAN
  BY <1>1, <1>2 DEF PaceOK, Workers
<1>5. \A i \in 1 .. n : trace.raw[i] \in Samples /\ SampleOK(trace.raw[i]) /\ trace.raw[i].observed \in Nat
  <2> SUFFICES ASSUME NEW i \in 1 .. n
               PROVE  trace.raw[i] \in Samples /\ SampleOK(trace.raw[i]) /\ trace.raw[i].observed \in Nat
    OBVIOUS
  <2>1. i \in DOMAIN trace.raw
    BY <1>3
  <2>2. trace.raw[i] \in Samples
    BY <1>3, <2>1
  <2>3. SampleOK(trace.raw[i])
    BY <1>1 DEF TraceOK
  <2> QED
    BY <2>2, <2>3 DEF Samples, SampleOK, Instant
<1>6. n > 0 => n \in 1 .. n /\ 1 \in 1 .. n
  BY <1>3
<1>7. n > 0 => now - trace.raw[n].observed >= Interval
  <2> SUFFICES ASSUME n > 0
               PROVE  now - trace.raw[n].observed >= Interval
    OBVIOUS
  <2>1. trace.raw[n].observed \in Nat
    BY <1>5, <1>6
  <2>2. worker.enter >= trace.raw[n].observed + Interval
    BY <1>1, <1>2 DEF PaceOK, Calling
  <2> QED
    BY <1>2, <1>4, <2>1, <2>2, UnitTypes
<1>8. PICK v \in BOOLEAN : v = (worker.reply = "valid")
  BY Zenon
<1>9. PICK sample : sample = [enter |-> worker.enter, returned |-> worker.returned, valid |-> v,
                              observed |-> IF v THEN now ELSE None, final |-> worker.final]
  OBVIOUS
<1>10. /\ sample \in Samples /\ sample.observed \in {None, now}
       /\ sample.enter = worker.enter /\ sample.returned = worker.returned
       /\ sample.valid = v /\ sample.observed = IF v THEN now ELSE None
  BY <1>2, <1>4, <1>9 DEF Samples, Instant, None
<1>11. PICK gap : gap = IF n = 0 \/ sample.observed = None THEN None
                        ELSE sample.observed - trace.raw[n].observed
  OBVIOUS
<1>12. gap \in Int
  <2>1. CASE n = 0 \/ sample.observed = None
    BY <1>11, <2>1 DEF None
  <2>2. CASE ~(n = 0 \/ sample.observed = None)
    BY SMTT(30), <1>2, <1>3, <1>5, <1>6, <1>10, <1>11, <2>2
  <2> QED
    BY <2>1, <2>2
<1>13. PICK kept : kept = Retained(sample)
  OBVIOUS
<1>14. PICK base : base = IF n = 0 THEN sample.observed ELSE trace.raw[1].observed
  OBVIOUS
<1>15. /\ kept \in Traces
       /\ Len(kept.raw) = n + 1 /\ kept.raw[n + 1] = sample
       /\ \A i \in 1 .. n : kept.raw[i] = trace.raw[i]
       /\ kept.primary = Refusal(sample, gap)
       /\ kept.maxGap >= trace.maxGap /\ kept.maxGap >= gap /\ kept.maxGap \in {trace.maxGap, gap}
       /\ kept.finalEnter = trace.finalEnter /\ kept.finalObserved = trace.finalObserved
       /\ kept.finishRequested = trace.finishRequested
       /\ kept.primary # NoError => kept.projected = trace.projected /\ kept.baseline = trace.baseline
       /\ kept.primary = NoError =>
            /\ kept.projected = Append(trace.projected, Elapsed(sample.observed, base))
            /\ kept.baseline = base
  BY <1>1, <1>10, <1>11, <1>12, <1>13, <1>14, RetainedEffect
<1>16. PICK good \in BOOLEAN : good = (kept.primary = NoError)
  BY Zenon
<1>17. /\ trace' = IF good /\ worker.final
                   THEN [kept EXCEPT !.finalEnter = worker.enter, !.finalObserved = now]
                   ELSE kept
       /\ ready' = IF good THEN "ok" ELSE ready
       /\ worker' = IF good /\ ~worker.final
                    THEN [NewWorker EXCEPT !.pc = "wait", !.next = now + Interval, !.readySent = TRUE,
                                           !.requested = worker.requested]
                    ELSE [Leaving EXCEPT !.readySent = Leaving.readySent \/ good]
  BY <1>8, <1>9, <1>13, <1>16 DEF WorkerObserve
<1>18. /\ trace' \in Traces /\ trace'.raw = kept.raw /\ trace'.projected = kept.projected
       /\ trace'.baseline = kept.baseline /\ trace'.maxGap = kept.maxGap
       /\ trace'.primary = kept.primary /\ trace'.finishRequested = trace.finishRequested
       /\ trace'.finalEnter = IF good /\ worker.final THEN worker.enter ELSE trace.finalEnter
       /\ trace'.finalObserved = IF good /\ worker.final THEN now ELSE trace.finalObserved
  <2>1. CASE good /\ worker.final
    BY <1>2, <1>4, <1>15, <1>17, <2>1 DEF Traces, Instant
  <2>2. CASE ~(good /\ worker.final)
    BY <1>15, <1>17, <2>2
  <2> QED
    BY <2>1, <2>2
<1>19. /\ worker' \in Workers
       /\ good /\ ~worker.final => /\ worker'.pc = "wait" /\ worker'.next = now + Interval
                                   /\ worker'.requested = worker.requested
       /\ ~(good /\ ~worker.final) => worker'.pc = "close" /\ worker'.requested = None
       /\ worker'.readySent <=> worker.readySent \/ good
  <2>1. CASE good /\ ~worker.final
    <3>1. worker' = [NewWorker EXCEPT !.pc = "wait", !.next = now + Interval, !.readySent = TRUE,
                                      !.requested = worker.requested]
      BY <1>17, <2>1
    <3>2. now + Interval \in Nat /\ worker.requested \in Instant
      BY <1>2, UnitTypes DEF Workers
    <3> QED
      BY <2>1, <3>1, <3>2, NewTypes DEF Workers, WorkerPoints
  <2>2. CASE ~(good /\ ~worker.final)
    <3>1. PICK rs \in BOOLEAN : rs = (Leaving.readySent \/ good)
      BY Zenon
    <3>2. worker' = [Leaving EXCEPT !.readySent = rs]
      BY <1>17, <2>2, <3>1
    <3>3. worker' \in Workers /\ worker'.pc = "close" /\ worker'.requested = None /\ worker'.readySent = rs
      BY <1>2, <3>2, LeavingFields DEF Workers
    <3>4. rs <=> worker.readySent \/ good
      BY <1>2, <3>1, LeavingFields
    <3> QED
      BY <2>2, <3>3, <3>4
  <2> QED
    BY <2>1, <2>2
<1>20. MonTypes'
  BY <1>1, <1>2, <1>17, <1>18, <1>19 DEF MonTypes
<1>21. worker'.pc \in {"wait", "close"}
  BY <1>19
<1>22. SessionOK'
  BY <1>1, <1>2, <1>21 DEF SessionOK, SessionTypes, sessionVars, Looping, Waiting, Calling
<1>23. JoinOK'
  BY <1>1, <1>2, <1>21 DEF JoinOK
<1>24. monitor.viaFinish => n > 0
  BY <1>1 DEF BaselineOK
<1>25. n > 0 => trace'.raw[1] = trace.raw[1] /\ trace'.raw[n] = trace.raw[n]
  BY <1>6, <1>15, <1>18
<1>26. \A i \in 1 .. n : SampleOK(trace.raw[i])' /\ trace'.raw[i] = trace.raw[i]
  <2> SUFFICES ASSUME NEW i \in 1 .. n
               PROVE  SampleOK(trace.raw[i])' /\ trace'.raw[i] = trace.raw[i]
    OBVIOUS
  <2>1. SampleOK(trace.raw[i]) /\ trace'.raw[i] = trace.raw[i]
    BY <1>5, <1>15, <1>18
  <2> QED
    BY <1>2, <2>1 DEF SampleOK
<1>27. trace.maxGap <= trace'.maxGap /\ trace'.maxGap \in Nat
  BY <1>15, <1>18 DEF Traces
<1>28. CASE ~good
  <2>1. /\ trace'.projected = trace.projected /\ trace'.baseline = trace.baseline
        /\ trace'.primary # NoError /\ trace'.finalEnter = trace.finalEnter
        /\ worker'.pc = "close" /\ worker'.requested = None /\ ready' = ready
        /\ worker'.readySent <=> worker.readySent
    BY <1>15, <1>16, <1>17, <1>18, <1>19, <1>28
  <2>2. Taken' = n
    BY <2>1 DEF Taken
  <2>3. TraceOK'
    <3>1. Len(trace'.raw) \in {n, n + 1}
      BY <1>15, <1>18
    <3>2. \A i \in 1 .. n : trace'.projected[i] = Elapsed(trace'.raw[i].observed, trace'.raw[1].observed)
      <4> SUFFICES ASSUME NEW i \in 1 .. n
                   PROVE  trace'.projected[i] = Elapsed(trace'.raw[i].observed, trace'.raw[1].observed)
        OBVIOUS
      <4>1. n > 0
        BY <1>3
      <4>2. trace.projected[i] = Elapsed(trace.raw[i].observed, trace.raw[1].observed)
        BY <1>1 DEF TraceOK
      <4> QED
        BY <1>25, <1>26, <2>1, <4>1, <4>2
    <3>3. \A i \in 2 .. n :
            LET gp == trace'.raw[i].observed - trace'.raw[i - 1].observed
            IN  gp \in Interval .. Limit /\ gp <= trace'.maxGap
      <4> SUFFICES ASSUME NEW i \in 2 .. n
                   PROVE  LET gp == trace'.raw[i].observed - trace'.raw[i - 1].observed
                          IN  gp \in Interval .. Limit /\ gp <= trace'.maxGap
        OBVIOUS
      <4>1. i \in 1 .. n /\ i - 1 \in 1 .. n
        BY <1>3
      <4>2. trace'.raw[i] = trace.raw[i] /\ trace'.raw[i - 1] = trace.raw[i - 1]
        BY <1>26, <4>1
      <4>3. PICK gp : gp = trace.raw[i].observed - trace.raw[i - 1].observed
        OBVIOUS
      <4>4. gp \in Interval .. Limit /\ gp <= trace.maxGap
        BY <1>1, <4>3 DEF TraceOK
      <4>5. gp \in Int
        BY <4>4, UnitTypes
      <4>6. gp <= trace'.maxGap
        BY <1>3, <1>27, <4>4, <4>5
      <4> QED
        BY <4>2, <4>3, <4>4, <4>6
    <3>4. trace'.baseline = IF n = 0 THEN None ELSE trace'.raw[1].observed
      BY <1>1, <1>3, <1>25, <2>1 DEF TraceOK
    <3> QED
      BY <1>26, <2>2, <3>1, <3>2, <3>3, <3>4 DEF TraceOK
  <2>4. PaceOK'
    BY <2>1 DEF PaceOK, Looping, Waiting, Calling
  <2>5. StopOK'
    BY <1>1, <1>2, <2>1 DEF StopOK, Calling, Left
  <2>6. BaselineOK'
    BY <1>1, <1>2, <1>24, <1>25, <2>1, <2>2 DEF BaselineOK
  <2> QED
    BY <1>20, <1>22, <1>23, <2>3, <2>4, <2>5, <2>6 DEF MonInv
<1>29. CASE good
  <2>1. kept.primary = NoError /\ Refusal(sample, gap) = NoError
    BY <1>15, <1>16, <1>29
  <2>2. /\ sample.valid /\ ~(sample.returned - sample.enter > Limit)
        /\ gap # None => gap # 0 /\ gap <= Limit
    BY <1>12, <2>1, AcceptedSample
  <2>3. sample.observed = now
    BY <1>10, <2>2
  <2>4. n > 0 => gap = now - trace.raw[n].observed /\ gap \in Interval .. Limit
    <3> SUFFICES ASSUME n > 0
                 PROVE  gap = now - trace.raw[n].observed /\ gap \in Interval .. Limit
      OBVIOUS
    <3>1. now # None
      BY <1>2 DEF None
    <3>2. gap = now - trace.raw[n].observed
      BY <1>3, <1>11, <2>3, <3>1
    <3>3. gap >= Interval /\ gap # None
      BY <1>7, <1>12, <3>2, UnitTypes DEF None
    <3> QED
      BY <1>12, <2>2, <3>2, <3>3, UnitTypes
  <2>5. /\ trace'.projected = Append(trace.projected, Elapsed(now, base))
        /\ trace'.baseline = base /\ trace'.primary = NoError
        /\ trace'.raw[n + 1] = sample
        /\ ready' = "ok" /\ worker'.readySent
    BY <1>15, <1>17, <1>18, <1>19, <1>29, <2>1, <2>3
  <2>6. Elapsed(now, base) \in Int
    <3>1. base \in Int
      BY <1>2, <1>3, <1>5, <1>6, <1>14, <2>3
    <3> QED
      BY <1>2, <3>1, UnitTypes DEF Elapsed
  <2>7. /\ Taken' = n + 1 /\ trace'.projected[n + 1] = Elapsed(now, base)
        /\ \A i \in 1 .. n : trace'.projected[i] = trace.projected[i]
    <3>1. PICK x : x = Elapsed(now, base)
      OBVIOUS
    <3>2. PICK q : q = trace.projected
      OBVIOUS
    <3>3. q \in Seq(Int) /\ x \in Int /\ n = Len(q)
      BY <1>3, <2>6, <3>1, <3>2
    <3>4. Len(Append(q, x)) = n + 1 /\ Append(q, x)[n + 1] = x /\ \A i \in 1 .. n : Append(q, x)[i] = q[i]
      BY <3>3
    <3> QED
      BY <2>5, <3>1, <3>2, <3>4 DEF Taken
  <2>8. SampleOK(sample)'
    <3>1. /\ sample.valid /\ sample.returned # None /\ sample.observed # None
          /\ sample.enter <= sample.returned /\ sample.returned <= sample.observed
          /\ sample.observed <= now /\ sample.returned - sample.enter <= Limit
      BY <1>2, <1>4, <1>10, <2>2, <2>3, UnitTypes DEF None
    <3> QED
      BY <1>2, <3>1 DEF SampleOK
  <2>9. trace'.raw[1].observed = base
    <3>1. CASE n = 0
      BY <1>14, <2>3, <2>5, <3>1
    <3>2. CASE n # 0
      BY <1>3, <1>14, <1>25, <3>2
    <3> QED
      BY <3>1, <3>2
  <2>10. TraceOK'
    <3>1. Len(trace'.raw) \in {n + 1, n + 2}
      BY <1>15, <1>18
    <3>2. ASSUME NEW i \in 1 .. n + 1
          PROVE  /\ SampleOK(trace.raw[i])'
                 /\ trace'.projected[i] = Elapsed(trace'.raw[i].observed, trace'.raw[1].observed)
      <4>1. CASE i = n + 1
        <5>1. SampleOK(trace.raw[i])'
          BY <2>5, <2>8, <4>1 DEF SampleOK
        <5> QED
          BY <2>3, <2>5, <2>7, <2>9, <4>1, <5>1
      <4>2. CASE i # n + 1
        <5>1. i \in 1 .. n /\ n > 0
          BY <1>3, <4>2
        <5>2. trace.projected[i] = Elapsed(trace.raw[i].observed, trace.raw[1].observed)
          BY <1>1, <5>1 DEF TraceOK
        <5>3. SampleOK(trace.raw[i])'
          BY <1>26, <5>1 DEF SampleOK
        <5> QED
          BY <1>25, <1>26, <2>7, <5>1, <5>2, <5>3
      <4> QED
        BY <4>1, <4>2
    <3>3. ASSUME NEW i \in 2 .. n + 1
          PROVE  LET gp == trace'.raw[i].observed - trace'.raw[i - 1].observed
                 IN  gp \in Interval .. Limit /\ gp <= trace'.maxGap
      <4>1. CASE i = n + 1
        <5>1. n > 0 /\ i - 1 = n
          BY <1>3, <4>1
        <5>2. trace'.raw[i].observed - trace'.raw[i - 1].observed = gap
          BY <1>25, <2>3, <2>4, <2>5, <4>1, <5>1
        <5>3. gap <= trace'.maxGap
          BY <1>12, <1>15, <1>18, <1>27
        <5> QED
          BY <2>4, <5>1, <5>2, <5>3
      <4>2. CASE i # n + 1
        <5>1. i \in 1 .. n /\ i - 1 \in 1 .. n /\ i \in 2 .. n
          BY <1>3, <4>2
        <5>2. trace'.raw[i] = trace.raw[i] /\ trace'.raw[i - 1] = trace.raw[i - 1]
          BY <1>26, <5>1
        <5>3. PICK gp : gp = trace.raw[i].observed - trace.raw[i - 1].observed
          OBVIOUS
        <5>4. gp \in Interval .. Limit /\ gp <= trace.maxGap
          BY <1>1, <5>1, <5>3 DEF TraceOK
        <5>5. gp \in Int
          BY <5>4, UnitTypes
        <5>6. gp <= trace'.maxGap
          BY <1>3, <1>27, <5>4, <5>5
        <5> QED
          BY <5>2, <5>3, <5>4, <5>6
      <4> QED
        BY <4>1, <4>2
    <3>4. trace'.baseline = IF n + 1 = 0 THEN None ELSE trace'.raw[1].observed
      BY <1>3, <2>5, <2>9
    <3>5. n + 1 + 1 = n + 2
      BY <1>3
    <3> QED
      BY <2>7, <3>1, <3>2, <3>3, <3>4, <3>5 DEF TraceOK
  <2>11. trace'.maxGap <= Limit
    <3>1. gap <= Limit
      BY <1>12, <2>2, UnitTypes DEF None
    <3> QED
      BY <1>3, <1>15, <1>18, <3>1
  <2>12. PaceOK'
    <3>1. Len(trace'.raw) = Taken'
      BY <1>15, <1>18, <2>7
    <3>2. worker'.pc \in Waiting => worker'.next >= trace'.raw[Taken'].observed + Interval
      <4> SUFFICES ASSUME worker'.pc = "wait"
                   PROVE  worker'.next >= trace'.raw[Taken'].observed + Interval
        BY <1>21 DEF Waiting
      <4>1. worker'.next = now + Interval
        BY <1>19
      <4>2. trace'.raw[Taken'].observed = now
        BY <2>3, <2>5, <2>7
      <4> QED
        BY <1>2, <4>1, <4>2, UnitTypes
    <3> QED
      BY <1>21, <2>5, <2>11, <3>1, <3>2 DEF PaceOK, Looping, Waiting, Calling
  <2>13. CASE worker.final
    <3>1. stop # None /\ trace.finishRequested = stop /\ worker.enter >= stop
      BY <1>1, <2>13 DEF StopOK, Calling
    <3>2. /\ worker'.pc = "close" /\ worker'.requested = None
          /\ trace'.finalEnter = worker.enter /\ trace'.finalObserved = now
      BY <1>18, <1>19, <1>29, <2>13
    <3>3. trace'.finalEnter # None /\ trace'.finalObserved # None
      BY <1>2, <1>4, <3>2 DEF None
    <3>4. Taken' > 0 /\ trace'.raw[Taken'].enter = worker.enter
      BY <1>3, <1>10, <2>5, <2>7
    <3>5. StopOK'
      BY <1>1, <1>2, <1>18, <3>1, <3>2, <3>3, <3>4 DEF StopOK, Calling
    <3>6. n > 0 => Taken' > 1
      BY <1>3, <2>7
    <3>7. BaselineOK'
      BY <1>1, <1>2, <1>24, <1>25, <2>5, <3>2, <3>4, <3>6 DEF BaselineOK
    <3> QED
      BY <1>20, <1>22, <1>23, <2>10, <2>12, <3>5, <3>7 DEF MonInv
  <2>14. CASE ~worker.final
    <3>1. /\ worker'.pc = "wait" /\ worker'.requested = worker.requested
          /\ trace'.finalEnter = trace.finalEnter
      BY <1>18, <1>19, <1>29, <2>14
    <3>2. StopOK'
      BY <1>1, <1>2, <1>18, <3>1 DEF StopOK, Calling, Left
    <3>3. Taken' > 0 /\ (n > 0 => Taken' > 1)
      BY <1>3, <2>7
    <3>4. BaselineOK'
      BY <1>1, <1>2, <1>24, <1>25, <2>5, <3>1, <3>3 DEF BaselineOK
    <3> QED
      BY <1>20, <1>22, <1>23, <2>10, <2>12, <3>2, <3>4 DEF MonInv
  <2> QED
    BY <1>4, <2>13, <2>14
<1> QED
  BY <1>28, <1>29
-----------------------------------------------------------------------------
(* The steps of the benchmark thread, and of the clock.                    *)

(* While the worker and its trace rest, what is said of them stays true.   *)
LEMMA WorkerKept ==
  ASSUME MonInv, UNCHANGED <<now, trace, worker, sessionVars>>
  PROVE  SessionOK' /\ TraceOK' /\ PaceOK' /\ Taken' = Taken
<1>1. /\ MonTypes /\ SessionOK /\ TraceOK /\ PaceOK /\ now \in Nat
      /\ now' = now /\ trace' = trace /\ worker' = worker /\ UNCHANGED sessionVars
  BY DEF MonInv, MonTypes
<1>2. SessionOK'
  BY <1>1, SessionKept
<1>3. TraceOK'
  BY <1>1, SamplesKept
<1>4. Taken' = Taken
  BY <1>1 DEF Taken
<1>5. PaceOK'
  BY <1>1, <1>4 DEF PaceOK
<1> QED
  BY <1>2, <1>3, <1>4, <1>5

(* Starting the worker, or failing before there is one.                    *)
LEMMA StartPreserves == MonInv /\ Start => MonInv'
<1> SUFFICES ASSUME MonInv, Start
             PROVE  MonInv'
  OBVIOUS
<1>1. /\ MonTypes /\ SessionOK /\ TraceOK /\ PaceOK /\ StopOK /\ BaselineOK /\ JoinOK
      /\ monitor.pc = "idle" /\ UNCHANGED <<now, trace, channels, sessionVars>>
  BY DEF MonInv, Start
<1>2. /\ now' = now /\ trace' = trace /\ stop' = stop /\ ready' = ready /\ done' = done
      /\ UNCHANGED sessionVars /\ now \in Nat
      /\ worker \in Workers /\ monitor \in Monitors /\ worker.pc = "unborn"
      /\ ~monitor.viaFinish /\ stop = None
  BY <1>1 DEF channels, MonTypes, JoinOK, BaselineOK, StopOK
<1>3. TraceOK' /\ Taken' = Taken
  BY <1>1, <1>2, SamplesKept DEF Taken
<1>4. CASE monitor' = [monitor EXCEPT !.pc = "baseline"] /\ worker' = [worker EXCEPT !.pc = "open"]
  <2>1. /\ worker' \in Workers /\ worker'.pc = "open" /\ worker'.requested = worker.requested
        /\ worker'.readySent = worker.readySent
    BY <1>2, <1>4 DEF Workers, WorkerPoints
  <2>2. /\ monitor' \in Monitors /\ monitor'.pc = "baseline" /\ ~monitor'.viaFinish
        /\ monitor'.timedOut = monitor.timedOut /\ monitor'.failure = monitor.failure
        /\ monitor'.result = monitor.result
    BY <1>2, <1>4 DEF Monitors, MonitorPoints
  <2>3. MonTypes'
    BY <1>1, <1>2, <2>1, <2>2 DEF MonTypes
  <2>4. SessionOK'
    BY <1>1, <1>2, <2>1 DEF SessionOK, SessionTypes, sessionVars, Looping, Waiting, Calling
  <2>5. PaceOK'
    BY <1>1, <1>2, <1>3, <2>1 DEF PaceOK, Looping, Waiting, Calling
  <2>6. StopOK'
    BY <1>1, <1>2, <1>3, <2>1, <2>2 DEF StopOK, Calling, Left
  <2>7. BaselineOK'
    BY <1>1, <1>2, <1>3, <2>1, <2>2 DEF BaselineOK
  <2>8. JoinOK'
    BY <1>1, <1>2, <2>1, <2>2 DEF JoinOK
  <2> QED
    BY <1>3, <2>3, <2>4, <2>5, <2>6, <2>7, <2>8 DEF MonInv
<1>5. CASE /\ monitor' = [monitor EXCEPT !.pc = "returned", !.result = "err", !.saved = TRUE]
           /\ worker' = worker
  <2>1. /\ monitor' \in Monitors /\ monitor'.pc = "returned" /\ ~monitor'.viaFinish
        /\ monitor'.timedOut = monitor.timedOut /\ monitor'.failure = monitor.failure
        /\ monitor'.result = "err"
    BY <1>2, <1>5 DEF Monitors, MonitorPoints
  <2>2. MonTypes'
    BY <1>1, <1>2, <1>5, <2>1 DEF MonTypes
  <2>3. SessionOK' /\ PaceOK'
    BY <1>2, <1>5, WorkerKept
  <2>4. StopOK'
    BY <1>1, <1>2, <1>3, <1>5, <2>1 DEF StopOK, Calling, Left
  <2>5. BaselineOK'
    BY <1>1, <1>2, <1>3, <1>5, <2>1 DEF BaselineOK
  <2>6. JoinOK'
    BY <1>1, <1>2, <1>5, <2>1 DEF JoinOK
  <2> QED
    BY <1>3, <2>2, <2>3, <2>4, <2>5, <2>6 DEF MonInv
<1> QED
  BY <1>4, <1>5 DEF Start

(* The baseline arrived, or its wait failed.                               *)
LEMMA BaselinePreserves == MonInv /\ AwaitBaseline => MonInv'
<1> SUFFICES ASSUME MonInv, AwaitBaseline
             PROVE  MonInv'
  OBVIOUS
<1>1. /\ MonTypes /\ StopOK /\ BaselineOK /\ JoinOK /\ monitor.pc = "baseline"
      /\ UNCHANGED <<now, trace, worker, channels, sessionVars>>
  BY DEF MonInv, AwaitBaseline
<1>2. /\ now' = now /\ trace' = trace /\ worker' = worker
      /\ stop' = stop /\ ready' = ready /\ done' = done
      /\ monitor \in Monitors /\ ~monitor.viaFinish /\ stop = None /\ monitor.result # "ok"
  BY <1>1 DEF channels, MonTypes, BaselineOK, StopOK, JoinOK
<1>3. SessionOK' /\ TraceOK' /\ PaceOK' /\ Taken' = Taken
  BY <1>1, WorkerKept
<1>4. /\ monitor' \in Monitors /\ ~monitor'.viaFinish /\ monitor'.result = monitor.result
      /\ monitor'.timedOut = monitor.timedOut
      /\ monitor'.timedOut => monitor'.failure # NoError
      /\ monitor'.failure \in MonitorCauses
      /\ \/ monitor'.pc = "running" /\ ready = "ok"
         \/ monitor'.pc = "close" /\ monitor'.failure # NoError
  <2>1. CASE ready = "ok" /\ monitor' = [monitor EXCEPT !.pc = "running"]
    BY <1>1, <1>2, <2>1 DEF Monitors, MonitorPoints, JoinOK, MonitorCauses
  <2>2. CASE monitor' = [monitor EXCEPT !.pc = "close", !.failure = "baseline"]
    BY <1>1, <1>2, <2>2 DEF Monitors, MonitorPoints, Causes, WorkerCauses, MonitorCauses, NoError
  <2> QED
    BY <2>1, <2>2 DEF AwaitBaseline
<1>5. MonTypes'
  BY <1>1, <1>2, <1>4 DEF MonTypes
<1>6. StopOK'
  BY <1>1, <1>2, <1>3, <1>4 DEF StopOK
<1>7. BaselineOK'
  BY <1>1, <1>2, <1>3, <1>4 DEF BaselineOK
<1>8. JoinOK'
  BY <1>1, <1>2, <1>4 DEF JoinOK
<1> QED
  BY <1>3, <1>5, <1>6, <1>7, <1>8 DEF MonInv
(* The end of the benchmark: no final sample was taken before a stop was   *)
(* requested.                                                              *)
LEMMA FinishPreserves == MonInv /\ Finish => MonInv'
<1> SUFFICES ASSUME MonInv, Finish
             PROVE  MonInv'
  OBVIOUS
<1>1. /\ MonTypes /\ StopOK /\ BaselineOK /\ JoinOK /\ monitor.pc = "running"
      /\ UNCHANGED <<now, trace, worker, channels, sessionVars>>
  BY DEF MonInv, Finish
<1>2. /\ now' = now /\ trace' = trace /\ worker' = worker
      /\ stop' = stop /\ ready' = ready /\ done' = done
      /\ monitor \in Monitors /\ stop = None /\ ready = "ok" /\ trace.finalEnter = None
      /\ monitor.result # "ok"
  BY <1>1 DEF channels, MonTypes, BaselineOK, StopOK, JoinOK
<1>3. SessionOK' /\ TraceOK' /\ PaceOK' /\ Taken' = Taken
  BY <1>1, WorkerKept
<1>4. /\ monitor' \in Monitors /\ monitor'.pc = "close" /\ monitor'.result = monitor.result
      /\ monitor'.timedOut => monitor'.failure # NoError
      /\ monitor'.failure \in MonitorCauses
      /\ monitor'.viaFinish \/ monitor'.failure # NoError
  <2>1. CASE monitor' = [monitor EXCEPT !.pc = "close", !.viaFinish = TRUE]
    BY <1>1, <1>2, <2>1 DEF Monitors, MonitorPoints, JoinOK, MonitorCauses
  <2>2. CASE monitor' = [monitor EXCEPT !.pc = "close", !.failure = "dropped"]
    BY <1>1, <1>2, <2>2 DEF Monitors, MonitorPoints, Causes, WorkerCauses, MonitorCauses, NoError
  <2> QED
    BY <2>1, <2>2 DEF Finish
<1>5. MonTypes'
  BY <1>1, <1>2, <1>4 DEF MonTypes
<1>6. StopOK'
  BY <1>1, <1>2, <1>3, <1>4 DEF StopOK
<1>7. BaselineOK'
  BY <1>1, <1>2, <1>3, <1>4 DEF BaselineOK
<1>8. JoinOK'
  BY <1>1, <1>2, <1>4 DEF JoinOK
<1> QED
  BY <1>3, <1>5, <1>6, <1>7, <1>8 DEF MonInv

(* The request is made once, after the baseline was observed.              *)
LEMMA RequestPreserves == MonInv /\ RequestStop => MonInv'
<1> SUFFICES ASSUME MonInv, RequestStop
             PROVE  MonInv'
  OBVIOUS
<1>1. /\ MonTypes /\ TraceOK /\ StopOK /\ BaselineOK /\ JoinOK /\ monitor.pc = "close"
      /\ stop' = now
      /\ monitor' = [monitor EXCEPT !.pc = "acknowledge", !.finishRequested = now]
      /\ UNCHANGED <<now, trace, worker, ready, done, files, sessionVars>>
  BY DEF MonInv, RequestStop
<1>2. /\ now' = now /\ trace' = trace /\ worker' = worker /\ ready' = ready /\ done' = done
      /\ monitor \in Monitors /\ stop = None /\ now \in Nat /\ trace.finalEnter = None
      /\ worker.requested = None /\ monitor.result # "ok" /\ trace \in Traces
  BY <1>1 DEF MonTypes, StopOK, JoinOK
<1>3. SessionOK' /\ TraceOK' /\ PaceOK' /\ Taken' = Taken
  BY <1>1, WorkerKept
<1>4. /\ monitor' \in Monitors /\ monitor'.pc = "acknowledge" /\ monitor'.finishRequested = now
      /\ monitor'.viaFinish = monitor.viaFinish /\ monitor'.result = monitor.result
      /\ monitor'.timedOut = monitor.timedOut /\ monitor'.failure = monitor.failure
  BY <1>1, <1>2 DEF Monitors, MonitorPoints, Instant
<1>5. now # None /\ now \in Instant
  BY <1>2 DEF None, Instant
<1>6. MonTypes'
  BY <1>1, <1>2, <1>4, <1>5 DEF MonTypes
<1>7. StopOK'
  BY <1>1, <1>2, <1>3, <1>4, <1>5 DEF StopOK, Calling, Left
<1>8. monitor.viaFinish => trace.raw[1].enter <= now
  <2> SUFFICES ASSUME monitor.viaFinish
               PROVE  trace.raw[1].enter <= now
    OBVIOUS
  <2>1. Taken > 0
    BY <1>1 DEF BaselineOK
  <2>2. trace.raw \in Seq(Samples) /\ Len(trace.raw) \in {Taken, Taken + 1} /\ Taken \in Nat
    BY <1>1, <1>2 DEF Traces, TraceOK, Taken
  <2>3. 1 \in DOMAIN trace.raw /\ 1 \in 1 .. Taken
    BY <2>1, <2>2
  <2>4. trace.raw[1] \in Samples /\ SampleOK(trace.raw[1])
    BY <1>1, <2>2, <2>3 DEF TraceOK
  <2>5. trace.raw[1].enter \in Nat /\ trace.raw[1].returned \in Nat /\ trace.raw[1].observed \in Nat
    BY <2>4 DEF Samples, SampleOK, Instant
  <2> QED
    BY <1>2, <2>4, <2>5 DEF SampleOK
<1>9. BaselineOK'
  BY <1>1, <1>2, <1>3, <1>4, <1>8 DEF BaselineOK
<1>10. JoinOK'
  BY <1>1, <1>2, <1>4 DEF JoinOK
<1> QED
  BY <1>3, <1>6, <1>7, <1>9, <1>10 DEF MonInv

(* The acknowledgement, or its deadline.                                   *)
LEMMA AcknowledgePreserves == MonInv /\ AwaitDone => MonInv'
<1> SUFFICES ASSUME MonInv, AwaitDone
             PROVE  MonInv'
  OBVIOUS
<1>1. /\ MonTypes /\ StopOK /\ BaselineOK /\ JoinOK /\ monitor.pc = "acknowledge"
      /\ UNCHANGED <<now, trace, worker, channels, sessionVars>>
  BY DEF MonInv, AwaitDone
<1>2. /\ now' = now /\ trace' = trace /\ worker' = worker
      /\ stop' = stop /\ ready' = ready /\ done' = done
      /\ monitor \in Monitors /\ monitor.result # "ok"
  BY <1>1 DEF channels, MonTypes, JoinOK
<1>3. SessionOK' /\ TraceOK' /\ PaceOK' /\ Taken' = Taken
  BY <1>1, WorkerKept
<1>4. /\ monitor' \in Monitors /\ monitor'.pc = "join" /\ monitor'.result = monitor.result
      /\ monitor'.finishRequested = monitor.finishRequested
      /\ monitor'.viaFinish = monitor.viaFinish
      /\ monitor'.timedOut => monitor'.failure # NoError
      /\ monitor'.failure \in MonitorCauses
      /\ monitor'.failure = monitor.failure \/ monitor'.failure # NoError
  <2>1. CASE monitor' = [monitor EXCEPT !.pc = "join"]
    BY <1>1, <1>2, <2>1 DEF Monitors, MonitorPoints, JoinOK, MonitorCauses
  <2>2. CASE monitor' = [monitor EXCEPT !.pc = "join", !.timedOut = TRUE,
                           !.failure = IF @ = NoError THEN "ack_timeout" ELSE @]
    <3>1. PICK f : f = IF monitor.failure = NoError THEN "ack_timeout" ELSE monitor.failure
      OBVIOUS
    <3>2. f \in Causes /\ f \in MonitorCauses /\ f # NoError
      BY <1>1, <1>2, <3>1 DEF JoinOK, Monitors, Causes, WorkerCauses, MonitorCauses, NoError
    <3>3. monitor' = [monitor EXCEPT !.pc = "join", !.timedOut = TRUE, !.failure = f]
      BY <2>2, <3>1
    <3> QED
      BY <1>2, <3>2, <3>3 DEF Monitors, MonitorPoints
  <2> QED
    BY <2>1, <2>2 DEF AwaitDone
<1>5. MonTypes'
  BY <1>1, <1>2, <1>4 DEF MonTypes
<1>6. StopOK'
  BY <1>1, <1>2, <1>3, <1>4 DEF StopOK
<1>7. BaselineOK'
  BY <1>1, <1>2, <1>3, <1>4 DEF BaselineOK
<1>8. JoinOK'
  BY <1>1, <1>2, <1>4 DEF JoinOK
<1> QED
  BY <1>3, <1>5, <1>6, <1>7, <1>8 DEF MonInv

(* The worker is joined, and its last trace taken.                         *)
LEMMA JoinPreserves == MonInv /\ Join => MonInv'
<1> SUFFICES ASSUME MonInv, Join
             PROVE  MonInv'
  OBVIOUS
<1>1. /\ MonTypes /\ StopOK /\ BaselineOK /\ JoinOK /\ monitor.pc = "join" /\ worker.pc = "ended"
      /\ monitor' = [monitor EXCEPT !.pc = "evidence", !.joined = TRUE, !.trace = trace]
      /\ UNCHANGED <<now, trace, worker, channels, sessionVars>>
  BY DEF MonInv, Join
<1>2. /\ now' = now /\ trace' = trace /\ worker' = worker
      /\ stop' = stop /\ ready' = ready /\ done' = done
      /\ monitor \in Monitors /\ trace \in Traces /\ monitor.result # "ok"
  BY <1>1 DEF channels, MonTypes, JoinOK
<1>3. SessionOK' /\ TraceOK' /\ PaceOK' /\ Taken' = Taken
  BY <1>1, WorkerKept
<1>4. /\ monitor' \in Monitors /\ monitor'.pc = "evidence" /\ monitor'.result = monitor.result
      /\ monitor'.finishRequested = monitor.finishRequested
      /\ monitor'.viaFinish = monitor.viaFinish /\ monitor'.failure = monitor.failure
      /\ monitor'.timedOut = monitor.timedOut /\ monitor'.joined /\ monitor'.trace = trace
  BY <1>1, <1>2 DEF Monitors, MonitorPoints
<1>5. MonTypes'
  BY <1>1, <1>2, <1>4 DEF MonTypes
<1>6. StopOK'
  BY <1>1, <1>2, <1>3, <1>4 DEF StopOK
<1>7. BaselineOK'
  BY <1>1, <1>2, <1>3, <1>4 DEF BaselineOK
<1>8. JoinOK'
  BY <1>1, <1>2, <1>4 DEF JoinOK
<1> QED
  BY <1>3, <1>5, <1>6, <1>7, <1>8 DEF MonInv
(* What the absence of a refusal means.                                    *)
LEMMA NoRefusal ==
  Evidence = NoError <=>
    /\ monitor.failure = NoError /\ monitor.trace.primary = NoError
    /\ monitor.trace.shutdown = "ok" /\ monitor.joined
    /\ monitor.trace.finishRequested = monitor.finishRequested
    /\ ~(monitor.trace.finalEnter < monitor.finishRequested)
    /\ monitor.trace.finalObserved # None
    /\ ValidEvidence(ObservedInterval(monitor.trace.maxGap), monitor.trace.projected)
<1> DEFINE f == monitor.failure
           p == monitor.trace.primary
           A == monitor.trace.shutdown # "ok" \/ ~monitor.joined
           B == \/ monitor.trace.finishRequested # monitor.finishRequested
                \/ monitor.trace.finalEnter < monitor.finishRequested
                \/ monitor.trace.finalObserved = None
           C == ~ValidEvidence(ObservedInterval(monitor.trace.maxGap), monitor.trace.projected)
<1>1. Evidence = IF f # NoError THEN f ELSE IF p # NoError THEN p ELSE IF A THEN "shutdown"
                   ELSE IF B THEN "final" ELSE IF C THEN "samples" ELSE NoError
  BY Zenon DEF Evidence
<1>2. Evidence = NoError <=> f = NoError /\ p = NoError /\ ~A /\ ~B /\ ~C
  <2> HIDE DEF f, p, A, B, C
  <2>1. NoError = "none"
    BY DEF NoError
  <2> QED
    BY <1>1, <2>1
<1> QED
  BY <1>2, Zenon

(* A refusal has a cause.                                                  *)
LEMMA RefusalTypes ==
  ASSUME monitor \in Monitors
  PROVE  Evidence \in Causes
<1> DEFINE f == monitor.failure
           p == monitor.trace.primary
           A == monitor.trace.shutdown # "ok" \/ ~monitor.joined
           B == \/ monitor.trace.finishRequested # monitor.finishRequested
                \/ monitor.trace.finalEnter < monitor.finishRequested
                \/ monitor.trace.finalObserved = None
           C == ~ValidEvidence(ObservedInterval(monitor.trace.maxGap), monitor.trace.projected)
<1>1. Evidence = IF f # NoError THEN f ELSE IF p # NoError THEN p ELSE IF A THEN "shutdown"
                   ELSE IF B THEN "final" ELSE IF C THEN "samples" ELSE NoError
  BY Zenon DEF Evidence
<1>2. f \in Causes /\ p \in Causes
  <2>1. monitor.trace \in Traces
    BY DEF Monitors
  <2>2. f \in Causes /\ p \in WorkerCauses
    BY <2>1 DEF Monitors, Traces
  <2> QED
    BY <2>2 DEF Causes
<1> HIDE DEF f, p, A, B, C
<1>3. {"shutdown", "final", "samples", NoError} \subseteq Causes
  BY DEF Causes, WorkerCauses, MonitorCauses
<1> QED
  BY <1>1, <1>2, <1>3

(* The record is saved: success is reported only without a refusal, which  *)
(* the result keeps.                                                       *)
LEMMA SavePreserves == MonInv /\ SaveResult => MonInv'
<1> SUFFICES ASSUME MonInv, SaveResult
             PROVE  MonInv'
  OBVIOUS
<1>1. /\ MonTypes /\ StopOK /\ BaselineOK /\ JoinOK /\ monitor.pc = "evidence"
      /\ UNCHANGED <<now, trace, worker, channels, sessionVars>>
  BY DEF MonInv, SaveResult
<1>2. /\ now' = now /\ trace' = trace /\ worker' = worker
      /\ stop' = stop /\ ready' = ready /\ done' = done
      /\ monitor \in Monitors /\ worker.pc = "ended" /\ monitor.joined /\ monitor.trace = trace
  BY <1>1 DEF channels, MonTypes, JoinOK
<1>3. SessionOK' /\ TraceOK' /\ PaceOK' /\ Taken' = Taken
  BY <1>1, WorkerKept
<1>4. PICK refusal : refusal = IF monitor.viaFinish THEN Evidence ELSE monitor.failure
  OBVIOUS
<1>5. refusal \in Causes
  BY <1>2, <1>4, RefusalTypes DEF Monitors
<1>6. PICK r \in {"ok", "err"} :
        /\ monitor' = [monitor EXCEPT !.pc = "returned", !.saved = TRUE, !.failure = refusal, !.result = r]
        /\ r = "ok" => refusal = NoError
  <2>1. CASE monitor' = [monitor EXCEPT !.pc = "returned", !.saved = TRUE, !.failure = refusal,
                           !.result = IF refusal = NoError THEN "ok" ELSE "err"]
    <3>1. CASE refusal = NoError
      BY <2>1, <3>1
    <3>2. CASE refusal # NoError
      BY <2>1, <3>2
    <3> QED
      BY <3>1, <3>2
  <2>2. CASE monitor' = [monitor EXCEPT !.pc = "returned", !.saved = TRUE, !.failure = refusal,
                           !.result = "err"]
    BY <2>2
  <2> QED
    BY <1>4, <2>1, <2>2 DEF SaveResult
<1>7. /\ monitor' \in Monitors /\ monitor'.pc = "returned" /\ monitor'.result = r
      /\ monitor'.failure = refusal /\ monitor'.finishRequested = monitor.finishRequested
      /\ monitor'.viaFinish = monitor.viaFinish /\ monitor'.timedOut = monitor.timedOut
      /\ monitor'.joined = monitor.joined /\ monitor'.trace = monitor.trace
  BY <1>2, <1>5, <1>6 DEF Monitors, MonitorPoints
<1>8. MonTypes'
  BY <1>1, <1>2, <1>7 DEF MonTypes
<1>9. StopOK'
  BY <1>1, <1>2, <1>3, <1>7 DEF StopOK
<1>10. BaselineOK'
  BY <1>1, <1>2, <1>3, <1>7 DEF BaselineOK
<1>11. monitor.failure # NoError => refusal # NoError
  BY <1>4, NoRefusal
<1>12. r = "ok" => monitor.viaFinish /\ Evidence'= NoError
  <2> SUFFICES ASSUME r = "ok"
               PROVE  monitor.viaFinish /\ Evidence' = NoError
    OBVIOUS
  <2>1. refusal = NoError /\ monitor.failure = NoError
    BY <1>6, <1>11
  <2>2. monitor.viaFinish
    BY <1>1, <2>1 DEF JoinOK
  <2>3. Evidence = NoError
    BY <1>4, <2>1, <2>2
  <2>4. (Evidence = NoError <=>
           /\ monitor.failure = NoError /\ monitor.trace.primary = NoError
           /\ monitor.trace.shutdown = "ok" /\ monitor.joined
           /\ monitor.trace.finishRequested = monitor.finishRequested
           /\ ~(monitor.trace.finalEnter < monitor.finishRequested)
           /\ monitor.trace.finalObserved # None
           /\ ValidEvidence(ObservedInterval(monitor.trace.maxGap), monitor.trace.projected))'
    BY NoRefusal, PTL
  <2>5. ValidEvidence(ObservedInterval(monitor.trace.maxGap), monitor.trace.projected)'
          = ValidEvidence(ObservedInterval(monitor.trace.maxGap), monitor.trace.projected)
    BY <1>7 DEF ValidEvidence, ObservedInterval
  <2> QED
    BY <1>7, <2>1, <2>2, <2>3, <2>4, <2>5, NoRefusal
<1>13. JoinOK'
  BY <1>1, <1>2, <1>7, <1>11, <1>12 DEF JoinOK
<1> QED
  BY <1>3, <1>8, <1>9, <1>10, <1>13 DEF MonInv

(* Time passes.                                                            *)
LEMMA TickPreserves == MonInv /\ Tick => MonInv'
<1> SUFFICES ASSUME MonInv, Tick
             PROVE  MonInv'
  OBVIOUS
<1>1. /\ MonTypes /\ SessionOK /\ TraceOK /\ PaceOK /\ StopOK /\ BaselineOK /\ JoinOK
      /\ worker.pc \in Looping /\ now' = now + 1
      /\ UNCHANGED <<trace, worker, channels, monitor, files, sessionVars>>
  BY DEF MonInv, Tick, Looping, Waiting, Calling
<1>2. /\ trace' = trace /\ worker' = worker /\ stop' = stop /\ ready' = ready /\ done' = done
      /\ monitor' = monitor /\ now \in Nat /\ worker \in Workers
      /\ worker.enter \in Nat /\ worker.returned \in Nat
  BY <1>1 DEF channels, MonTypes, Workers
<1>3. TraceOK' /\ Taken' = Taken
  BY <1>1, <1>2, SamplesKept DEF Taken
<1>4. MonTypes'
  BY <1>1, <1>2 DEF MonTypes
<1>5. SessionOK'
  BY <1>1, <1>2, SessionKept
<1>6. PaceOK'
  <2>1. /\ worker.enter <= now => worker.enter <= now + 1
        /\ worker.returned <= now => worker.returned <= now + 1
    BY <1>2
  <2> QED
    BY <1>1, <1>2, <1>3, <2>1 DEF PaceOK
<1>7. StopOK' /\ BaselineOK'
  BY <1>1, <1>2, <1>3 DEF StopOK, BaselineOK
<1>8. JoinOK'
  BY <1>1, <1>2 DEF JoinOK, Evidence
<1> QED
  BY <1>3, <1>4, <1>5, <1>6, <1>7, <1>8 DEF MonInv

(* Every step keeps the invariant.                                         *)
LEMMA MonStep == MonInv /\ [MonNext]_monVars => MonInv'
<1>1. MonInv /\ UNCHANGED monVars => MonInv'
  <2> SUFFICES ASSUME MonInv, UNCHANGED monVars
               PROVE  MonInv'
    OBVIOUS
  <2>1. /\ MonTypes /\ StopOK /\ BaselineOK /\ JoinOK
        /\ UNCHANGED <<now, trace, worker, sessionVars>>
        /\ stop' = stop /\ ready' = ready /\ done' = done /\ monitor' = monitor
        /\ trace' = trace /\ worker' = worker /\ now' = now
    BY DEF MonInv, monVars, channels
  <2>2. SessionOK' /\ TraceOK' /\ PaceOK' /\ Taken' = Taken
    BY <2>1, WorkerKept
  <2>3. MonTypes'
    BY <2>1 DEF MonTypes
  <2>4. StopOK' /\ BaselineOK'
    BY <2>1, <2>2 DEF StopOK, BaselineOK
  <2>5. JoinOK'
    BY <2>1 DEF JoinOK, Evidence
  <2> QED
    BY <2>2, <2>3, <2>4, <2>5 DEF MonInv
<1> QED
  BY <1>1, OpenPreserves, InitializePreserves, WaitPreserves, EnterPreserves, QueryPreserves,
     ObservePreserves, ClosePreserves, DropPreserves, StartPreserves, FinishPreserves,
     BaselinePreserves, RequestPreserves, AcknowledgePreserves, JoinPreserves, SavePreserves,
     TickPreserves DEF MonNext, WorkerStep, MonitorStep
-----------------------------------------------------------------------------
(* What the invariant says of the properties.                              *)

(* A worker that ended without an error has sampled the whole call: two    *)
(* samples at least, no hole, and the last one entered after the stop.     *)
LEMMA CleanTrace ==
  ASSUME MonInv, worker.pc = "ended", trace.primary = NoError, monitor.viaFinish,
         monitor.finishRequested = stop
  PROVE  /\ Taken \in Nat /\ Taken > 1 /\ Len(trace.raw) = Taken /\ Len(trace.projected) = Taken
         /\ trace.maxGap \in Nat /\ trace.maxGap <= Limit
         /\ \A i \in 1 .. Taken :
              /\ SampleOK(trace.raw[i]) /\ trace.raw[i].observed \in Nat
              /\ trace.projected[i] = Elapsed(trace.raw[i].observed, trace.raw[1].observed)
         /\ \A i \in 2 .. Taken :
              /\ trace.raw[i].observed - trace.raw[i - 1].observed \in Interval .. Limit
              /\ trace.raw[i].observed - trace.raw[i - 1].observed <= trace.maxGap
         /\ trace.raw[1].enter <= stop /\ trace.raw[Taken].enter >= stop
         /\ trace.finishRequested = stop /\ ~(trace.finalEnter < stop) /\ trace.finalObserved # None
         /\ stop \in Nat
<1>1. /\ MonTypes /\ TraceOK /\ PaceOK /\ StopOK /\ BaselineOK /\ trace \in Traces /\ stop \in Instant
  BY DEF MonInv, MonTypes
<1>2. /\ trace.raw \in Seq(Samples) /\ trace.projected \in Seq(Int) /\ trace.maxGap \in Nat
      /\ trace.finalEnter \in Instant /\ Taken \in Nat /\ Taken = Len(trace.projected)
  BY <1>1 DEF Traces, Taken
<1>3. /\ trace.maxGap <= Limit /\ Len(trace.raw) = Taken
      /\ stop # None /\ trace.finishRequested = stop
      /\ trace.finalEnter # None /\ trace.finalObserved # None
      /\ trace.finalEnter >= stop /\ trace.raw[Taken].enter = trace.finalEnter
  BY <1>1 DEF PaceOK, StopOK, Calling, Left
<1>4. Taken > 1 /\ trace.raw[1].enter <= stop
  BY <1>1, <1>3 DEF BaselineOK
<1>5. stop \in Nat /\ trace.finalEnter \in Nat
  BY <1>1, <1>2, <1>3 DEF Instant
<1>6. ~(trace.finalEnter < stop)
  BY <1>3, <1>5
<1>7. ASSUME NEW i \in 1 .. Taken
      PROVE  /\ SampleOK(trace.raw[i]) /\ trace.raw[i].observed \in Nat
             /\ trace.projected[i] = Elapsed(trace.raw[i].observed, trace.raw[1].observed)
  <2>1. i \in DOMAIN trace.raw
    BY <1>2, <1>3
  <2>2. trace.raw[i] \in Samples
    BY <1>2, <2>1
  <2>3. /\ SampleOK(trace.raw[i])
        /\ trace.projected[i] = Elapsed(trace.raw[i].observed, trace.raw[1].observed)
    BY <1>1 DEF TraceOK
  <2> QED
    BY <2>2, <2>3 DEF Samples, SampleOK, Instant
<1>8. \A i \in 2 .. Taken :
        /\ trace.raw[i].observed - trace.raw[i - 1].observed \in Interval .. Limit
        /\ trace.raw[i].observed - trace.raw[i - 1].observed <= trace.maxGap
  BY <1>1 DEF TraceOK
<1> QED
  BY <1>2, <1>3, <1>4, <1>5, <1>6, <1>7, <1>8

(* An accepted record covers the call.                                     *)
LEMMA CoversCall == MonInv => AcceptedCoversCall
<1> SUFFICES ASSUME MonInv, monitor.result = "ok"
             PROVE  LET raw == monitor.trace.raw
                    IN /\ \A i \in DOMAIN raw : raw[i].valid /\ raw[i].returned - raw[i].enter <= Limit
                       /\ \A i \in 2 .. Len(raw) : raw[i].observed - raw[i - 1].observed \in 1 .. Limit
                       /\ Len(raw) >= 2 /\ raw[1].enter <= monitor.finishRequested
                       /\ Last(raw).enter >= monitor.finishRequested
  BY DEF AcceptedCoversCall
<1>1. /\ monitor.pc = "returned" /\ worker.pc = "ended" /\ monitor.trace = trace
      /\ monitor.viaFinish /\ Evidence = NoError
  BY DEF MonInv, JoinOK
<1>2. monitor.trace.primary = NoError
  BY <1>1, NoRefusal
<1>3. trace.primary = NoError
  BY <1>1, <1>2
<1>4. monitor.finishRequested = stop
  BY <1>1 DEF MonInv, StopOK
<1>5. PICK raw : raw = trace.raw
  OBVIOUS
<1>6. /\ Taken \in Nat /\ Taken > 1 /\ Len(raw) = Taken /\ raw \in Seq(Samples)
      /\ \A i \in 1 .. Taken : SampleOK(raw[i])
      /\ \A i \in 2 .. Taken : raw[i].observed - raw[i - 1].observed \in Interval .. Limit
      /\ raw[1].enter <= stop /\ raw[Taken].enter >= stop
  BY <1>1, <1>3, <1>4, <1>5, CleanTrace DEF MonInv, MonTypes, Traces
<1>7. DOMAIN raw = 1 .. Taken
  BY <1>6
<1>8. \A i \in DOMAIN raw : raw[i].valid /\ raw[i].returned - raw[i].enter <= Limit
  BY <1>6, <1>7 DEF SampleOK
<1>9. \A i \in 2 .. Len(raw) : raw[i].observed - raw[i - 1].observed \in 1 .. Limit
  <2> SUFFICES ASSUME NEW i \in 2 .. Taken
               PROVE  raw[i].observed - raw[i - 1].observed \in 1 .. Limit
    BY <1>6
  <2>1. PICK g : g = raw[i].observed - raw[i - 1].observed
    OBVIOUS
  <2>2. g \in Interval .. Limit
    BY <1>6, <2>1
  <2>3. g \in 1 .. Limit
    BY <2>2, UnitTypes
  <2> QED
    BY <2>1, <2>3
<1>10. Last(raw).enter >= stop
  BY <1>6 DEF Last
<1>11. monitor.trace.raw = raw
  BY <1>1, <1>5
<1> QED
  BY <1>4, <1>6, <1>8, <1>9, <1>10, <1>11

(* The projected samples of a clean trace pass the evidence check.         *)
LEMMA CleanEvidence ==
  ASSUME MonInv, worker.pc = "ended", trace.primary = NoError, monitor.viaFinish,
         monitor.finishRequested = stop
  PROVE  ValidEvidence(ObservedInterval(trace.maxGap), trace.projected)
<1> DEFINE raw == trace.raw
           projected == trace.projected
           T == TicksPerMs
           base == raw[1].observed
<1>1. /\ Taken \in Nat /\ Taken > 1 /\ Len(projected) = Taken
      /\ trace.maxGap \in Nat /\ trace.maxGap <= Limit
      /\ \A i \in 1 .. Taken :
           raw[i].observed \in Nat /\ projected[i] = Elapsed(raw[i].observed, base)
      /\ \A i \in 2 .. Taken :
           /\ raw[i].observed - raw[i - 1].observed \in Interval .. Limit
           /\ raw[i].observed - raw[i - 1].observed <= trace.maxGap
  BY CleanTrace
<1> HIDE DEF raw, projected
<1>2. base \in Nat
  BY <1>1
<1>3. trace.maxGap > 0
  <2>1. PICK g : g = raw[2].observed - raw[1].observed
    OBVIOUS
  <2>2. 2 \in 2 .. Taken /\ 2 - 1 = 1
    BY <1>1
  <2>3. g \in Interval .. Limit /\ g <= trace.maxGap
    BY <1>1, <2>1, <2>2
  <2> QED
    BY <1>1, <2>3, UnitTypes
<1>4. PICK c : c = (trace.maxGap + TicksPerMs - 1) \div TicksPerMs
  OBVIOUS
<1>5. c \in 1 .. (Limit \div TicksPerMs) /\ trace.maxGap <= c * TicksPerMs
  BY <1>1, <1>3, <1>4, RoundedGap
<1>6. ObservedInterval(trace.maxGap) = c
  BY <1>1, <1>3, <1>4, UnitTypes DEF ObservedInterval
<1>7. projected[1] = 0
  <2>1. projected[1] = (base - base) \div TicksPerMs
    BY <1>1 DEF Elapsed
  <2>2. base - base = 0
    BY <1>2
  <2>3. 0 \div TicksPerMs = 0
    BY UnitTypes
  <2> QED
    BY <2>1, <2>2, <2>3
<1>8. ASSUME NEW i \in 2 .. Taken
      PROVE  projected[i] - projected[i - 1] \in 1 .. c
  <2>1. i \in 1 .. Taken /\ i - 1 \in 1 .. Taken
    BY <1>1
  <2>2. PICK v : v = raw[i].observed - base
    OBVIOUS
  <2>3. PICK u : u = raw[i - 1].observed - base
    OBVIOUS
  <2>4. projected[i] = v \div TicksPerMs /\ projected[i - 1] = u \div TicksPerMs
    BY <1>1, <2>1, <2>2, <2>3 DEF Elapsed
  <2>5. PICK g : g = raw[i].observed - raw[i - 1].observed
    OBVIOUS
  <2>6. g \in Interval .. Limit /\ g <= trace.maxGap
    BY <1>1, <2>5
  <2>7. raw[i].observed \in Nat /\ raw[i - 1].observed \in Nat
    BY <1>1, <2>1
  <2>8. v \in Int /\ u \in Int /\ v - u = g
    BY <1>2, <2>2, <2>3, <2>5, <2>7
  <2>9. c \in Nat
    BY <1>5, UnitTypes
  <2>10. c * TicksPerMs \in Nat
    BY <2>9, UnitTypes
  <2>11. v - u >= TicksPerMs /\ v - u <= c * TicksPerMs
    BY <1>1, <1>5, <2>6, <2>8, <2>10, UnitTypes
  <2>12. (v \div TicksPerMs) - (u \div TicksPerMs) \in 1 .. c
    BY <2>8, <2>9, <2>11, ProjectedGap
  <2> QED
    BY <2>4, <2>12
<1>9. ValidEvidence(c, projected)
  BY <1>1, <1>5, <1>7, <1>8 DEF ValidEvidence
<1> QED
  BY <1>6, <1>9 DEF projected

(* Sampling without a hole is not refused for its samples.                 *)
LEMMA CleanAccepted == MonInv => CleanSamplingIsAccepted
<1> SUFFICES ASSUME MonInv, monitor.pc = "evidence", monitor.viaFinish
             PROVE  Evidence \notin {"samples", "final"}
  BY DEF CleanSamplingIsAccepted
<1>1. /\ worker.pc = "ended" /\ monitor.trace = trace /\ monitor.failure \in MonitorCauses
      /\ monitor.finishRequested = stop /\ trace \in Traces
  BY DEF MonInv, MonTypes, JoinOK, StopOK
<1> DEFINE f == monitor.failure
           p == monitor.trace.primary
           A == monitor.trace.shutdown # "ok" \/ ~monitor.joined
           B == \/ monitor.trace.finishRequested # monitor.finishRequested
                \/ monitor.trace.finalEnter < monitor.finishRequested
                \/ monitor.trace.finalObserved = None
           C == ~ValidEvidence(ObservedInterval(monitor.trace.maxGap), monitor.trace.projected)
<1>2. Evidence = IF f # NoError THEN f ELSE IF p # NoError THEN p ELSE IF A THEN "shutdown"
                   ELSE IF B THEN "final" ELSE IF C THEN "samples" ELSE NoError
  BY Zenon DEF Evidence
<1>3. p = trace.primary /\ p \in WorkerCauses /\ f \in MonitorCauses
  BY <1>1 DEF Traces
<1>4. p = NoError => ~B
  BY <1>1, <1>3, CleanTrace
<1>5. p = NoError => ~C
  BY <1>1, <1>3, CleanEvidence
<1> HIDE DEF f, p, A, B, C
<1> QED
  BY <1>2, <1>3, <1>4, <1>5 DEF WorkerCauses, MonitorCauses, NoError

(* A late worker is never accepted, and nothing is reported before it is   *)
(* joined.                                                                 *)
LEMMA LateRefused == MonInv => LateWorkerNeverAccepted
<1> SUFFICES ASSUME MonInv
             PROVE  LateWorkerNeverAccepted
  OBVIOUS
<1>1. JoinOK
  BY DEF MonInv
<1>2. monitor.result = "ok" => ~monitor.timedOut /\ monitor.joined /\ monitor.trace = trace
  BY <1>1, NoRefusal DEF JoinOK
<1>3. monitor.pc \in {"evidence", "returned"} /\ worker.pc # "unborn" => worker.pc = "ended"
  BY <1>1 DEF JoinOK
<1> QED
  BY <1>2, <1>3 DEF LateWorkerNeverAccepted

-----------------------------------------------------------------------------
(* The theorems.                                                           *)

(* The invariant holds in every reachable state.                           *)
LEMMA MonInvariant == MonSpec => []MonInv
<1>1. MonInit => MonInv
  BY InitMonitor
<1>2. MonInv /\ [MonNext]_monVars => MonInv'
  BY MonStep
<1> QED
  BY <1>1, <1>2, PTL DEF MonSpec

(* When the sampling thread is gone, every reference to the vendor library *)
(* was released once and every load unloaded once, on every path through   *)
(* Session::open, initialize, the loop, close and drop; and no query runs  *)
(* without a live session and a device.                                    *)
THEOREM MonitorDriverBalanced == MonSpec => []DriverBalanced
<1>1. MonInv => DriverBalanced
  BY DEF MonInv, SessionOK, DriverBalanced, Looping, Calling
<1> QED
  BY <1>1, MonInvariant, PTL

(* Evidence is accepted exactly when its samples cover the call: an        *)
(* accepted record has no hole, starts before and ends after the stop      *)
(* request; a record without a hole is never refused because its instants  *)
(* were truncated to milliseconds; a worker that missed its deadline is    *)
(* never accepted, and is joined before anything is reported.              *)
THEOREM MonitorAcceptanceIsExact == MonSpec => []AcceptanceIsExact
<1>1. MonInv => AcceptanceIsExact
  BY CoversCall, CleanAccepted, LateRefused DEF AcceptanceIsExact
<1> QED
  BY <1>1, MonInvariant, PTL

(***************************************************************************)
(* Part 2: the installation of a release.                                  *)
(***************************************************************************)

-----------------------------------------------------------------------------
(* The inductive invariant.                                                *)

Manifests == {r.manifest : r \in Releases}

Locals == {"pc", "manifest", "archive", "at", "stage", "disturbed"}

(* The manifest was accepted.                                              *)
Fetched == {"archive", "recheck", "lookup", "stage", "extract", "exists", "rename", "ok"}

(* What installer i knows and has staged at each control point: nothing    *)
(* but declared files while it extracts, the declared tree when it may     *)
(* publish, and nothing when it has returned.                              *)
InstallerOK(i) ==
  LET r == run[i]
  IN  /\ DOMAIN r = Locals
      /\ r.pc \in {"begin", "manifest", "err", "killed"} \cup Fetched
      /\ r.pc \in Fetched => r.manifest \in Manifests /\ ManifestOK(i, r.manifest)
      /\ r.pc = "recheck" => kind[i] = "download"
      /\ r.pc \in {"lookup", "stage"} => kind[i] = "transport"
      /\ r.pc \in {"archive", "recheck", "lookup", "stage"} =>
           r.stage = IF kind[i] = "download" THEN Dir(r.manifest.bytes, {}) ELSE NoTree
      /\ r.pc \in {"recheck", "lookup", "stage"} => r.at = 1
      /\ r.pc = "extract" =>
           /\ r.at \in Nat \ {0}
           /\ r.stage = Dir(r.stage.manifest, r.stage.files)
           /\ r.stage.files \subseteq Declared(i, r.manifest).files
      /\ r.pc \in {"exists", "rename"} => r.stage = Declared(i, r.manifest)
      /\ r.pc \in {"ok", "err"} => r.stage = NoTree
      /\ r.pc = "ok" => installed[r.manifest.digest] = Declared(i, r.manifest)

(* Nobody and nothing disturbs i, whose release is canonical.              *)
Undisturbed(i) ==
  /\ changes = 0 /\ Canonical(i, remote) /\ ~run[i].disturbed
  /\ installed[remote.manifest.digest] \in {NoTree, Declared(i, remote.manifest)}

(* The files of the first artifacts of m.                                  *)
FirstFiles(i, m, n) ==
  {[path |-> Place(i, m.artifacts[k]), data |-> m.artifacts[k].data] : k \in 1 .. n}

(* Such an installer has the canonical manifest and archive, and has       *)
(* staged every member so far.                                             *)
OnTrack(i) ==
  LET r == run[i]
      m == remote.manifest
  IN  /\ r.pc \notin {"err", "killed"}
      /\ r.pc \in Fetched => r.manifest = m
      /\ r.pc \in {"recheck", "extract"} => r.archive = remote.archive
      /\ r.pc = "extract" =>
           /\ r.at \in 1 .. (Len(m.artifacts) + 1)
           /\ r.stage.files = FirstFiles(i, m, r.at - 1)

InstInv ==
  /\ remote \in Releases /\ changes \in Nat
  /\ kind \in [Installers -> {"download", "transport"}]
  /\ DOMAIN run = Installers
  /\ DOMAIN installed = Digests
  /\ \A d \in Digests : installed[d].kind = "none" => installed[d] = NoTree
  /\ NothingPartialInstalled
  /\ \A i \in Installers : InstallerOK(i)
  /\ \A i \in Installers : Undisturbed(i) => OnTrack(i)

-----------------------------------------------------------------------------
(* Trees and manifests.                                                    *)

(* What the releases may hold.                                             *)
LEMMA ReleaseFields ==
  ASSUME NEW m \in Manifests
  PROVE  /\ m.digest \in Digests
         /\ m.artifacts \in Seq(ToSet(m.artifacts))
         /\ \A n \in Manifests : n.bytes = m.bytes => n = m
BY ReleaseShape DEF Manifests

(* A manifest is of one kind.                                              *)
LEMMA OneKind ==
  ASSUME kind \in [Installers -> {"download", "transport"}],
         NEW i \in Installers, NEW j \in Installers, NEW m,
         ManifestOK(i, m), ManifestOK(j, m)
  PROVE  kind[i] = kind[j]
<1>1. kind[i] \in {"download", "transport"} /\ kind[j] \in {"download", "transport"}
  OBVIOUS
<1>2. ASSUME NEW k \in Installers, ManifestOK(k, m)
      PROVE  m.schema = IF kind[k] = "download" THEN "fixtures" ELSE "layered"
  BY <1>2 DEF ManifestOK, ReleaseManifestOK, InventoryOK
<1>3. /\ m.schema = IF kind[i] = "download" THEN "fixtures" ELSE "layered"
      /\ m.schema = IF kind[j] = "download" THEN "fixtures" ELSE "layered"
  BY <1>2
<1> QED
  BY <1>1, <1>3

(* The declared tree passes the verification.                              *)
LEMMA DeclaredVerifies ==
  ASSUME NEW i, NEW m
  PROVE  VerifyTree(i, Declared(i, m), m)
<1> DEFINE F == {[path |-> Place(i, a), data |-> a.data] : a \in ToSet(m.artifacts)}
<1>1. Declared(i, m) = [kind |-> "dir", manifest |-> m.bytes, files |-> F]
  BY DEF Declared, Dir
<1>2. {f.path : f \in F} = {Place(i, a) : a \in ToSet(m.artifacts)}
  <2>1. ASSUME NEW a \in ToSet(m.artifacts)
        PROVE  Place(i, a) \in {f.path : f \in F}
    <3>1. PICK f : f = [path |-> Place(i, a), data |-> a.data]
      OBVIOUS
    <3>2. f \in F /\ f.path = Place(i, a)
      BY <3>1
    <3> QED
      BY <3>2
  <2>2. ASSUME NEW f \in F
        PROVE  f.path \in {Place(i, a) : a \in ToSet(m.artifacts)}
    OBVIOUS
  <2> QED
    BY <2>1, <2>2
<1>3. \A a \in ToSet(m.artifacts) : [path |-> Place(i, a), data |-> a.data] \in F
  OBVIOUS
<1> HIDE DEF F
<1>4. VerifyTree(i, [kind |-> "dir", manifest |-> m.bytes, files |-> F], m)
  BY <1>2, <1>3 DEF VerifyTree
<1> QED
  BY <1>1, <1>4

(* A verified tree with one file at each path is the declared one.         *)
LEMMA VerifiedTree ==
  ASSUME NEW i, NEW m, NEW tree, IsTree(tree), VerifyTree(i, tree, m)
  PROVE  tree = Declared(i, m)
<1> DEFINE F == {[path |-> Place(i, a), data |-> a.data] : a \in ToSet(m.artifacts)}
<1>1. /\ tree.kind = "dir" /\ tree.manifest = m.bytes
      /\ {f.path : f \in tree.files} = {Place(i, a) : a \in ToSet(m.artifacts)}
      /\ \A a \in ToSet(m.artifacts) : [path |-> Place(i, a), data |-> a.data] \in tree.files
  BY DEF VerifyTree
<1>2. /\ tree = [kind |-> tree.kind, manifest |-> tree.manifest, files |-> tree.files]
      /\ \A f, g \in tree.files : f = [path |-> f.path, data |-> f.data] /\ (f.path = g.path => f = g)
  BY DEF IsTree
<1>3. F \subseteq tree.files
  BY <1>1
<1>4. ASSUME NEW f \in tree.files
      PROVE  f \in F
  <2>1. f.path \in {Place(i, a) : a \in ToSet(m.artifacts)}
    BY <1>1
  <2>2. PICK a \in ToSet(m.artifacts) : f.path = Place(i, a)
    BY <2>1
  <2>3. PICK g : g = [path |-> Place(i, a), data |-> a.data]
    OBVIOUS
  <2>4. g \in F /\ g.path = Place(i, a)
    BY <2>3
  <2>5. f = g
    BY <1>2, <1>3, <2>2, <2>4
  <2> QED
    BY <2>4, <2>5
<1>5. tree.files = F
  BY <1>3, <1>4
<1>6. tree = [kind |-> "dir", manifest |-> m.bytes, files |-> F]
  BY <1>1, <1>2, <1>5
<1> QED
  BY <1>6 DEF Declared, Dir

(* Whatever passes the verification in the cache is the declared tree: it  *)
(* was there at first, or another installer of the same manifest put it    *)
(* there.                                                                  *)
LEMMA VerifiedInstall ==
  ASSUME InstInv, NEW i \in Installers, NEW m \in Manifests, ManifestOK(i, m),
         VerifyTree(i, installed[m.digest], m)
  PROVE  installed[m.digest] = Declared(i, m)
<1> DEFINE d == m.digest
<1>1. d \in Digests
  BY ReleaseFields
<1>2. installed[d].kind = "dir" /\ installed[d].manifest = m.bytes
  BY DEF VerifyTree
<1>3. CASE \E p \in Priors : p[d] = installed[d]
  <2>1. IsTree(installed[d])
    BY <1>1, <1>3, ReleaseShape
  <2> QED
    BY <2>1, VerifiedTree
<1>4. CASE \E j \in Installers, n \in {r.manifest : r \in Releases} :
             n.digest = d /\ ManifestOK(j, n) /\ installed[d] = Declared(j, n)
  <2>1. PICK j \in Installers, n \in Manifests : ManifestOK(j, n) /\ installed[d] = Declared(j, n)
    BY <1>4 DEF Manifests
  <2>2. installed[d].manifest = n.bytes
    BY <2>1 DEF Declared, Dir
  <2>3. n = m
    BY <1>2, <2>2, ReleaseFields
  <2>4. kind[i] = kind[j]
    BY <2>1, <2>3, OneKind DEF InstInv
  <2> QED
    BY <2>1, <2>3, <2>4 DEF Declared, Place
<1> QED
  BY <1>1, <1>2, <1>3, <1>4 DEF InstInv, NothingPartialInstalled

-----------------------------------------------------------------------------
(* What a step of one installer leaves alone.                              *)

(* The conditions of an undisturbed installer are the same after a step    *)
(* that keeps the release, the cache and its own flag.                     *)
LEMMA SameConditions ==
  ASSUME UNCHANGED <<remote, changes, installed, kind>>, NEW i,
         run'[i].disturbed = run[i].disturbed
  PROVE  Undisturbed(i)' <=> Undisturbed(i)
BY DEF Undisturbed, Canonical, ManifestOK, Declared, Place

(* A tree that was whole stays whole.                                      *)
LEMMA WholeKept ==
  ASSUME kind' = kind, NothingPartialInstalled, installed' = installed
  PROVE  NothingPartialInstalled'
<1> SUFFICES ASSUME NEW d \in Digests
             PROVE  \/ installed'[d].kind = "none" \/ \E p \in Priors : p[d] = installed'[d]
                    \/ \E i \in Installers, m \in {r.manifest : r \in Releases} :
                         m.digest = d /\ ManifestOK(i, m)' /\ installed'[d] = Declared(i, m)'
  BY DEF NothingPartialInstalled
<1>1. CASE \E i \in Installers, m \in {r.manifest : r \in Releases} :
             m.digest = d /\ ManifestOK(i, m) /\ installed[d] = Declared(i, m)
  <2>1. PICK i \in Installers, m \in {r.manifest : r \in Releases} :
          m.digest = d /\ ManifestOK(i, m) /\ installed[d] = Declared(i, m)
    BY <1>1
  <2>2. ManifestOK(i, m)' /\ installed'[d] = Declared(i, m)'
    BY <2>1 DEF ManifestOK, Declared, Place
  <2> QED
    BY <2>1, <2>2
<1>2. CASE installed[d].kind = "none" \/ \E p \in Priors : p[d] = installed[d]
  BY <1>2
<1> QED
  BY <1>1, <1>2 DEF NothingPartialInstalled

(* A step that only moves one installer.                                   *)
LEMMA OnlyMoves ==
  ASSUME InstInv, NEW i \in Installers, UNCHANGED <<remote, changes, installed, kind>>,
         DOMAIN run' = Installers, \A j \in Installers \ {i} : run'[j] = run[j],
         InstallerOK(i)', Undisturbed(i)' => OnTrack(i)'
  PROVE  InstInv'
<1>1. ASSUME NEW j \in Installers
      PROVE  InstallerOK(j)'
  <2>1. CASE j = i
    BY <2>1
  <2>2. CASE j # i
    <3>1. run'[j] = run[j] /\ InstallerOK(j)
      BY <2>2 DEF InstInv
    <3> QED
      BY <3>1 DEF InstallerOK, ManifestOK, Declared, Place
  <2> QED
    BY <2>1, <2>2
<1>2. ASSUME NEW j \in Installers, Undisturbed(j)'
      PROVE  OnTrack(j)'
  <2>1. CASE j = i
    BY <1>2, <2>1
  <2>2. CASE j # i
    <3>1. run'[j] = run[j]
      BY <2>2
    <3>2. Undisturbed(j)
      BY <1>2, <3>1, SameConditions
    <3>3. OnTrack(j)
      BY <3>2 DEF InstInv
    <3> QED
      BY <3>1, <3>3 DEF OnTrack, FirstFiles, Place
  <2> QED
    BY <2>1, <2>2
<1>3. NothingPartialInstalled'
  BY WholeKept DEF InstInv
<1> QED
  BY <1>1, <1>2, <1>3 DEF InstInv

(* The locals after Move, Leave and a failure.                             *)
LEMMA Moved ==
  ASSUME InstInv, NEW i \in Installers, NEW to, NEW r, DOMAIN r = Locals, Move(i, to, r)
  PROVE  /\ UNCHANGED <<remote, changes, installed, kind>>
         /\ DOMAIN run' = Installers /\ \A j \in Installers \ {i} : run'[j] = run[j]
         /\ DOMAIN run'[i] = Locals /\ run'[i].pc = to
         /\ run'[i].manifest = r.manifest /\ run'[i].archive = r.archive /\ run'[i].at = r.at
         /\ run'[i].stage = r.stage /\ run'[i].disturbed = r.disturbed
BY DEF Move, InstInv, Locals

(* The locals after a return.                                              *)
LEMMA Returned ==
  ASSUME InstInv, NEW i \in Installers, NEW to, Leave(i, to)
  PROVE  /\ DOMAIN run' = Installers /\ \A j \in Installers \ {i} : run'[j] = run[j]
         /\ DOMAIN run'[i] = Locals /\ run'[i].pc = to
         /\ run'[i].manifest = run[i].manifest /\ run'[i].stage = NoTree
         /\ run'[i].disturbed = run[i].disturbed
BY DEF Leave, InstInv, InstallerOK, Locals

(* An installer that is not undisturbed may refuse.                        *)
LEMMA RefuseKeeps ==
  ASSUME InstInv, NEW i \in Installers, Refuse(i), ~Undisturbed(i)
  PROVE  InstInv'
<1>1. Leave(i, "err") /\ UNCHANGED <<remote, changes, installed, kind>>
  BY DEF Refuse
<1>2. /\ DOMAIN run' = Installers /\ \A j \in Installers \ {i} : run'[j] = run[j]
      /\ DOMAIN run'[i] = Locals /\ run'[i].pc = "err" /\ run'[i].stage = NoTree
      /\ run'[i].disturbed = run[i].disturbed
  BY <1>1, Returned
<1>3. ~Undisturbed(i)'
  BY <1>1, <1>2, SameConditions
<1>4. InstallerOK(i)'
  BY <1>2 DEF InstallerOK, Fetched
<1> QED
  BY <1>1, <1>2, <1>3, <1>4, OnlyMoves

(* An installer that found its tree in the cache may accept.               *)
LEMMA AcceptKeeps ==
  ASSUME InstInv, NEW i \in Installers, Accept(i), run[i].pc \in Fetched,
         installed[Final(i)] = Declared(i, run[i].manifest)
  PROVE  InstInv'
<1>1. Leave(i, "ok") /\ UNCHANGED <<remote, changes, installed, kind>>
  BY DEF Accept
<1>2. /\ DOMAIN run' = Installers /\ \A j \in Installers \ {i} : run'[j] = run[j]
      /\ DOMAIN run'[i] = Locals /\ run'[i].pc = "ok" /\ run'[i].stage = NoTree
      /\ run'[i].manifest = run[i].manifest /\ run'[i].disturbed = run[i].disturbed
  BY <1>1, Returned
<1>3. run[i].manifest \in Manifests /\ ManifestOK(i, run[i].manifest)
  BY DEF InstInv, InstallerOK
<1>4. InstallerOK(i)'
  BY <1>1, <1>2, <1>3 DEF InstallerOK, Fetched, ManifestOK, Declared, Place, Final
<1>5. Undisturbed(i)' => OnTrack(i)'
  <2> SUFFICES ASSUME Undisturbed(i)'
               PROVE  OnTrack(i)'
    OBVIOUS
  <2>1. OnTrack(i)
    BY <1>1, <1>2, SameConditions DEF InstInv
  <2> QED
    BY <1>1, <1>2, <2>1 DEF OnTrack
<1> QED
  BY <1>1, <1>2, <1>4, <1>5, OnlyMoves
-----------------------------------------------------------------------------
(* Fetching.                                                               *)

(* The facts of the invariant about one installer.                         *)
LEMMA InstallerFacts ==
  ASSUME InstInv, NEW i \in Installers
  PROVE  /\ DOMAIN run[i] = Locals /\ InstallerOK(i) /\ (Undisturbed(i) => OnTrack(i))
         /\ kind[i] \in {"download", "transport"}
         /\ remote \in Releases /\ remote.manifest \in Manifests
BY DEF InstInv, InstallerOK, Manifests

(* The names are read.                                                     *)
LEMMA BeginKeeps == ASSUME InstInv, NEW i \in Installers, Begin(i) PROVE InstInv'
<1>1. CASE ~AssetNames(remote.names)
  <2>1. Refuse(i)
    BY <1>1 DEF Begin
  <2>2. ~Undisturbed(i)
    BY <1>1 DEF Undisturbed, Canonical
  <2> QED
    BY <2>1, <2>2, RefuseKeeps
<1>2. CASE AssetNames(remote.names)
  <2>1. PICK r : r = [run[i] EXCEPT !.stage = IF kind[i] = "download" THEN Dir(0, {}) ELSE NoTree]
    OBVIOUS
  <2>2. Move(i, "manifest", r)
    BY <1>2, <2>1 DEF Begin
  <2>3. DOMAIN r = Locals /\ r.disturbed = run[i].disturbed
    BY <2>1, InstallerFacts DEF Locals
  <2>4. /\ UNCHANGED <<remote, changes, installed, kind>>
        /\ DOMAIN run' = Installers /\ \A j \in Installers \ {i} : run'[j] = run[j]
        /\ DOMAIN run'[i] = Locals /\ run'[i].pc = "manifest"
    BY <2>2, <2>3, Moved
  <2>5. InstallerOK(i)'
    BY <2>4 DEF InstallerOK, Fetched
  <2>6. OnTrack(i)'
    BY <2>4 DEF OnTrack, Fetched
  <2> QED
    BY <2>4, <2>5, <2>6, OnlyMoves
<1> QED
  BY <1>1, <1>2

(* The manifest is fetched and validated.                                  *)
LEMMA FetchManifestKeeps == ASSUME InstInv, NEW i \in Installers, FetchManifest(i) PROVE InstInv'
<1> DEFINE m == remote.manifest
<1>1. CASE "manifest" \notin ToSet(remote.names) \/ ~ManifestOK(i, m)
  <2>1. Refuse(i)
    BY <1>1 DEF FetchManifest
  <2>2. ~Undisturbed(i)
    BY <1>1 DEF Undisturbed, Canonical, AssetNames
  <2> QED
    BY <2>1, <2>2, RefuseKeeps
<1>2. CASE ~("manifest" \notin ToSet(remote.names) \/ ~ManifestOK(i, m))
  <2>1. PICK r : r = [run[i] EXCEPT !.manifest = m,
                        !.stage = IF kind[i] = "download" THEN Dir(m.bytes, {}) ELSE NoTree]
    OBVIOUS
  <2>2. Move(i, "archive", r)
    BY <1>2, <2>1 DEF FetchManifest
  <2>3. /\ DOMAIN r = Locals /\ r.disturbed = run[i].disturbed /\ r.manifest = m
        /\ r.stage = IF kind[i] = "download" THEN Dir(m.bytes, {}) ELSE NoTree
    BY <2>1, InstallerFacts DEF Locals
  <2>4. /\ UNCHANGED <<remote, changes, installed, kind>>
        /\ DOMAIN run' = Installers /\ \A j \in Installers \ {i} : run'[j] = run[j]
        /\ DOMAIN run'[i] = Locals /\ run'[i].pc = "archive" /\ run'[i].manifest = m
        /\ run'[i].stage = r.stage
    BY <2>2, <2>3, Moved
  <2>5. InstallerOK(i)'
    BY <1>2, <2>3, <2>4, InstallerFacts DEF InstallerOK, Fetched, ManifestOK
  <2>6. OnTrack(i)'
    BY <2>4 DEF OnTrack
  <2> QED
    BY <2>4, <2>5, <2>6, OnlyMoves
<1> QED
  BY <1>1, <1>2

(* The archive is fetched and compared with the declared digest.           *)
LEMMA FetchArchiveKeeps == ASSUME InstInv, NEW i \in Installers, FetchArchive(i) PROVE InstInv'
<1>1. PICK damaged \in {FALSE, kind[i] = "download"} :
        LET archive == IF damaged THEN NoArchive ELSE remote.archive
        IN IF \/ "archive" \notin ToSet(remote.names)
              \/ archive.digest # run[i].manifest.digest
           THEN /\ run' = [run EXCEPT ![i].pc = "err", ![i].stage = NoTree, ![i].disturbed = @ \/ damaged]
                /\ UNCHANGED <<remote, changes, installed, kind>>
           ELSE Move(i, IF kind[i] = "download" THEN "recheck" ELSE "lookup",
                     [run[i] EXCEPT !.archive = archive, !.at = 1])
  BY Zenon DEF FetchArchive
<1>2. PICK archive : archive = IF damaged THEN NoArchive ELSE remote.archive
  OBVIOUS
<1>3. run[i].pc = "archive"
  BY DEF FetchArchive
<1>4. PICK hurt \in BOOLEAN : hurt = (run[i].disturbed \/ damaged)
  BY Zenon
<1>5. CASE "archive" \notin ToSet(remote.names) \/ archive.digest # run[i].manifest.digest
  <2>1. /\ run' = [run EXCEPT ![i] = [[[run[i] EXCEPT !.pc = "err"] EXCEPT !.stage = NoTree]
                                         EXCEPT !.disturbed = hurt]]
        /\ UNCHANGED <<remote, changes, installed, kind>>
    BY <1>1, <1>2, <1>4, <1>5, InstallerFacts DEF InstInv, Locals
  <2>2. /\ DOMAIN run' = Installers /\ \A j \in Installers \ {i} : run'[j] = run[j]
        /\ DOMAIN run'[i] = Locals /\ run'[i].pc = "err" /\ run'[i].stage = NoTree
        /\ run'[i].disturbed = hurt
    BY <2>1, InstallerFacts DEF InstInv, Locals
  <2>3. InstallerOK(i)'
    BY <2>2 DEF InstallerOK, Fetched
  <2>4. ~Undisturbed(i)'
    <3> SUFFICES ASSUME Undisturbed(i)'
                 PROVE  FALSE
      OBVIOUS
    <3>1. ~hurt
      BY <2>2 DEF Undisturbed
    <3>2. ~damaged /\ ~run[i].disturbed
      BY <1>4, <3>1
    <3>3. Undisturbed(i)
      BY <2>1, <3>2 DEF Undisturbed, Canonical, ManifestOK, Declared, Place
    <3>4. run[i].manifest = remote.manifest
      BY <1>3, <3>3, InstallerFacts DEF OnTrack, Fetched
    <3>5. archive = remote.archive /\ "archive" \in ToSet(remote.names)
          /\ remote.archive.digest = remote.manifest.digest
      BY <1>2, <3>2, <3>3 DEF Undisturbed, Canonical, AssetNames
    <3> QED
      BY <1>5, <3>4, <3>5
  <2> QED
    BY <2>1, <2>2, <2>3, <2>4, OnlyMoves
<1>6. CASE ~("archive" \notin ToSet(remote.names) \/ archive.digest # run[i].manifest.digest)
  <2>1. PICK to : to = IF kind[i] = "download" THEN "recheck" ELSE "lookup"
    OBVIOUS
  <2>2. PICK r : r = [run[i] EXCEPT !.archive = archive, !.at = 1]
    OBVIOUS
  <2>3. Move(i, to, r)
    BY <1>1, <1>2, <1>6, <2>1, <2>2
  <2>4. /\ DOMAIN r = Locals /\ r.disturbed = run[i].disturbed /\ r.manifest = run[i].manifest
        /\ r.stage = run[i].stage /\ r.at = 1 /\ r.archive = archive
    BY <2>2, InstallerFacts DEF Locals
  <2>5. /\ UNCHANGED <<remote, changes, installed, kind>>
        /\ DOMAIN run' = Installers /\ \A j \in Installers \ {i} : run'[j] = run[j]
        /\ DOMAIN run'[i] = Locals /\ run'[i].pc = to /\ run'[i].manifest = run[i].manifest
        /\ run'[i].stage = run[i].stage /\ run'[i].at = 1 /\ run'[i].archive = archive
        /\ run'[i].disturbed = run[i].disturbed
    BY <2>3, <2>4, Moved
  <2>6. InstallerOK(i)'
    BY <1>3, <2>1, <2>5, InstallerFacts DEF InstallerOK, Fetched, ManifestOK
  <2>7. Undisturbed(i)' => OnTrack(i)'
    <3> SUFFICES ASSUME Undisturbed(i)'
                 PROVE  OnTrack(i)'
      OBVIOUS
    <3>1. Undisturbed(i)
      BY <2>5, SameConditions
    <3>2. run[i].manifest = remote.manifest
      BY <1>3, <3>1, InstallerFacts DEF OnTrack, Fetched
    <3>3. archive = remote.archive
      <4>1. NoArchive.digest = "none"
        BY DEF NoArchive
      <4>2. remote.manifest.digest \in Digests /\ "none" \notin Digests
        BY InstallerFacts, ReleaseFields, ReleaseShape
      <4>3. archive.digest = remote.manifest.digest
        BY <1>6, <3>2
      <4> QED
        BY <1>2, <4>1, <4>2, <4>3
    <3> QED
      BY <2>1, <2>5, <3>2, <3>3 DEF OnTrack, Fetched
  <2> QED
    BY <2>5, <2>6, <2>7, OnlyMoves
<1> QED
  BY <1>5, <1>6
(* The names are read again.                                               *)
LEMMA RecheckKeeps == ASSUME InstInv, NEW i \in Installers, RecheckNames(i) PROVE InstInv'
<1>1. run[i].pc = "recheck"
  BY DEF RecheckNames
<1>2. CASE ~AssetNames(remote.names)
  <2>1. Refuse(i)
    BY <1>2 DEF RecheckNames
  <2>2. ~Undisturbed(i)
    BY <1>2 DEF Undisturbed, Canonical
  <2> QED
    BY <2>1, <2>2, RefuseKeeps
<1>3. CASE AssetNames(remote.names)
  <2>1. Move(i, "extract", run[i])
    BY <1>3 DEF RecheckNames
  <2>2. /\ UNCHANGED <<remote, changes, installed, kind>>
        /\ DOMAIN run' = Installers /\ \A j \in Installers \ {i} : run'[j] = run[j]
        /\ DOMAIN run'[i] = Locals /\ run'[i].pc = "extract" /\ run'[i].manifest = run[i].manifest
        /\ run'[i].stage = run[i].stage /\ run'[i].at = run[i].at /\ run'[i].archive = run[i].archive
        /\ run'[i].disturbed = run[i].disturbed
    BY <2>1, Moved, InstallerFacts
  <2>3. /\ run[i].stage = Dir(run[i].manifest.bytes, {}) /\ run[i].at = 1
        /\ run[i].manifest \in Manifests /\ ManifestOK(i, run[i].manifest)
    BY <1>1, InstallerFacts DEF InstallerOK, Fetched
  <2>4. run[i].stage.files = {} /\ run[i].stage = Dir(run[i].stage.manifest, run[i].stage.files)
    BY <2>3 DEF Dir
  <2>5. InstallerOK(i)'
    BY <2>2, <2>3, <2>4 DEF InstallerOK, Fetched, ManifestOK, Dir
  <2>6. Undisturbed(i)' => OnTrack(i)'
    <3> SUFFICES ASSUME Undisturbed(i)'
                 PROVE  OnTrack(i)'
      OBVIOUS
    <3>1. run[i].manifest = remote.manifest /\ run[i].archive = remote.archive
      BY <1>1, <2>2, SameConditions, InstallerFacts DEF OnTrack, Fetched
    <3>2. 1 \in 1 .. (Len(remote.manifest.artifacts) + 1)
      BY InstallerFacts, ReleaseFields
    <3>3. FirstFiles(i, remote.manifest, 1 - 1)' = {}
      BY DEF FirstFiles
    <3> QED
      BY <2>2, <2>3, <2>4, <3>1, <3>2, <3>3 DEF OnTrack
  <2> QED
    BY <2>2, <2>5, <2>6, OnlyMoves
<1> QED
  BY <1>2, <1>3

(* The transport looks for an install of the archive.                      *)
LEMMA LookUpKeeps == ASSUME InstInv, NEW i \in Installers, LookUp(i) PROVE InstInv'
<1> DEFINE m == run[i].manifest
           found == installed[m.digest]
<1>1. run[i].pc = "lookup" /\ m \in Manifests /\ ManifestOK(i, m) /\ kind[i] = "transport"
  BY InstallerFacts DEF LookUp, InstallerOK, Fetched
<1>2. m.digest \in Digests
  BY <1>1, ReleaseFields
<1>3. CASE found.kind = "none"
  <2>1. Move(i, "stage", run[i])
    BY <1>3 DEF LookUp
  <2>2. /\ UNCHANGED <<remote, changes, installed, kind>>
        /\ DOMAIN run' = Installers /\ \A j \in Installers \ {i} : run'[j] = run[j]
        /\ DOMAIN run'[i] = Locals /\ run'[i].pc = "stage" /\ run'[i].manifest = run[i].manifest
        /\ run'[i].stage = run[i].stage /\ run'[i].at = run[i].at
        /\ run'[i].disturbed = run[i].disturbed
    BY <2>1, Moved, InstallerFacts
  <2>3. InstallerOK(i)'
    BY <1>1, <2>2, InstallerFacts DEF InstallerOK, Fetched, ManifestOK
  <2>4. Undisturbed(i)' => OnTrack(i)'
    BY <1>1, <2>2, SameConditions, InstallerFacts DEF OnTrack, Fetched
  <2> QED
    BY <2>2, <2>3, <2>4, OnlyMoves
<1>4. CASE found.kind # "none" /\ VerifyTree(i, found, m)
  <2>1. Accept(i)
    BY <1>4 DEF LookUp
  <2>2. found = Declared(i, m)
    BY <1>1, <1>4, VerifiedInstall
  <2> QED
    BY <1>1, <2>1, <2>2, AcceptKeeps DEF Fetched, Final
<1>5. CASE found.kind # "none" /\ ~VerifyTree(i, found, m)
  <2>1. Refuse(i)
    BY <1>5 DEF LookUp
  <2>2. ~Undisturbed(i)
    <3> SUFFICES ASSUME Undisturbed(i)
                 PROVE  FALSE
      OBVIOUS
    <3>1. m = remote.manifest
      BY <1>1, InstallerFacts DEF OnTrack, Fetched
    <3>2. found \in {NoTree, Declared(i, m)}
      BY <3>1 DEF Undisturbed
    <3>3. found = Declared(i, m)
      BY <1>5, <3>2 DEF NoTree
    <3> QED
      BY <1>5, <3>3, DeclaredVerifies
  <2> QED
    BY <2>1, <2>2, RefuseKeeps
<1> QED
  BY <1>3, <1>4, <1>5

(* The transport opens the archive again.                                  *)
LEMMA StageKeeps == ASSUME InstInv, NEW i \in Installers, Stage(i) PROVE InstInv'
<1>1. run[i].pc = "stage"
  BY DEF Stage
<1>2. PICK r : r = [run[i] EXCEPT !.stage = Dir(0, {}), !.archive = remote.archive]
  OBVIOUS
<1>3. Move(i, "extract", r)
  BY <1>2 DEF Stage
<1>4. /\ DOMAIN r = Locals /\ r.disturbed = run[i].disturbed /\ r.manifest = run[i].manifest
      /\ r.stage = Dir(0, {}) /\ r.at = run[i].at /\ r.archive = remote.archive
  BY <1>2, InstallerFacts DEF Locals
<1>5. /\ UNCHANGED <<remote, changes, installed, kind>>
      /\ DOMAIN run' = Installers /\ \A j \in Installers \ {i} : run'[j] = run[j]
      /\ DOMAIN run'[i] = Locals /\ run'[i].pc = "extract" /\ run'[i].manifest = run[i].manifest
      /\ run'[i].stage = Dir(0, {}) /\ run'[i].at = run[i].at /\ run'[i].archive = remote.archive
      /\ run'[i].disturbed = run[i].disturbed
  BY <1>3, <1>4, Moved
<1>6. /\ run[i].at = 1 /\ run[i].manifest \in Manifests /\ ManifestOK(i, run[i].manifest)
  BY <1>1, InstallerFacts DEF InstallerOK, Fetched
<1>7. run'[i].stage.files = {} /\ run'[i].stage = Dir(run'[i].stage.manifest, run'[i].stage.files)
  BY <1>5 DEF Dir
<1>8. InstallerOK(i)'
  BY <1>5, <1>6, <1>7 DEF InstallerOK, Fetched, ManifestOK
<1>9. Undisturbed(i)' => OnTrack(i)'
  <2> SUFFICES ASSUME Undisturbed(i)'
               PROVE  OnTrack(i)'
    OBVIOUS
  <2>1. run[i].manifest = remote.manifest
    BY <1>1, <1>5, SameConditions, InstallerFacts DEF OnTrack, Fetched
  <2>2. 1 \in 1 .. (Len(remote.manifest.artifacts) + 1)
    BY InstallerFacts, ReleaseFields
  <2>3. FirstFiles(i, remote.manifest, 1 - 1)' = {}
    BY DEF FirstFiles
  <2> QED
    BY <1>5, <1>6, <1>7, <2>1, <2>2, <2>3 DEF OnTrack
<1> QED
  BY <1>5, <1>8, <1>9, OnlyMoves
-----------------------------------------------------------------------------
(* Extraction.                                                             *)

(* A member that is accepted is a declared file.                           *)
LEMMA MemberDeclared ==
  ASSUME InstInv, NEW i \in Installers, run[i].pc = "extract", run[i].at <= Members(i), MemberOK(i)
  PROVE  MemberFile(i) \in Declared(i, run[i].manifest).files
<1> DEFINE r == run[i]
           m == r.manifest
           e == r.archive.entries[r.at]
<1>1. m.artifacts \in Seq(ToSet(m.artifacts)) /\ r.at \in Nat \ {0}
  BY InstallerFacts, ReleaseFields DEF InstallerOK, Fetched
<1>2. PICK a \in ToSet(m.artifacts) :
        MemberFile(i) = [path |-> Place(i, a), data |-> a.data]
  <2>1. CASE kind[i] = "download"
    <3>1. PICK a \in ToSet(m.artifacts) : a.name = e.name /\ e.data = a.data
      BY <2>1 DEF MemberOK
    <3>2. MemberFile(i) = [path |-> <<e.name>>, data |-> e.data]
      BY <2>1 DEF MemberFile
    <3>3. Place(i, a) = <<a.name>>
      BY <2>1 DEF Place
    <3> QED
      BY <3>1, <3>2, <3>3
  <2>2. CASE kind[i] # "download"
    <3>1. r.at \in DOMAIN m.artifacts
      BY <1>1, <2>2 DEF Members
    <3>2. PICK a : a = m.artifacts[r.at]
      OBVIOUS
    <3>3. a \in ToSet(m.artifacts)
      BY <3>1, <3>2 DEF ToSet
    <3>4. MemberFile(i) = [path |-> a.logical, data |-> e.data] /\ e.data = a.data
      BY <2>2, <3>2 DEF MemberFile, MemberOK
    <3>5. Place(i, a) = a.logical
      BY <2>2 DEF Place
    <3> QED
      BY <3>3, <3>4, <3>5
  <2> QED
    BY <2>1, <2>2
<1>3. Declared(i, m).files = {[path |-> Place(i, b), data |-> b.data] : b \in ToSet(m.artifacts)}
  BY DEF Declared, Dir
<1> QED
  BY <1>2, <1>3

(* The place of an entry in a canonical archive.                           *)
LEMMA CanonicalMember ==
  ASSUME NEW i, NEW r \in Releases, Canonical(i, r), NEW k \in Nat \ {0},
         k <= Len(r.manifest.artifacts)
  PROVE  /\ k \in DOMAIN r.archive.entries /\ k \in DOMAIN r.manifest.artifacts
         /\ r.manifest.artifacts[k] \in ToSet(r.manifest.artifacts)
         /\ r.archive.entries[k].plain
         /\ r.archive.entries[k].name = r.manifest.artifacts[k].name
         /\ r.archive.entries[k].size = r.manifest.artifacts[k].size
         /\ r.archive.entries[k].held = r.manifest.artifacts[k].size
         /\ r.archive.entries[k].data = r.manifest.artifacts[k].data
         /\ kind[i] = "download" =>
              /\ r.archive.entries[k].size <= FixtureSizeLimit(r.manifest, r.manifest.artifacts[k])
              /\ k > 1 => r.manifest.artifacts[k].name > r.manifest.artifacts[k - 1].name
<1>1. /\ r.manifest.artifacts \in Seq(ToSet(r.manifest.artifacts))
      /\ r.archive.entries \in Seq(ToSet(r.archive.entries))
  BY ReleaseShape
<1>2. Len(r.archive.entries) = Len(r.manifest.artifacts)
  BY DEF Canonical
<1>3. k \in DOMAIN r.archive.entries /\ k \in DOMAIN r.manifest.artifacts
  BY <1>1, <1>2
<1>4. r.manifest.artifacts[k] \in ToSet(r.manifest.artifacts)
  BY <1>3 DEF ToSet
<1> QED
  BY <1>3, <1>4 DEF Canonical

(* Canonical members are accepted in turn.                                 *)
LEMMA CanonicalAccepted ==
  ASSUME InstInv, NEW i \in Installers, run[i].pc = "extract", run[i].at <= Members(i),
         Undisturbed(i)
  PROVE  /\ run[i].manifest = remote.manifest /\ run[i].archive = remote.archive
         /\ run[i].at \in 1 .. Len(remote.manifest.artifacts)
         /\ run[i].archive.gzip /\ MemberOK(i)
         /\ MemberFile(i) = [path |-> Place(i, remote.manifest.artifacts[run[i].at]),
                             data |-> remote.manifest.artifacts[run[i].at].data]
<1> DEFINE m == remote.manifest
           at == run[i].at
           es == remote.archive.entries
<1>1. /\ run[i].manifest = m /\ run[i].archive = remote.archive
      /\ at \in 1 .. (Len(m.artifacts) + 1)
  BY InstallerFacts DEF OnTrack, Fetched
<1>2. m.artifacts \in Seq(ToSet(m.artifacts)) /\ remote \in Releases
  BY InstallerFacts, ReleaseFields
<1>3. Canonical(i, remote) /\ Len(es) = Len(m.artifacts) /\ remote.archive.gzip
  BY DEF Undisturbed, Canonical
<1>4. at \in 1 .. Len(m.artifacts)
  BY <1>1, <1>2, <1>3 DEF Members
<1>5. at \in Nat \ {0} /\ at <= Len(m.artifacts)
  BY <1>2, <1>4
<1>6. PICK a : a = m.artifacts[at]
  OBVIOUS
<1>7. PICK e : e = es[at]
  OBVIOUS
<1>8. /\ a \in ToSet(m.artifacts) /\ e.plain /\ e.name = a.name /\ e.size = a.size
      /\ e.held = a.size /\ e.data = a.data
      /\ kind[i] = "download" =>
           e.size <= FixtureSizeLimit(m, a) /\ (at > 1 => a.name > m.artifacts[at - 1].name)
  BY SMTT(60), <1>2, <1>3, <1>5, <1>6, <1>7, CanonicalMember
<1>9. run[i].archive.entries[at] = e /\ run[i].manifest.artifacts[at] = a
  BY <1>1, <1>6, <1>7
<1>10. MemberOK(i)
  <2>1. CASE kind[i] = "download"
    <3>1. at > 1 => es[at - 1].name < e.name
      <4> SUFFICES ASSUME at > 1
                   PROVE  es[at - 1].name < e.name
        OBVIOUS
      <4>1. at - 1 \in Nat \ {0} /\ at - 1 <= Len(m.artifacts)
        BY <1>2, <1>5
      <4>2. es[at - 1].name = m.artifacts[at - 1].name
        BY <1>2, <1>3, <4>1, CanonicalMember
      <4> QED
        BY <1>8, <2>1, <4>2
    <3>2. /\ e.plain
          /\ \E b \in ToSet(m.artifacts) :
               /\ b.name = e.name /\ e.size <= FixtureSizeLimit(m, b)
               /\ e.held = e.size /\ e.data = b.data
      BY <1>8, <2>1
    <3> QED
      BY <1>1, <1>9, <2>1, <3>1, <3>2 DEF MemberOK
  <2>2. CASE kind[i] # "download"
    <3>1. at <= Len(run[i].archive.entries)
      BY <1>1, <1>3, <1>5
    <3> QED
      BY <1>8, <1>9, <2>2, <3>1 DEF MemberOK
  <2> QED
    BY <2>1, <2>2
<1>11. MemberFile(i) = [path |-> Place(i, a), data |-> a.data]
  BY <1>8, <1>9 DEF MemberFile, Place
<1> QED
  BY <1>1, <1>3, <1>4, <1>6, <1>10, <1>11

(* One more member is staged.                                              *)
LEMMA ExtractKeeps == ASSUME InstInv, NEW i \in Installers, ExtractMember(i) PROVE InstInv'
<1>1. run[i].pc = "extract" /\ run[i].at <= Members(i)
  BY DEF ExtractMember
<1>2. CASE ~(run[i].archive.gzip /\ MemberOK(i))
  <2>1. Refuse(i)
    BY <1>2 DEF ExtractMember
  <2>2. ~Undisturbed(i)
    BY <1>1, <1>2, CanonicalAccepted
  <2> QED
    BY <2>1, <2>2, RefuseKeeps
<1>3. CASE run[i].archive.gzip /\ MemberOK(i)
  <2>1. PICK file : file = MemberFile(i)
    OBVIOUS
  <2>2. PICK s : s = [run[i].stage EXCEPT !.files = run[i].stage.files \cup {file}]
    OBVIOUS
  <2>3. PICK r : r = [[run[i] EXCEPT !.at = run[i].at + 1] EXCEPT !.stage = s]
    OBVIOUS
  <2>4. Move(i, "extract", r)
    <3>1. r = [run[i] EXCEPT !.at = @ + 1, !.stage.files = @ \cup {MemberFile(i)}]
      BY <2>1, <2>2, <2>3, InstallerFacts DEF Locals
    <3> QED
      BY <1>3, <3>1 DEF ExtractMember
  <2>5. /\ DOMAIN r = Locals /\ r.disturbed = run[i].disturbed /\ r.manifest = run[i].manifest
        /\ r.stage = s /\ r.at = run[i].at + 1 /\ r.archive = run[i].archive
    BY <2>3, InstallerFacts DEF Locals
  <2>6. /\ UNCHANGED <<remote, changes, installed, kind>>
        /\ DOMAIN run' = Installers /\ \A j \in Installers \ {i} : run'[j] = run[j]
        /\ DOMAIN run'[i] = Locals /\ run'[i].pc = "extract" /\ run'[i].manifest = run[i].manifest
        /\ run'[i].stage = s /\ run'[i].at = run[i].at + 1 /\ run'[i].archive = run[i].archive
        /\ run'[i].disturbed = run[i].disturbed
    BY <2>4, <2>5, Moved
  <2>7. /\ run[i].at \in Nat \ {0} /\ run[i].manifest \in Manifests /\ ManifestOK(i, run[i].manifest)
        /\ run[i].stage = Dir(run[i].stage.manifest, run[i].stage.files)
        /\ run[i].stage.files \subseteq Declared(i, run[i].manifest).files
    BY <1>1, InstallerFacts DEF InstallerOK, Fetched
  <2>8. s.files = run[i].stage.files \cup {file} /\ s = Dir(s.manifest, s.files)
    <3>1. /\ DOMAIN run[i].stage = {"kind", "manifest", "files"} /\ run[i].stage.kind = "dir"
          /\ run[i].stage = [k \in DOMAIN run[i].stage |-> run[i].stage[k]]
      BY <2>7 DEF Dir
    <3>2. /\ DOMAIN s = {"kind", "manifest", "files"} /\ s = [k \in DOMAIN s |-> s[k]]
          /\ s.kind = "dir" /\ s.files = run[i].stage.files \cup {file}
      BY <2>2, <3>1
    <3> QED
      BY <3>2 DEF Dir
  <2>9. s.files \subseteq Declared(i, run[i].manifest).files
    BY <1>1, <1>3, <2>1, <2>7, <2>8, MemberDeclared
  <2>10. InstallerOK(i)'
    BY <2>6, <2>7, <2>8, <2>9 DEF InstallerOK, Fetched, ManifestOK, Declared, Place
  <2>11. Undisturbed(i)' => OnTrack(i)'
    <3> SUFFICES ASSUME Undisturbed(i)'
                 PROVE  OnTrack(i)'
      OBVIOUS
    <3>1. Undisturbed(i)
      BY <2>6, SameConditions
    <3> DEFINE m == remote.manifest
               at == run[i].at
    <3>2. /\ run[i].manifest = m /\ run[i].archive = remote.archive /\ at \in 1 .. Len(m.artifacts)
          /\ file = [path |-> Place(i, m.artifacts[at]), data |-> m.artifacts[at].data]
      BY <1>1, <2>1, <3>1, CanonicalAccepted
    <3>3. run[i].stage.files = FirstFiles(i, m, at - 1)
      BY <1>1, <3>1, InstallerFacts DEF OnTrack
    <3>4. Len(m.artifacts) \in Nat
      BY InstallerFacts, ReleaseFields
    <3>5. s.files = FirstFiles(i, m, at)
      <4>1. 1 .. at = (1 .. (at - 1)) \cup {at}
        BY <3>2, <3>4
      <4> QED
        BY <2>8, <3>2, <3>3, <4>1 DEF FirstFiles
    <3>6. at + 1 \in 1 .. (Len(m.artifacts) + 1) /\ (at + 1) - 1 = at
      BY <3>2, <3>4
    <3>7. s.files = {[path |-> Place(i, m.artifacts[k])', data |-> m.artifacts[k].data] : k \in 1 .. at}
      BY <2>6, <3>5 DEF FirstFiles, Place
    <3> QED
      BY <2>6, <3>2, <3>6, <3>7 DEF OnTrack, FirstFiles
  <2> QED
    BY <2>6, <2>10, <2>11, OnlyMoves
<1> QED
  BY <1>2, <1>3
(* The whole staged tree is verified at the end of the archive.            *)
LEMMA FinishKeeps == ASSUME InstInv, NEW i \in Installers, FinishExtract(i) PROVE InstInv'
<1> DEFINE m == run[i].manifest
<1>1. /\ run[i].pc = "extract" /\ run[i].at > Members(i) /\ run[i].at \in Nat \ {0}
      /\ m \in Manifests /\ ManifestOK(i, m)
      /\ run[i].stage = Dir(run[i].stage.manifest, run[i].stage.files)
      /\ run[i].stage.files \subseteq Declared(i, m).files
  BY InstallerFacts DEF FinishExtract, InstallerOK, Fetched
<1>2. PICK stage : stage = [run[i].stage EXCEPT !.manifest = m.bytes]
  OBVIOUS
<1>3. stage = Dir(m.bytes, run[i].stage.files)
  BY <1>1, <1>2 DEF Dir
<1>4. CASE ~(EndOK(i) /\ VerifyTree(i, stage, m))
  <2>1. Refuse(i)
    BY <1>2, <1>4 DEF FinishExtract
  <2>2. ~Undisturbed(i)
    <3> SUFFICES ASSUME Undisturbed(i)
                 PROVE  FALSE
      OBVIOUS
    <3>1. /\ m = remote.manifest /\ run[i].archive = remote.archive
          /\ run[i].at \in 1 .. (Len(m.artifacts) + 1)
          /\ run[i].stage.files = FirstFiles(i, m, run[i].at - 1)
      BY <1>1, InstallerFacts DEF OnTrack, Fetched
    <3>2. m.artifacts \in Seq(ToSet(m.artifacts)) /\ Len(m.artifacts) \in Nat
      BY <1>1, ReleaseFields
    <3>3. EndOK(i) /\ Len(remote.archive.entries) = Len(m.artifacts)
      BY <3>1 DEF Undisturbed, Canonical, EndOK
    <3>4. run[i].at > Len(m.artifacts)
      BY <1>1, <3>1, <3>3 DEF Members
    <3>5. run[i].at - 1 = Len(m.artifacts)
      BY <1>1, <3>1, <3>2, <3>4
    <3>6. FirstFiles(i, m, Len(m.artifacts)) = Declared(i, m).files
      <4>1. ToSet(m.artifacts) = {m.artifacts[k] : k \in 1 .. Len(m.artifacts)}
        BY <3>2 DEF ToSet
      <4>2. Declared(i, m).files = {[path |-> Place(i, a), data |-> a.data] : a \in ToSet(m.artifacts)}
        BY DEF Declared, Dir
      <4> QED
        BY <4>1, <4>2 DEF FirstFiles
    <3>7. stage = Declared(i, m)
      BY <1>3, <3>1, <3>5, <3>6 DEF Declared, Dir
    <3> QED
      BY <1>4, <3>3, <3>7, DeclaredVerifies
  <2> QED
    BY <2>1, <2>2, RefuseKeeps
<1>5. CASE EndOK(i) /\ VerifyTree(i, stage, m)
  <2>1. PICK to : to = IF kind[i] = "download" THEN "exists" ELSE "rename"
    OBVIOUS
  <2>2. PICK r : r = [run[i] EXCEPT !.stage = stage]
    OBVIOUS
  <2>3. Move(i, to, r)
    BY <1>2, <1>5, <2>1, <2>2 DEF FinishExtract
  <2>4. /\ DOMAIN r = Locals /\ r.disturbed = run[i].disturbed /\ r.manifest = m /\ r.stage = stage
    BY <2>2, InstallerFacts DEF Locals
  <2>5. /\ UNCHANGED <<remote, changes, installed, kind>>
        /\ DOMAIN run' = Installers /\ \A j \in Installers \ {i} : run'[j] = run[j]
        /\ DOMAIN run'[i] = Locals /\ run'[i].pc = to /\ run'[i].manifest = m
        /\ run'[i].stage = stage /\ run'[i].disturbed = run[i].disturbed
    BY <2>3, <2>4, Moved
  <2>6. stage = Declared(i, m)
    <3>1. PICK F : F = {[path |-> Place(i, a), data |-> a.data] : a \in ToSet(m.artifacts)}
      OBVIOUS
    <3>2. Declared(i, m) = Dir(m.bytes, F) /\ Declared(i, m).files = F
      BY <3>1 DEF Declared, Dir
    <3>3. stage.files = run[i].stage.files
      BY <1>3 DEF Dir
    <3>4. F \subseteq stage.files
      BY <1>5, <3>1 DEF VerifyTree
    <3>5. run[i].stage.files = F
      BY <1>1, <3>2, <3>3, <3>4
    <3> QED
      BY <1>3, <3>2, <3>5
  <2>7. InstallerOK(i)'
    BY <1>1, <2>1, <2>5, <2>6 DEF InstallerOK, Fetched, ManifestOK, Declared, Place
  <2>8. Undisturbed(i)' => OnTrack(i)'
    BY <1>1, <2>1, <2>5, SameConditions, InstallerFacts DEF OnTrack, Fetched
  <2> QED
    BY <2>5, <2>7, <2>8, OnlyMoves
<1> QED
  BY <1>4, <1>5

-----------------------------------------------------------------------------
(* Publication and faults.                                                 *)

(* Something stands under the digest: it is accepted if it verifies.       *)
LEMMA FoundKeeps ==
  ASSUME InstInv, NEW i \in Installers, run[i].pc \in Fetched, installed[Final(i)].kind # "none",
         IF VerifyTree(i, installed[Final(i)], run[i].manifest) THEN Accept(i) ELSE Refuse(i)
  PROVE  InstInv'
<1> DEFINE m == run[i].manifest
           found == installed[m.digest]
<1>1. m \in Manifests /\ ManifestOK(i, m) /\ found.kind # "none"
  BY InstallerFacts DEF InstallerOK, Final
<1>2. CASE VerifyTree(i, found, m)
  <2>1. Accept(i)
    BY <1>2 DEF Final
  <2>2. found = Declared(i, m)
    BY <1>1, <1>2, VerifiedInstall
  <2> QED
    BY <2>1, <2>2, AcceptKeeps DEF Final
<1>3. CASE ~VerifyTree(i, found, m)
  <2>1. Refuse(i)
    BY <1>3 DEF Final
  <2>2. ~Undisturbed(i)
    <3> SUFFICES ASSUME Undisturbed(i)
                 PROVE  FALSE
      OBVIOUS
    <3>1. m = remote.manifest
      BY InstallerFacts DEF OnTrack
    <3>2. found \in {NoTree, Declared(i, m)}
      BY <3>1 DEF Undisturbed
    <3>3. found = Declared(i, m)
      BY <1>1, <3>2 DEF NoTree
    <3> QED
      BY <1>3, <3>3, DeclaredVerifies
  <2> QED
    BY <2>1, <2>2, RefuseKeeps
<1> QED
  BY <1>2, <1>3

(* The downloader looks before it renames.                                 *)
LEMMA CheckKeeps == ASSUME InstInv, NEW i \in Installers, CheckExists(i) PROVE InstInv'
<1>1. run[i].pc = "exists"
  BY DEF CheckExists
<1>2. CASE installed[Final(i)].kind = "none"
  <2>1. Move(i, "rename", run[i])
    BY <1>2 DEF CheckExists
  <2>2. /\ UNCHANGED <<remote, changes, installed, kind>>
        /\ DOMAIN run' = Installers /\ \A j \in Installers \ {i} : run'[j] = run[j]
        /\ DOMAIN run'[i] = Locals /\ run'[i].pc = "rename" /\ run'[i].manifest = run[i].manifest
        /\ run'[i].stage = run[i].stage /\ run'[i].disturbed = run[i].disturbed
    BY <2>1, Moved, InstallerFacts
  <2>3. /\ run[i].manifest \in Manifests /\ ManifestOK(i, run[i].manifest)
        /\ run[i].stage = Declared(i, run[i].manifest)
    BY <1>1, InstallerFacts DEF InstallerOK, Fetched
  <2>4. InstallerOK(i)'
    BY <2>2, <2>3 DEF InstallerOK, Fetched, ManifestOK, Declared, Place
  <2>5. Undisturbed(i)' => OnTrack(i)'
    BY <1>1, <2>2, SameConditions, InstallerFacts DEF OnTrack, Fetched
  <2> QED
    BY <2>2, <2>4, <2>5, OnlyMoves
<1>3. CASE installed[Final(i)].kind # "none"
  BY <1>1, <1>3, FoundKeeps DEF CheckExists, Fetched
<1> QED
  BY <1>2, <1>3

(* The rename publishes the staged tree whole, or finds another one.       *)
LEMMA RenameKeeps == ASSUME InstInv, NEW i \in Installers, Rename(i) PROVE InstInv'
<1> DEFINE m == run[i].manifest
           d == m.digest
<1>1. /\ run[i].pc = "rename" /\ m \in Manifests /\ ManifestOK(i, m)
      /\ run[i].stage = Declared(i, m)
  BY InstallerFacts DEF Rename, InstallerOK, Fetched
<1>2. d \in Digests
  BY <1>1, ReleaseFields
<1>3. CASE installed[d].kind # "none"
  BY <1>1, <1>3, FoundKeeps DEF Rename, Fetched, Final
<1>4. CASE installed[d].kind = "none"
  <2>1. /\ installed' = [installed EXCEPT ![d] = Declared(i, m)]
        /\ Leave(i, "ok") /\ UNCHANGED <<remote, changes, kind>>
    BY <1>1, <1>4 DEF Rename, Final
  <2>2. /\ DOMAIN run' = Installers /\ \A j \in Installers \ {i} : run'[j] = run[j]
        /\ DOMAIN run'[i] = Locals /\ run'[i].pc = "ok" /\ run'[i].stage = NoTree
        /\ run'[i].manifest = m /\ run'[i].disturbed = run[i].disturbed
    BY <2>1, Returned
  <2>3. /\ DOMAIN installed' = Digests /\ installed'[d] = Declared(i, m)
        /\ \A c \in Digests \ {d} : installed'[c] = installed[c]
    BY <1>2, <2>1 DEF InstInv
  <2>4. installed[d] = NoTree
    BY <1>2, <1>4 DEF InstInv
  <2>5. \A j \in Installers, n \in Manifests : Declared(j, n).kind = "dir"
    BY DEF Declared, Dir
  <2>6. \A c \in Digests : installed'[c].kind = "none" => installed'[c] = NoTree
    BY <1>1, <2>3, <2>5 DEF InstInv
  <2>7. NothingPartialInstalled'
    <3> SUFFICES ASSUME NEW c \in Digests
                 PROVE  \/ installed'[c].kind = "none" \/ \E p \in Priors : p[c] = installed'[c]
                        \/ \E j \in Installers, n \in {r.manifest : r \in Releases} :
                             n.digest = c /\ ManifestOK(j, n)' /\ installed'[c] = Declared(j, n)'
      BY DEF NothingPartialInstalled
    <3>1. CASE c = d
      <4>1. ManifestOK(i, m) /\ installed'[c] = Declared(i, m)
        BY <1>1, <2>3, <3>1
      <4>2. PICK n \in {r.manifest : r \in Releases} : n = m
        BY <1>1 DEF Manifests
      <4>3. ManifestOK(i, n)' /\ installed'[c] = Declared(i, n)' /\ n.digest = c
        BY <2>1, <3>1, <4>1, <4>2 DEF ManifestOK, Declared, Place
      <4> QED
        BY <4>3
    <3>2. CASE c # d /\ (installed[c].kind = "none" \/ \E p \in Priors : p[c] = installed[c])
      BY <2>3, <3>2
    <3>3. CASE /\ c # d
               /\ \E j \in Installers, n \in {r.manifest : r \in Releases} :
                    n.digest = c /\ ManifestOK(j, n) /\ installed[c] = Declared(j, n)
      <4>1. PICK j \in Installers, n \in {r.manifest : r \in Releases} :
              n.digest = c /\ ManifestOK(j, n) /\ installed[c] = Declared(j, n)
        BY <3>3
      <4>2. ManifestOK(j, n)' /\ installed'[c] = Declared(j, n)'
        BY <2>1, <2>3, <3>3, <4>1 DEF ManifestOK, Declared, Place
      <4> QED
        BY <4>1, <4>2
    <3> QED
      BY <3>1, <3>2, <3>3 DEF InstInv, NothingPartialInstalled
  <2>8. ASSUME NEW j \in Installers
        PROVE  InstallerOK(j)'
    <3>1. CASE j = i
      <4>1. /\ ManifestOK(i, m)' /\ installed'[d] = Declared(i, m)'
        BY <1>1, <2>1, <2>2, <2>3 DEF ManifestOK, Declared, Place
      <4>2. InstallerOK(i)'
        BY <1>1, <2>2, <4>1 DEF InstallerOK, Fetched
      <4> QED
        BY <3>1, <4>2
    <3>2. CASE j # i
      <4>1. run'[j] = run[j] /\ InstallerOK(j)
        BY <2>2, <3>2 DEF InstInv
      <4>2. run[j].pc = "ok" => installed'[run[j].manifest.digest] = Declared(j, run[j].manifest)
        <5> SUFFICES ASSUME run[j].pc = "ok"
                     PROVE  installed'[run[j].manifest.digest] = Declared(j, run[j].manifest)
          OBVIOUS
        <5>1. run[j].manifest \in Manifests
              /\ installed[run[j].manifest.digest] = Declared(j, run[j].manifest)
          BY <4>1 DEF InstallerOK, Fetched
        <5>2. run[j].manifest.digest \in Digests
          BY <5>1, ReleaseFields
        <5>3. run[j].manifest.digest # d
          BY <1>4, <2>5, <5>1
        <5> QED
          BY <2>3, <5>1, <5>2, <5>3
      <4> QED
        BY <2>1, <4>1, <4>2 DEF InstallerOK, ManifestOK, Declared, Place
    <3> QED
      BY <3>1, <3>2
  <2>9. ASSUME NEW j \in Installers, Undisturbed(j)'
        PROVE  OnTrack(j)'
    <3>1. run'[j].disturbed = run[j].disturbed
      BY <2>2
    <3>2. remote.manifest.digest \in Digests
      BY InstallerFacts, ReleaseFields
    <3>3. installed'[remote.manifest.digest] \in {NoTree, Declared(j, remote.manifest)}
      BY <2>1, <2>9 DEF Undisturbed, Declared, Place
    <3>4. installed[remote.manifest.digest] \in {NoTree, Declared(j, remote.manifest)}
      BY <2>3, <2>4, <3>2, <3>3
    <3>5. Undisturbed(j)
      BY <2>1, <2>9, <3>1, <3>4 DEF Undisturbed, Canonical, ManifestOK
    <3>6. OnTrack(j)
      BY <3>5 DEF InstInv
    <3>7. CASE j = i
      BY <1>1, <2>1, <2>2, <3>6, <3>7 DEF OnTrack, Fetched
    <3>8. CASE j # i
      <4>1. run'[j] = run[j]
        BY <2>2, <3>8
      <4> QED
        BY <2>1, <3>6, <4>1 DEF OnTrack, FirstFiles, Place
    <3> QED
      BY <3>7, <3>8
  <2> QED
    BY <2>1, <2>2, <2>3, <2>6, <2>7, <2>8, <2>9 DEF InstInv
<1> QED
  BY <1>3, <1>4

(* A call fails, or the process is killed: either disturbs the installer.  *)
LEMMA FaultKeeps == ASSUME InstInv, NEW i \in Installers, IoFails(i) \/ Kill(i) PROVE InstInv'
<1>1. UNCHANGED <<remote, changes, installed, kind>>
  BY DEF IoFails, Kill
<1>2. /\ DOMAIN run' = Installers /\ \A j \in Installers \ {i} : run'[j] = run[j]
      /\ DOMAIN run'[i] = Locals /\ run'[i].disturbed
      /\ \/ run'[i].pc = "err" /\ run'[i].stage = NoTree
         \/ run'[i].pc = "killed"
  <2>1. CASE IoFails(i)
    <3>1. run' = [run EXCEPT ![i] = [[[run[i] EXCEPT !.pc = "err"] EXCEPT !.stage = NoTree]
                                       EXCEPT !.disturbed = TRUE]]
      BY <2>1, InstallerFacts DEF IoFails, InstInv, Locals
    <3> QED
      BY <3>1, InstallerFacts DEF InstInv, Locals
  <2>2. CASE Kill(i)
    <3>1. run' = [run EXCEPT ![i] = [[run[i] EXCEPT !.pc = "killed"] EXCEPT !.disturbed = TRUE]]
      BY <2>2, InstallerFacts DEF Kill, InstInv, Locals
    <3> QED
      BY <3>1, InstallerFacts DEF InstInv, Locals
  <2> QED
    BY <2>1, <2>2
<1>3. InstallerOK(i)'
  BY <1>2 DEF InstallerOK, Fetched
<1>4. ~Undisturbed(i)'
  BY <1>2 DEF Undisturbed
<1> QED
  BY <1>1, <1>2, <1>3, <1>4, OnlyMoves

(* A republished release disturbs everyone.                                *)
LEMMA RepublishKeeps == ASSUME InstInv, Republish PROVE InstInv'
<1>1. /\ changes' = changes + 1 /\ changes \in Nat /\ remote' \in Releases
      /\ UNCHANGED <<installed, kind, run>>
  BY DEF Republish, InstInv
<1>2. \A j \in Installers : ~Undisturbed(j)'
  BY <1>1 DEF Undisturbed
<1>3. NothingPartialInstalled'
  BY <1>1, WholeKept DEF InstInv
<1>4. ASSUME NEW j \in Installers
      PROVE  InstallerOK(j)'
  <2>1. run'[j] = run[j] /\ InstallerOK(j)
    BY <1>1 DEF InstInv
  <2> QED
    BY <1>1, <2>1 DEF InstallerOK, ManifestOK, Declared, Place
<1> QED
  BY <1>1, <1>2, <1>3, <1>4 DEF InstInv
-----------------------------------------------------------------------------
(* The theorems.                                                           *)

(* Before anyone starts, the cache holds what it held.                     *)
LEMMA InitInstalls == InstInit => InstInv
<1> SUFFICES ASSUME InstInit
             PROVE  InstInv
  OBVIOUS
<1>1. /\ remote \in Releases /\ changes = 0 /\ installed \in Priors
      /\ kind \in [Installers -> {"download", "transport"}]
      /\ run = [i \in Installers |-> Idle]
  BY DEF InstInit
<1>2. DOMAIN installed = Digests /\ \A d \in Digests : IsTree(installed[d])
  BY <1>1, ReleaseShape
<1>3. NothingPartialInstalled
  BY <1>1 DEF NothingPartialInstalled
<1>4. ASSUME NEW i \in Installers
      PROVE  InstallerOK(i) /\ OnTrack(i)
  <2>1. run[i] = Idle
    BY <1>1
  <2>2. DOMAIN Idle = Locals /\ Idle.pc = "begin"
    BY DEF Idle, Locals
  <2> QED
    BY <2>1, <2>2 DEF InstallerOK, OnTrack, Fetched
<1>5. DOMAIN run = Installers
  BY <1>1
<1> QED
  BY <1>1, <1>2, <1>3, <1>4, <1>5 DEF InstInv, IsTree

(* Every step keeps the invariant.                                         *)
LEMMA InstStep == InstInv /\ [InstNext]_instVars => InstInv'
<1>1. ASSUME InstInv, UNCHANGED instVars
      PROVE  InstInv'
  <2>1. UNCHANGED <<remote, changes, installed, kind, run>>
    BY <1>1 DEF instVars
  <2>2. NothingPartialInstalled'
    BY <1>1, <2>1, WholeKept DEF InstInv
  <2>3. ASSUME NEW j \in Installers
        PROVE  InstallerOK(j)' /\ (Undisturbed(j)' => OnTrack(j)')
    <3>1. run'[j] = run[j] /\ InstallerOK(j) /\ (Undisturbed(j) => OnTrack(j))
      BY <1>1, <2>1 DEF InstInv
    <3>2. InstallerOK(j)'
      BY <2>1, <3>1 DEF InstallerOK, ManifestOK, Declared, Place
    <3>3. Undisturbed(j)' => Undisturbed(j)
      BY <2>1, <3>1, SameConditions
    <3>4. OnTrack(j) => OnTrack(j)'
      BY <2>1, <3>1 DEF OnTrack, FirstFiles, Place
    <3> QED
      BY <3>1, <3>2, <3>3, <3>4
  <2> QED
    BY <1>1, <2>1, <2>2, <2>3 DEF InstInv
<1>2. ASSUME InstInv, NEW i \in Installers, InstallStep(i)
      PROVE  InstInv'
  BY <1>2, BeginKeeps, FetchManifestKeeps, FetchArchiveKeeps, RecheckKeeps, LookUpKeeps,
     StageKeeps, ExtractKeeps, FinishKeeps, CheckKeeps, RenameKeeps DEF InstallStep
<1> QED
  BY <1>1, <1>2, FaultKeeps, RepublishKeeps DEF InstNext

(* The invariant holds in every reachable state.                           *)
LEMMA InstInvariant == InstSpec => []InstInv
BY InitInstalls, InstStep, PTL DEF InstSpec

(* An accepted install is the tree that its own manifest declares, for     *)
(* ever; nothing partial is visible under a digest; only a killed process  *)
(* leaves its staging directory; and an undisturbed installer of a         *)
(* canonical release succeeds whoever wins the rename.                     *)
THEOREM ReleaseInstallsAreWhole == InstSpec => []InstallsAreWhole
<1>1. InstInv => AcceptedIsDeclared
  BY DEF InstInv, InstallerOK, AcceptedIsDeclared, Final
<1>2. InstInv => StagingRemoved
  BY DEF InstInv, InstallerOK, StagingRemoved
<1>3. InstInv => ConcurrentInstallsAgree
  BY DEF InstInv, Undisturbed, OnTrack, ConcurrentInstallsAgree
<1>4. InstInv => InstallsAreWhole
  BY <1>1, <1>2, <1>3 DEF InstInv, InstallsAreWhole
<1> QED
  BY <1>4, InstInvariant, PTL

(* No step of any installer replaces, repairs or removes what stands in    *)
(* the cache: the rename publishes only where nothing stands.              *)
THEOREM ReleaseInstallsAreImmutable == InstSpec => InstallsAreImmutable
<1>1. ASSUME InstInv, InstNext
      PROVE  \A d \in Digests : installed[d].kind # "none" => installed'[d] = installed[d]
  <2>1. CASE installed' = installed
    BY <2>1
  <2>2. ASSUME NEW i \in Installers, installed[Final(i)].kind = "none",
               installed' = [installed EXCEPT ![Final(i)] = run[i].stage]
        PROVE  \A d \in Digests : installed[d].kind # "none" => installed'[d] = installed[d]
    BY <1>1, <2>2 DEF InstInv
  <2>3. ASSUME NEW i \in Installers, InstallStep(i)
        PROVE  \/ installed' = installed
               \/ /\ installed[Final(i)].kind = "none"
                  /\ installed' = [installed EXCEPT ![Final(i)] = run[i].stage]
    BY <2>3, Zenon DEF InstallStep, Begin, FetchManifest, FetchArchive, RecheckNames, LookUp, Stage,
       ExtractMember, FinishExtract, CheckExists, Rename, Move, Refuse, Accept
  <2>4. ASSUME NEW i \in Installers, IoFails(i) \/ Kill(i)
        PROVE  installed' = installed
    BY <2>4 DEF IoFails, Kill
  <2>5. Republish => installed' = installed
    BY DEF Republish
  <2> QED
    BY <1>1, <2>1, <2>2, <2>3, <2>4, <2>5 DEF InstNext
<1>2. InstInv /\ [InstNext]_instVars =>
        [\A d \in Digests : installed[d].kind # "none" => installed'[d] = installed[d]]_instVars
  BY <1>1
<1> QED
  BY <1>2, InstInvariant, PTL DEF InstSpec, InstallsAreImmutable

(***************************************************************************)
(* Part 3: the golden gate.                                                *)
(***************************************************************************)

(* The places of a list.                                                   *)
LEMMA PlacesFinite ==
  ASSUME NEW n \in Nat
  PROVE  IsFiniteSet(1 .. n) /\ Cardinality(1 .. n) = n
BY FS_Interval

(* Identifiers without repetition tell the places of a list apart.         *)
LEMMA DistinctIds ==
  ASSUME NEW s, Listed(s), Cardinality({FixtureId(x) : x \in ToSet(s)}) = Len(s)
  PROVE  \A i, j \in DOMAIN s : FixtureId(s[i]) = FixtureId(s[j]) => i = j
<1> DEFINE ids == {FixtureId(x) : x \in ToSet(s)}
           f == [i \in 1 .. Len(s) |-> FixtureId(s[i])]
<1>1. Len(s) \in Nat /\ DOMAIN s = 1 .. Len(s) /\ ToSet(s) = {s[i] : i \in DOMAIN s}
  BY DEF Listed, ToSet
<1>2. f \in Surjection(1 .. Len(s), ids)
  BY <1>1 DEF Surjection
<1>0. Len(s) \in Nat
  BY <1>1
<1>3. IsFiniteSet(1 .. Len(s)) /\ Cardinality(1 .. Len(s)) = Len(s)
  BY <1>0, PlacesFinite, Zenon
<1>4. Cardinality(ids) = Cardinality(1 .. Len(s))
  BY <1>3
<1> HIDE DEF f, ids
<1>5. f \in Injection(1 .. Len(s), ids)
  BY <1>2, <1>3, <1>4, FS_SurjSameCardinalityImpliesInj
<1>6. \A i, j \in 1 .. Len(s) : f[i] = f[j] => i = j
  BY <1>5 DEF Injection, IsInjective
<1> QED
  BY <1>1, <1>6 DEF f

(* The elements of a list are finitely many.                               *)
LEMMA ListFinite ==
  ASSUME NEW s, Listed(s)
  PROVE  IsFiniteSet(ToSet(s)) /\ IsFiniteSet({FixtureId(x) : x \in ToSet(s)})
<1>1. Len(s) \in Nat /\ DOMAIN s = 1 .. Len(s) /\ ToSet(s) = {s[i] : i \in DOMAIN s}
  BY DEF Listed, ToSet
<1>2. IsFiniteSet(1 .. Len(s))
  BY <1>1, FS_Interval
<1>3. IsFiniteSet(ToSet(s))
  <2> DEFINE f == [i \in 1 .. Len(s) |-> s[i]]
  <2>1. f \in Surjection(1 .. Len(s), ToSet(s))
    BY <1>1 DEF Surjection
  <2> HIDE DEF f
  <2> QED
    BY <1>2, <2>1, FS_Surjection
<1>4. IsFiniteSet({FixtureId(x) : x \in ToSet(s)})
  <2> DEFINE f == [x \in ToSet(s) |-> FixtureId(x)]
  <2>1. f \in Surjection(ToSet(s), {FixtureId(x) : x \in ToSet(s)})
    BY DEF Surjection
  <2> HIDE DEF f
  <2> QED
    BY <1>3, <2>1, FS_Surjection
<1> QED
  BY <1>3, <1>4

-----------------------------------------------------------------------------
(* The tracker.                                                            *)

Stages == {"discovered", "generated", "compared", "skipped", "failed"}
IsTracker(t) == t \in [{"expected", "unexpected"} \cup Stages -> SUBSET UNION {t[s] : s \in DOMAIN t}]

(* record_stage changes one stage, by expected identifiers, and counts the *)
(* others as unexpected.                                                   *)
RecordedAs(r, t, stage, ids) ==
  /\ r.expected = t.expected
  /\ r.unexpected = t.unexpected \cup (ids \ t.expected)
  /\ r[stage] = t[stage] \cup (ids \cap t.expected)
  /\ \A s \in Stages \ {stage} : r[s] = t[s]

LEMMA Recorded ==
  ASSUME NEW t, IsTracker(t), NEW stage \in Stages, NEW ids
  PROVE  IsTracker(Record(t, stage, ids)) /\ RecordedAs(Record(t, stage, ids), t, stage, ids)
<1> DEFINE r == Record(t, stage, ids)
<1>1. /\ DOMAIN t = {"expected", "unexpected"} \cup Stages
      /\ t = [s \in {"expected", "unexpected"} \cup Stages |-> t[s]]
  BY DEF IsTracker
<1>2. /\ DOMAIN r = {"expected", "unexpected"} \cup Stages
      /\ r = [s \in {"expected", "unexpected"} \cup Stages |-> r[s]]
      /\ r["expected"] = t["expected"]
      /\ r["unexpected"] = t["unexpected"] \cup (ids \ t["expected"])
      /\ \A s \in Stages : r[s] = IF s = stage THEN t[s] \cup (ids \cap t["expected"]) ELSE t[s]
  BY <1>1 DEF Record, Stages
<1>3. IsTracker(r)
  BY <1>2 DEF IsTracker
<1> QED
  BY <1>2, <1>3 DEF RecordedAs

(* What preflight looks at, by identifier.                                 *)
FoundIds == {FixtureId(e) : e \in {x \in ToSet(manifest.expected) : HasPrompt(x.prompt)}}
WrongIds == {FixtureId(e) : e \in {x \in {y \in ToSet(manifest.expected) : HasPrompt(y.prompt)} :
                                     PromptOf(x.prompt).family # x.family}}
CorpusIds == {[prompt |-> p.id, oracle |-> o] : p \in prompts, o \in Oracles}
FileIds == {f.name : f \in dir.files}
ThereIds == {FixtureId(x) : x \in {y \in ToSet(manifest.fixtures) : FileOf(y) # {}}}
BrokenIds == {FixtureId(x) : x \in {z \in {y \in ToSet(manifest.fixtures) : FileOf(y) # {}} : Broken(z)}}

(* The lists are lists, and what is counted is finite.                     *)
ListsOK ==
  /\ Listed(manifest.expected) /\ Listed(manifest.fixtures) /\ Listed(manifest.calibrated)
  /\ IsFiniteSet(dir.files) /\ IsFiniteSet(prompts)

LEMMA FreshTracker ==
  ASSUME NEW ids
  PROVE  LET t == [NoTracker EXCEPT !.expected = ids]
         IN  /\ IsTracker(t) /\ t.expected = ids /\ t.unexpected = {}
             /\ \A s \in Stages : t[s] = {}
BY DEF NoTracker, IsTracker, Stages

LEMMA FoundAreExpected ==
  FoundIds \subseteq ExpectedIds /\ WrongIds \subseteq ExpectedIds
BY DEF FoundIds, WrongIds, ExpectedIds

(* The first pass.                                                         *)
LEMMA DiscoveredFields ==
  LET t == Discovered
  IN  /\ IsTracker(t) /\ t.expected = ExpectedIds
      /\ t.discovered = FoundIds
      /\ t.generated = {} /\ t.compared = {} /\ t.skipped = {}
      /\ t.failed = IF dir.readable THEN WrongIds ELSE ExpectedIds
      /\ t.unexpected = (CorpusIds \ ExpectedIds) \cup IF dir.readable THEN FileIds \ ExpectedIds ELSE {}
<1> DEFINE fresh == [NoTracker EXCEPT !.expected = ExpectedIds]
           a == Record(fresh, "discovered", FoundIds \cup (CorpusIds \ ExpectedIds))
           b == Record(a, "failed", WrongIds)
           c == Record(b, "generated", FileIds \ ExpectedIds)
           d == Record(b, "failed", ExpectedIds)
<1>1. Discovered = IF dir.readable THEN c ELSE d
  BY DEF Discovered, FoundIds, WrongIds, CorpusIds, FileIds
<1>2. /\ IsTracker(fresh) /\ fresh.expected = ExpectedIds /\ fresh.unexpected = {}
      /\ \A s \in Stages : fresh[s] = {}
  BY FreshTracker
<1>3. "discovered" \in Stages /\ "generated" \in Stages /\ "failed" \in Stages
  BY DEF Stages
<1> HIDE DEF fresh
<1>4. /\ IsTracker(a) /\ a.expected = ExpectedIds /\ a.unexpected = CorpusIds \ ExpectedIds
      /\ a.discovered = FoundIds /\ \A s \in Stages \ {"discovered"} : a[s] = {}
  <2>1. IsTracker(a) /\ RecordedAs(a, fresh, "discovered", FoundIds \cup (CorpusIds \ ExpectedIds))
    BY <1>3, <1>2, Recorded
  <2> HIDE DEF a
  <2> QED
    BY <1>2, <1>3, <2>1, FoundAreExpected DEF RecordedAs, Stages
<1> HIDE DEF a
<1>5. /\ IsTracker(b) /\ b.expected = ExpectedIds /\ b.unexpected = CorpusIds \ ExpectedIds
      /\ b.discovered = FoundIds /\ b.failed = WrongIds
      /\ b.generated = {} /\ b.compared = {} /\ b.skipped = {}
  <2>1. IsTracker(b) /\ RecordedAs(b, a, "failed", WrongIds)
    BY <1>3, <1>4, Recorded
  <2> HIDE DEF b
  <2> QED
    BY <1>3, <1>4, <2>1, FoundAreExpected DEF RecordedAs, Stages
<1> HIDE DEF b
<1>6. /\ IsTracker(c) /\ c.expected = ExpectedIds
      /\ c.unexpected = (CorpusIds \ ExpectedIds) \cup (FileIds \ ExpectedIds)
      /\ c.discovered = FoundIds /\ c.failed = WrongIds
      /\ c.generated = {} /\ c.compared = {} /\ c.skipped = {}
  <2>1. IsTracker(c) /\ RecordedAs(c, b, "generated", FileIds \ ExpectedIds)
    BY <1>3, <1>5, Recorded
  <2> HIDE DEF c
  <2> QED
    BY <1>3, <1>5, <2>1 DEF RecordedAs, Stages
<1>7. /\ IsTracker(d) /\ d.expected = ExpectedIds /\ d.unexpected = CorpusIds \ ExpectedIds
      /\ d.discovered = FoundIds /\ d.failed = ExpectedIds
      /\ d.generated = {} /\ d.compared = {} /\ d.skipped = {}
  <2>1. IsTracker(d) /\ RecordedAs(d, b, "failed", ExpectedIds)
    BY <1>3, <1>5, Recorded
  <2> HIDE DEF d
  <2> QED
    BY <1>3, <1>5, <2>1, FoundAreExpected DEF RecordedAs, Stages
<1> QED
  BY <1>1, <1>6, <1>7
(* The second pass ...                                                     *)
LEMMA GeneratedFields ==
  LET t == Generated(Discovered)
  IN  /\ IsTracker(t) /\ t.expected = ExpectedIds
      /\ t.discovered = FoundIds
      /\ t.generated = ThereIds \cap ExpectedIds /\ t.compared = {} /\ t.skipped = {}
      /\ t.failed = Discovered.failed \cup (BrokenIds \cap ExpectedIds)
      /\ t.unexpected = Discovered.unexpected \cup ((ThereIds \cup BrokenIds) \ ExpectedIds)
<1> DEFINE a == Record(Discovered, "generated", ThereIds)
           b == Record(a, "failed", BrokenIds)
<1>1. Generated(Discovered) = b
  BY Zenon DEF Generated, ThereIds, BrokenIds
<1>2. "generated" \in Stages /\ "failed" \in Stages
  BY DEF Stages
<1>3. IsTracker(a) /\ RecordedAs(a, Discovered, "generated", ThereIds)
  BY <1>2, DiscoveredFields, Recorded
<1> HIDE DEF a
<1>4. IsTracker(b) /\ RecordedAs(b, a, "failed", BrokenIds)
  BY <1>2, <1>3, Recorded
<1> HIDE DEF b
<1>5. /\ a.expected = ExpectedIds /\ a.discovered = FoundIds /\ a.generated = ThereIds \cap ExpectedIds
      /\ a.compared = {} /\ a.skipped = {} /\ a.failed = Discovered.failed
      /\ a.unexpected = Discovered.unexpected \cup (ThereIds \ ExpectedIds)
  BY <1>3, DiscoveredFields DEF RecordedAs, Stages
<1>6. /\ b.expected = ExpectedIds /\ b.discovered = FoundIds /\ b.generated = ThereIds \cap ExpectedIds
      /\ b.compared = {} /\ b.skipped = {} /\ b.failed = Discovered.failed \cup (BrokenIds \cap ExpectedIds)
      /\ b.unexpected = Discovered.unexpected \cup (ThereIds \ ExpectedIds) \cup (BrokenIds \ ExpectedIds)
  BY <1>4, <1>5 DEF RecordedAs, Stages
<1> QED
  BY <1>1, <1>4, <1>6

(* ... and the third one: the tracker with which the comparison starts.    *)
PreflightTracker == Calibrated(Generated(Discovered))

EarlyFailures ==
  (IF dir.readable THEN WrongIds ELSE ExpectedIds) \cup (BrokenIds \cap ExpectedIds)

CalibratedIds ==
  {c \in ToSet(manifest.calibrated) : c \in ThereIds \cap ExpectedIds /\ c \notin EarlyFailures}

LEMMA PreflightFields ==
  LET t == PreflightTracker
  IN  /\ IsTracker(t) /\ t.expected = ExpectedIds
      /\ t.discovered = FoundIds
      /\ t.generated = ThereIds \cap ExpectedIds
      /\ t.compared = CalibratedIds
      /\ t.skipped = {}
      /\ t.failed = EarlyFailures \cup ((ToSet(manifest.calibrated) \ CalibratedIds) \cap ExpectedIds)
      /\ t.unexpected = (CorpusIds \ ExpectedIds) \cup (IF dir.readable THEN FileIds \ ExpectedIds ELSE {})
                         \cup ((ThereIds \cup BrokenIds \cup ToSet(manifest.calibrated)) \ ExpectedIds)
<1> DEFINE g == Generated(Discovered)
           good == {c \in ToSet(manifest.calibrated) : c \in g.generated /\ c \notin g.failed}
           a == Record(g, "compared", good)
           b == Record(a, "failed", ToSet(manifest.calibrated) \ good)
<1>1. PreflightTracker = b
  BY Zenon DEF PreflightTracker, Calibrated
<1>2. "compared" \in Stages /\ "failed" \in Stages
  BY DEF Stages
<1>3. /\ IsTracker(g) /\ g.expected = ExpectedIds /\ g.discovered = FoundIds
      /\ g.generated = ThereIds \cap ExpectedIds /\ g.compared = {} /\ g.skipped = {}
      /\ g.failed = EarlyFailures
      /\ g.unexpected = (CorpusIds \ ExpectedIds) \cup (IF dir.readable THEN FileIds \ ExpectedIds ELSE {})
                         \cup ((ThereIds \cup BrokenIds) \ ExpectedIds)
  BY GeneratedFields, DiscoveredFields DEF EarlyFailures
<1>4. good = CalibratedIds
  BY <1>3 DEF CalibratedIds
<1> HIDE DEF g, good
<1>5. IsTracker(a) /\ RecordedAs(a, g, "compared", good)
  BY <1>2, <1>3, Recorded
<1> HIDE DEF a
<1>6. IsTracker(b) /\ RecordedAs(b, a, "failed", ToSet(manifest.calibrated) \ good)
  BY <1>2, <1>5, Recorded
<1> HIDE DEF b
<1>7. /\ a.expected = ExpectedIds /\ a.discovered = FoundIds /\ a.generated = ThereIds \cap ExpectedIds
      /\ a.compared = CalibratedIds /\ a.skipped = {} /\ a.failed = EarlyFailures
      /\ a.unexpected = g.unexpected \cup (CalibratedIds \ ExpectedIds)
  <2>1. CalibratedIds \cap ExpectedIds = CalibratedIds
    BY DEF CalibratedIds
  <2> QED
    BY <1>3, <1>4, <1>5, <2>1 DEF RecordedAs, Stages
<1>8. /\ b.expected = ExpectedIds /\ b.discovered = FoundIds /\ b.generated = ThereIds \cap ExpectedIds
      /\ b.compared = CalibratedIds /\ b.skipped = {}
      /\ b.failed = EarlyFailures \cup ((ToSet(manifest.calibrated) \ CalibratedIds) \cap ExpectedIds)
      /\ b.unexpected = a.unexpected \cup ((ToSet(manifest.calibrated) \ CalibratedIds) \ ExpectedIds)
  BY <1>4, <1>6, <1>7 DEF RecordedAs, Stages
<1>9. CalibratedIds \subseteq ToSet(manifest.calibrated)
  BY DEF CalibratedIds
<1> QED
  BY <1>1, <1>3, <1>6, <1>7, <1>8, <1>9

(* No stage holds an identifier that is not expected.                      *)
LEMMA PreflightStages ==
  \A s \in Stages : PreflightTracker[s] \subseteq ExpectedIds
BY PreflightFields, FoundAreExpected DEF Stages, EarlyFailures, CalibratedIds

LEMMA PreflightFinite ==
  ASSUME ListsOK
  PROVE  IsFiniteSet(PreflightTracker.unexpected) /\ IsFiniteSet(ExpectedIds)
<1>1. IsFiniteSet(ExpectedIds) /\ IsFiniteSet(ToSet(manifest.calibrated))
      /\ IsFiniteSet({FixtureId(x) : x \in ToSet(manifest.fixtures)})
  BY ListFinite DEF ListsOK, ExpectedIds
<1>2. ThereIds \cup BrokenIds \subseteq {FixtureId(x) : x \in ToSet(manifest.fixtures)}
  BY DEF ThereIds, BrokenIds
<1>3. IsFiniteSet(ThereIds \cup BrokenIds)
  BY <1>1, <1>2, FS_Subset
<1>4. IsFiniteSet(FileIds)
  <2> DEFINE h == [f \in dir.files |-> f.name]
  <2>1. h \in Surjection(dir.files, FileIds)
    BY DEF Surjection, FileIds
  <2> HIDE DEF h
  <2> QED
    BY <2>1, FS_Surjection DEF ListsOK
<1>5. IsFiniteSet(CorpusIds)
  <2> DEFINE h == [q \in prompts \X Oracles |-> [prompt |-> q[1].id, oracle |-> q[2]]]
  <2>1. h \in Surjection(prompts \X Oracles, CorpusIds)
    <3>1. \A q \in prompts \X Oracles : h[q] \in CorpusIds
      BY DEF CorpusIds
    <3>2. \A c \in CorpusIds : \E q \in prompts \X Oracles : h[q] = c
      <4> SUFFICES ASSUME NEW c \in CorpusIds PROVE \E q \in prompts \X Oracles : h[q] = c
        OBVIOUS
      <4>1. PICK p \in prompts, o \in Oracles : c = [prompt |-> p.id, oracle |-> o]
        BY DEF CorpusIds
      <4>2. <<p, o>> \in prompts \X Oracles /\ h[<<p, o>>] = [prompt |-> p.id, oracle |-> o]
        OBVIOUS
      <4> QED
        BY <4>1, <4>2
    <3> QED
      BY <3>1, <3>2 DEF Surjection
  <2>2. IsFiniteSet(Oracles)
    <3>1. IsFiniteSet({"transformers"}) /\ IsFiniteSet({"vllm"})
      BY FS_Singleton
    <3>2. Oracles = {"transformers"} \cup {"vllm"}
      BY DEF Oracles
    <3> QED
      BY <3>1, <3>2, FS_Union
  <2>3. IsFiniteSet(prompts \X Oracles)
    BY <2>2, FS_Product DEF ListsOK
  <2> HIDE DEF h
  <2> QED
    BY <2>1, <2>3, FS_Surjection
<1> DEFINE all == CorpusIds \cup FileIds \cup (ThereIds \cup BrokenIds) \cup ToSet(manifest.calibrated)
<1>6. IsFiniteSet(all)
  BY <1>1, <1>3, <1>4, <1>5, FS_Union
<1>7. PreflightTracker.unexpected \in SUBSET all
  BY PreflightFields
<1> HIDE DEF all
<1> QED
  BY <1>1, <1>6, <1>7, FS_Subset
(* The prompts of a corpus are finitely many.                              *)
LEMMA LoadedFinite ==
  ASSUME NEW c, Listed(c), \A k \in DOMAIN c : c[k].subs \in Nat
  PROVE  IsFiniteSet(LoadedPrompts(c))
<1>1. Len(c) \in Nat /\ DOMAIN c = 1 .. Len(c)
  BY DEF Listed
<1> DEFINE parts == {Entries(c[k]) : k \in DOMAIN c}
<1>2. IsFiniteSet(parts)
  <2> DEFINE f == [k \in 1 .. Len(c) |-> Entries(c[k])]
  <2>1. f \in Surjection(1 .. Len(c), parts)
    BY <1>1 DEF Surjection
  <2>2. IsFiniteSet(1 .. Len(c))
    BY <1>1, PlacesFinite
  <2> HIDE DEF f, parts
  <2> QED
    BY <2>1, <2>2, FS_Surjection
<1>3. \A T \in parts : IsFiniteSet(T)
  <2> SUFFICES ASSUME NEW k \in DOMAIN c PROVE IsFiniteSet(Entries(c[k]))
    OBVIOUS
  <2> DEFINE n == c[k].subs
  <2>1. n \in Nat
    OBVIOUS
  <2>2. CASE n > 0
    <3> DEFINE E == {[id |-> <<c[k].id, j>>, family |-> "batch"] : j \in 1 .. n}
               f == [j \in 1 .. n |-> [id |-> <<c[k].id, j>>, family |-> "batch"]]
    <3>1. Entries(c[k]) = E
      BY <2>2 DEF Entries
    <3>2. f \in Surjection(1 .. n, E)
      BY DEF Surjection
    <3>3. IsFiniteSet(1 .. n)
      BY <2>1, PlacesFinite
    <3> HIDE DEF f, E
    <3> QED
      BY <3>1, <3>2, <3>3, FS_Surjection
  <2>3. CASE ~(n > 0)
    BY <2>3, FS_Singleton DEF Entries
  <2> QED
    BY <2>2, <2>3
<1> HIDE DEF parts
<1>4. IsFiniteSet(UNION parts)
  BY <1>2, <1>3, FS_UNION
<1> QED
  BY <1>4 DEF LoadedPrompts, parts

(* What an accepted manifest guarantees.                                   *)
Contract ==
  /\ \A i, j \in DOMAIN manifest.expected :
       FixtureId(manifest.expected[i]) = FixtureId(manifest.expected[j]) => i = j
  /\ \A i, j \in DOMAIN manifest.fixtures :
       FixtureId(manifest.fixtures[i]) = FixtureId(manifest.fixtures[j]) => i = j
  /\ \A e \in ToSet(manifest.expected) :
       /\ e.oracle \in Oracles
       /\ e.role = "reference" <=> e.oracle = "transformers"
       /\ e.role = "baseline" <=> e.oracle = "vllm"
  /\ \A x \in ToSet(manifest.fixtures) : FixtureId(x) \in ExpectedIds
  /\ \A c \in ToSet(manifest.calibrated) :
       c \in ExpectedIds /\ \E x \in ToSet(manifest.fixtures) : FixtureId(x) = c

LEMMA AcceptedContract ==
  ASSUME ListsOK, ManifestAccepted(manifest)
  PROVE  Contract /\ ExpectedIds # {}
<1>1. ContractOK(manifest)
  BY DEF ManifestAccepted
<1>2. manifest.expected # <<>> /\ Cardinality(ExpectedIds) = Len(manifest.expected)
  BY <1>1 DEF ContractOK, ExpectedIds
<1>3. Cardinality({FixtureId(x) : x \in ToSet(manifest.fixtures)}) = Len(manifest.fixtures)
  BY <1>1 DEF ContractOK
<1>4. \A e \in ToSet(manifest.expected) : RoleOK(e)
  BY <1>1 DEF ContractOK
<1>5. \A x \in ToSet(manifest.fixtures) : FixtureId(x) \in ExpectedIds
  BY <1>1 DEF ContractOK, ExpectedIds
<1>6. \A c \in ToSet(manifest.calibrated) :
        c \in ExpectedIds /\ \E x \in ToSet(manifest.fixtures) : FixtureId(x) = c
  BY <1>1 DEF ContractOK, ExpectedIds
<1>7. \A i, j \in DOMAIN manifest.expected :
        FixtureId(manifest.expected[i]) = FixtureId(manifest.expected[j]) => i = j
  <2>1. Cardinality({FixtureId(x) : x \in ToSet(manifest.expected)}) = Len(manifest.expected)
    BY <1>2 DEF ExpectedIds
  <2> QED
    BY <2>1, DistinctIds, Zenon DEF ListsOK
<1>8. \A i, j \in DOMAIN manifest.fixtures :
        FixtureId(manifest.fixtures[i]) = FixtureId(manifest.fixtures[j]) => i = j
  BY <1>3, DistinctIds, Zenon DEF ListsOK
<1>9. \A e \in ToSet(manifest.expected) :
        /\ e.oracle \in Oracles
        /\ e.role = "reference" <=> e.oracle = "transformers"
        /\ e.role = "baseline" <=> e.oracle = "vllm"
  BY <1>4 DEF RoleOK, Oracles
<1>10. ExpectedIds # {}
  <2>1. Len(manifest.expected) \in Nat /\ Len(manifest.expected) # 0
    BY <1>2 DEF ListsOK, Listed
  <2> QED
    BY <1>2, <2>1, FS_EmptySet
<1> QED
  BY <1>5, <1>6, <1>7, <1>8, <1>9, <1>10 DEF Contract
(* The fixtures that are compared.                                         *)
ReadyCases ==
  {x \in ToSet(manifest.fixtures) :
     /\ ExpectationOf(x).role = "reference"
     /\ FileOf(x) # {} /\ ~Broken(x)
     /\ HasPrompt(x.prompt) /\ PromptOf(x.prompt).family = ExpectationOf(x).family}

LEMMA CasesProperties ==
  ASSUME ListsOK
  PROVE  /\ ReferenceCases \in Seq(ToSet(manifest.fixtures))
         /\ Len(ReferenceCases) = Cardinality({i \in 1 .. Len(manifest.fixtures) : manifest.fixtures[i] \in ReadyCases})
         /\ \A x : x \in ReadyCases <=> \E k \in DOMAIN ReferenceCases : ReferenceCases[k] = x
<1>1. manifest.fixtures \in Seq(ToSet(manifest.fixtures))
  BY DEF ListsOK, Listed
<1>2. ReferenceCases = Retain(manifest.fixtures, ReadyCases)
  BY Zenon DEF ReferenceCases, ReadyCases
<1>3. /\ ReferenceCases \in Seq(ToSet(manifest.fixtures))
      /\ Len(ReferenceCases) = Cardinality({i \in 1 .. Len(manifest.fixtures) : manifest.fixtures[i] \in ReadyCases})
      /\ Range(ReferenceCases) = Range(manifest.fixtures) \cap ReadyCases
  <2> DEFINE T == ToSet(manifest.fixtures)
             s == manifest.fixtures
             S == ReadyCases
  <2>1. s \in Seq(T)
    BY <1>1
  <2>2. ReferenceCases = Retain(s, S)
    BY <1>2
  <2> HIDE DEF T, s, S
  <2>3. /\ Retain(s, S) \in Seq(T)
        /\ Len(Retain(s, S)) = Cardinality({i \in 1 .. Len(s) : s[i] \in S})
        /\ Range(Retain(s, S)) = Range(s) \cap S
    BY <2>1, RetainProperties
  <2>4. /\ ReferenceCases \in Seq(T)
        /\ Len(ReferenceCases) = Cardinality({i \in 1 .. Len(s) : s[i] \in S})
        /\ Range(ReferenceCases) = Range(s) \cap S
    BY <2>2, <2>3
  <2> QED
    BY <2>4 DEF T, s, S
<1>4. ReadyCases \subseteq ToSet(manifest.fixtures) /\ ToSet(manifest.fixtures) = Range(manifest.fixtures)
  BY DEF ReadyCases, ToSet, Range
<1>5. Range(ReferenceCases) = ReadyCases
  BY <1>3, <1>4
<1>6. \A x : x \in ReadyCases <=> \E k \in DOMAIN ReferenceCases : ReferenceCases[k] = x
  BY <1>5 DEF Range
<1> QED
  BY <1>3, <1>6

(* The expectation of a fixture.                                           *)
LEMMA ExpectationFacts ==
  ASSUME NEW x, FixtureId(x) \in ExpectedIds
  PROVE  /\ ExpectationOf(x) \in ToSet(manifest.expected) /\ FixtureId(ExpectationOf(x)) = FixtureId(x)
         /\ ExpectationOf(x).prompt = x.prompt /\ ExpectationOf(x).oracle = x.oracle
<1>1. \E e \in ToSet(manifest.expected) : FixtureId(e) = FixtureId(x)
  BY DEF ExpectedIds
<1>2. ExpectationOf(x) \in ToSet(manifest.expected) /\ FixtureId(ExpectationOf(x)) = FixtureId(x)
  BY <1>1 DEF ExpectationOf
<1>3. ExpectationOf(x).prompt = x.prompt /\ ExpectationOf(x).oracle = x.oracle
  BY <1>2 DEF FixtureId
<1> QED
  BY <1>2, <1>3

LEMMA OneExpectation ==
  ASSUME Contract, NEW d \in ToSet(manifest.expected), NEW e \in ToSet(manifest.expected), FixtureId(d) = FixtureId(e)
  PROVE  d = e
<1>1. PICK i, j \in DOMAIN manifest.expected : d = manifest.expected[i] /\ e = manifest.expected[j]
  BY DEF ToSet
<1> QED
  BY <1>1 DEF Contract

LEMMA OneFixture ==
  ASSUME Contract, NEW x \in ToSet(manifest.fixtures), NEW y \in ToSet(manifest.fixtures), FixtureId(x) = FixtureId(y)
  PROVE  x = y
<1>1. PICK i, j \in DOMAIN manifest.fixtures : x = manifest.fixtures[i] /\ y = manifest.fixtures[j]
  BY DEF ToSet
<1> QED
  BY <1>1 DEF Contract

-----------------------------------------------------------------------------
(* The inductive invariant.                                                *)

Given == \E i \in Inputs : corpus = i.corpus /\ manifest = i.manifest /\ dir = i.dir /\ opts = i.opts

Loaded == ManifestAccepted(manifest) /\ prompts = LoadedPrompts(corpus)

(* The comparison only adds to what preflight has counted.                 *)
Grown(t) ==
  /\ IsTracker(t) /\ t.expected = ExpectedIds
  /\ t.discovered = PreflightTracker.discovered
  /\ t.generated = PreflightTracker.generated
  /\ t.unexpected = PreflightTracker.unexpected
  /\ PreflightTracker.compared \subseteq t.compared
  /\ PreflightTracker.failed \subseteq t.failed
  /\ \A s \in Stages : t[s] \subseteq ExpectedIds

TrackerGrown == Grown(tracker)

(* The cases left are the last ones of the list; those before them have an *)
(* outcome, and a result unless one was skipped or failed.                 *)
ResultCases == tracker.compared \cup tracker.skipped \cup tracker.failed

Progress ==
  LET past == Len(ReferenceCases) - Len(cases)
  IN  /\ cases \in Seq(ToSet(manifest.fixtures)) /\ past \in Nat
      /\ \A k \in 1 .. Len(cases) : cases[k] = ReferenceCases[past + k]
      /\ \A k \in 1 .. past : FixtureId(ReferenceCases[k]) \in ResultCases
      /\ results \in Seq([l1 : BOOLEAN, l2 : BOOLEAN])
      /\ tracker.skipped = {} /\ tracker.failed = {} => Len(results) = past

(* A fixture with a message has failed, or is missing.                     *)
MessagesNoted == failures \subseteq tracker.failed \cup (ExpectedIds \ tracker.generated)

(* Only calibrated baselines and ready references count as compared.       *)
ReadyIds == {FixtureId(x) : x \in ReadyCases}
ComparedReady == tracker.compared \subseteq CalibratedIds \cup ReadyIds

Compared == Loaded /\ TrackerGrown /\ Progress /\ MessagesNoted /\ ComparedReady

(* The comparison under way is one of the next case.                       *)
CurrentFile == CHOOSE f \in FileOf(Head(cases)) : TRUE

CurrentCase ==
  /\ cases # <<>> /\ LayersEnabled(ExpectationOf(Head(cases)).required)
  /\ \E g \in Candidates :
       /\ GeometryOK(g)
       /\ Head(cases).category = "canonical" => Len(g.tokens) = Len(g.logits)
       /\ last = [case |-> <<CurrentFile, Head(cases)>>, candidate |-> <<g>>,
                  verdict |-> <<Verdict(CurrentFile, Head(cases), g)>>]

GateInv ==
  /\ Given
  /\ pc \in {"load", "preflight", "compare", "done"}
  /\ pc # "done" => exit = "none"
  /\ pc \in {"load", "preflight"} => results = <<>>
  /\ pc # "compare" => last = NoComparison
  /\ pc = "preflight" => Loaded
  /\ pc = "compare" => Compared
  /\ pc = "done" => exit = "error" \/ (exit \in {"pass", "fail"} /\ Compared /\ cases = <<>>)
  /\ exit = "pass" => ReferencePassed /\ ReleasePassed(tracker)
  /\ last # NoComparison => CurrentCase

LEMMA InputsListed ==
  ASSUME Given
  PROVE  /\ Listed(corpus) /\ \A k \in DOMAIN corpus : corpus[k].subs \in Nat
         /\ Listed(manifest.expected) /\ Listed(manifest.fixtures) /\ Listed(manifest.calibrated)
         /\ manifest.policy.gap \in Nat /\ manifest.policy.atol \in Nat
         /\ IsFiniteSet(dir.files)
         /\ \A f \in dir.files : f.tokens \in Seq(Nat) /\ f.logits \in LogitRows
<1>1. PICK i \in Inputs : corpus = i.corpus /\ manifest = i.manifest /\ dir = i.dir
  BY DEF Given
<1>2. /\ Listed(i.corpus) /\ \A k \in DOMAIN i.corpus : i.corpus[k].subs \in Nat
      /\ Listed(i.manifest.expected) /\ Listed(i.manifest.fixtures) /\ Listed(i.manifest.calibrated)
      /\ {i.manifest.policy.gap, i.manifest.policy.atol} \subseteq Nat
      /\ IsFiniteSet(i.dir.files)
      /\ \A f \in i.dir.files : f.tokens \in Seq(Nat) /\ f.logits \in LogitRows
  BY InputTypes, Zenon
<1> QED
  BY <1>1, <1>2

LEMMA LoadedLists ==
  ASSUME Given, Loaded
  PROVE  ListsOK /\ Contract /\ ExpectedIds # {}
<1>1. ListsOK
  BY InputsListed, LoadedFinite DEF ListsOK, Loaded
<1> QED
  BY <1>1, AcceptedContract DEF Loaded
(* Steps that keep the inputs keep what is computed from them.             *)
LEMMA SameInputs ==
  ASSUME UNCHANGED <<corpus, manifest, dir, opts, prompts>>
  PROVE  /\ ReferenceCases' = ReferenceCases
         /\ PreflightTracker' = PreflightTracker
         /\ ExpectedIds' = ExpectedIds
         /\ CalibratedIds' = CalibratedIds /\ ReadyIds' = ReadyIds
         /\ Given' = Given /\ Loaded' = Loaded
<1>1. corpus' = corpus /\ manifest' = manifest /\ dir' = dir /\ opts' = opts /\ prompts' = prompts
  OBVIOUS
<1>2. ExpectedIds' = ExpectedIds
  BY <1>1 DEF ExpectedIds
<1>3. \A id : PromptOf(id)' = PromptOf(id)
  BY <1>1 DEF PromptOf
<1>4. \A id : HasPrompt(id)' = HasPrompt(id)
  BY <1>1 DEF HasPrompt
<1>5. \A x : FileOf(x)' = FileOf(x)
  BY <1>1 DEF FileOf
<1>6. \A x : Broken(x)' = Broken(x)
  BY <1>5 DEF Broken
<1>7. \A x : ExpectationOf(x)' = ExpectationOf(x)
  BY <1>1 DEF ExpectationOf
<1>8. ReferenceCases' = ReferenceCases
  BY <1>1, <1>3, <1>4, <1>5, <1>6, <1>7 DEF ReferenceCases
<1>9. PreflightTracker' = PreflightTracker
  <2>1. FoundIds' = FoundIds /\ FileIds' = FileIds
    BY <1>1, <1>4 DEF FoundIds, FileIds
  <2>2. WrongIds' = WrongIds
    BY <1>1, <1>3, <1>4 DEF WrongIds
  <2>3. CorpusIds' = CorpusIds
    BY <1>1 DEF CorpusIds
  <2>4. ThereIds' = ThereIds
    BY <1>1, <1>5 DEF ThereIds
  <2>5. BrokenIds' = BrokenIds
    BY <1>1, <1>5, <1>6 DEF BrokenIds
  <2> DEFINE fresh == [NoTracker EXCEPT !.expected = ExpectedIds]
             one == Record(Record(fresh, "discovered", FoundIds \cup (CorpusIds \ ExpectedIds)), "failed", WrongIds)
  <2>6. Discovered = IF dir.readable THEN Record(one, "generated", FileIds \ ExpectedIds)
                     ELSE Record(one, "failed", ExpectedIds)
    BY DEF Discovered, FoundIds, WrongIds, CorpusIds, FileIds
  <2>7. Discovered' = Discovered
    <3>1. Discovered' = IF dir'.readable THEN Record(one', "generated", FileIds' \ ExpectedIds')
                        ELSE Record(one', "failed", ExpectedIds')
      BY DEF Discovered, FoundIds, WrongIds, CorpusIds, FileIds
    <3>2. one' = one
      BY <1>2, <2>1, <2>2, <2>3
    <3> HIDE DEF one
    <3> QED
      BY <1>1, <1>2, <2>1, <2>6, <3>1, <3>2, Zenon
  <2> DEFINE g == Generated(Discovered)
  <2>8. g = Record(Record(Discovered, "generated", ThereIds), "failed", BrokenIds)
    BY Zenon DEF Generated, ThereIds, BrokenIds
  <2>9. g' = Record(Record(Discovered', "generated", ThereIds'), "failed", BrokenIds')
    BY Zenon DEF Generated, ThereIds, BrokenIds
  <2>10. g' = g
    BY <2>4, <2>5, <2>7, <2>8, <2>9, Zenon
  <2> DEFINE good == {c \in ToSet(manifest.calibrated) : c \in g.generated /\ c \notin g.failed}
  <2>11. PreflightTracker = Record(Record(g, "compared", good), "failed", ToSet(manifest.calibrated) \ good)
    BY Zenon DEF PreflightTracker, Calibrated
  <2>12. PreflightTracker' = Record(Record(g', "compared", good'), "failed", ToSet(manifest'.calibrated) \ good')
    BY Zenon DEF PreflightTracker, Calibrated
  <2> HIDE DEF g
  <2>13. good' = good
    BY <1>1, <2>10
  <2> HIDE DEF good
  <2> QED
    BY <1>1, <2>10, <2>11, <2>12, <2>13, Zenon
<1>10. Given' = Given /\ Loaded' = Loaded
  BY <1>1 DEF Given, Loaded
<1>11. CalibratedIds' = CalibratedIds
  <2>1. ThereIds' = ThereIds
    BY <1>1, <1>5 DEF ThereIds
  <2>2. BrokenIds' = BrokenIds
    BY <1>1, <1>5, <1>6 DEF BrokenIds
  <2>3. WrongIds' = WrongIds
    BY <1>1, <1>3, <1>4 DEF WrongIds
  <2>4. EarlyFailures' = EarlyFailures
    BY <1>1, <1>2, <2>2, <2>3 DEF EarlyFailures
  <2> QED
    BY <1>1, <1>2, <2>1, <2>4 DEF CalibratedIds
<1>12. ReadyIds' = ReadyIds
  <2>1. ReadyCases' = ReadyCases
    BY <1>1, <1>3, <1>4, <1>5, <1>6, <1>7 DEF ReadyCases
  <2> QED
    BY <2>1 DEF ReadyIds
<1> QED
  BY <1>2, <1>8, <1>9, <1>10, <1>11, <1>12
LEMMA GrowsOn ==
  ASSUME NEW t, Grown(t), NEW stage \in {"compared", "skipped", "failed"}, NEW id \in ExpectedIds
  PROVE  /\ Grown(Record(t, stage, {id}))
         /\ Record(t, stage, {id})[stage] = t[stage] \cup {id}
         /\ \A s \in Stages \ {stage} : Record(t, stage, {id})[s] = t[s]
<1> DEFINE r == Record(t, stage, {id})
<1>1. stage \in Stages /\ IsTracker(t) /\ t.expected = ExpectedIds
  BY DEF Stages, Grown
<1>2. IsTracker(r) /\ RecordedAs(r, t, stage, {id})
  BY <1>1, Recorded
<1> HIDE DEF r
<1>3. r[stage] = t[stage] \cup {id} /\ \A s \in Stages \ {stage} : r[s] = t[s]
  BY <1>1, <1>2 DEF RecordedAs
<1>4. r.expected = ExpectedIds /\ r.unexpected = t.unexpected
  BY <1>1, <1>2 DEF RecordedAs
<1>5. \A s \in Stages : t[s] \subseteq r[s] /\ r[s] \subseteq ExpectedIds
  BY <1>3 DEF Grown
<1>6. r.discovered = t.discovered /\ r.generated = t.generated
  BY <1>3 DEF Stages
<1>7. t.compared \subseteq r.compared /\ t.failed \subseteq r.failed
  BY <1>5 DEF Stages
<1>8. Grown(r)
  BY <1>2, <1>4, <1>5, <1>6, <1>7 DEF Grown
<1> QED
  BY <1>3, <1>8 DEF r

LEMMA GrownKept ==
  ASSUME UNCHANGED <<corpus, manifest, dir, opts, prompts>>, Grown(tracker')
  PROVE  TrackerGrown'
BY SameInputs DEF TrackerGrown, Grown

(* The case at the head of the list is a reference that is ready.          *)
LEMMA HeadCase ==
  ASSUME Given, Compared, cases # <<>>
  PROVE  /\ Head(cases) \in ReadyCases /\ Head(cases) \in ToSet(manifest.fixtures)
         /\ FixtureId(Head(cases)) \in ExpectedIds
         /\ Head(cases) = ReferenceCases[Len(ReferenceCases) - Len(cases) + 1]
         /\ Len(ReferenceCases) \in Nat /\ Len(cases) \in Nat \ {0}
<1>1. ListsOK /\ Contract
  BY LoadedLists DEF Compared
<1>2. /\ cases \in Seq(ToSet(manifest.fixtures)) /\ Len(ReferenceCases) - Len(cases) \in Nat
      /\ \A k \in 1 .. Len(cases) : cases[k] = ReferenceCases[Len(ReferenceCases) - Len(cases) + k]
  BY DEF Compared, Progress
<1>3. /\ ReferenceCases \in Seq(ToSet(manifest.fixtures))
      /\ \A k \in DOMAIN ReferenceCases : ReferenceCases[k] \in ReadyCases
  BY <1>1, CasesProperties
<1> DEFINE C == ReferenceCases
           n == Len(C) - Len(cases)
<1> HIDE DEF C
<1>4. /\ Len(cases) \in Nat \ {0} /\ Head(cases) = cases[1] /\ Head(cases) \in ToSet(manifest.fixtures)
      /\ Len(C) \in Nat /\ DOMAIN C = 1 .. Len(C)
  BY <1>2, <1>3 DEF C
<1>5. Head(cases) = C[n + 1] /\ n + 1 \in DOMAIN C
  BY <1>2, <1>4 DEF C
<1>6. Head(cases) \in ReadyCases
  BY <1>3, <1>5 DEF C
<1> QED
  BY <1>1, <1>4, <1>5, <1>6 DEF Contract, C

(* A step that takes the head of the list off and gives it an outcome.     *)
LEMMA NextCase ==
  ASSUME Given, Compared, cases # <<>>,
         UNCHANGED <<corpus, manifest, dir, opts, prompts>>,
         cases' = Tail(cases),
         ResultCases \subseteq ResultCases', FixtureId(Head(cases)) \in ResultCases',
         results' \in Seq([l1 : BOOLEAN, l2 : BOOLEAN]),
         tracker'.skipped = {} /\ tracker'.failed = {}
           => tracker.skipped = {} /\ tracker.failed = {} /\ Len(results') = Len(results) + 1
  PROVE  Progress'
<1> DEFINE C == ReferenceCases
           n == Len(C) - Len(cases)
<1>1. C' = C /\ manifest' = manifest
  BY SameInputs
<1>2. /\ cases \in Seq(ToSet(manifest.fixtures)) /\ n \in Nat
      /\ \A k \in 1 .. Len(cases) : cases[k] = C[n + k]
      /\ \A k \in 1 .. n : FixtureId(C[k]) \in ResultCases
      /\ tracker.skipped = {} /\ tracker.failed = {} => Len(results) = n
  BY DEF Compared, Progress
<1>3. Head(cases) = C[n + 1] /\ Len(C) \in Nat /\ Len(cases) \in Nat \ {0}
  BY HeadCase
<1> HIDE DEF C
<1>4. /\ cases' \in Seq(ToSet(manifest'.fixtures)) /\ Len(cases') = Len(cases) - 1
      /\ \A k \in 1 .. Len(cases') : cases'[k] = cases[k + 1]
  BY <1>1, <1>2, <1>3
<1>5. Len(C) - Len(cases') = n + 1
  BY <1>3, <1>4
<1>6. \A k \in 1 .. Len(cases') : cases'[k] = C[(n + 1) + k]
  <2> SUFFICES ASSUME NEW k \in 1 .. Len(cases') PROVE cases'[k] = C[(n + 1) + k]
    OBVIOUS
  <2>1. k + 1 \in 1 .. Len(cases) /\ k \in Nat
    BY <1>3, <1>4
  <2>2. cases[k + 1] = C[n + (k + 1)]
    BY <1>2, <2>1
  <2>3. n + (k + 1) = (n + 1) + k
    BY <1>2, <2>1
  <2> QED
    BY <1>4, <2>2, <2>3
<1>7. \A k \in 1 .. (n + 1) : FixtureId(C[k]) \in ResultCases'
  BY <1>2, <1>3
<1>8. tracker'.skipped = {} /\ tracker'.failed = {} => Len(results') = n + 1
  BY <1>2
<1>9. n + 1 \in Nat
  BY <1>2
<1>10. C' = ReferenceCases'
  BY DEF C
<1> HIDE DEF n
<1>11. Len(ReferenceCases') - Len(cases') = n + 1 /\ ReferenceCases' = C
  BY <1>1, <1>5, <1>10
<1> QED
  BY <1>4, <1>6, <1>7, <1>8, <1>9, <1>11 DEF Progress
LEMMA InitGate == GateInit => GateInv
<1> SUFFICES ASSUME GateInit PROVE GateInv
  OBVIOUS
<1>1. Given
  BY DEF GateInit, Given
<1>2. pc = "load" /\ results = <<>> /\ last = NoComparison /\ exit = "none"
  BY DEF GateInit
<1> QED
  BY <1>1, <1>2 DEF GateInv

LEMMA LoadStep ==
  ASSUME GateInv, Load
  PROVE  GateInv'
<1>1. Given' /\ last' = NoComparison /\ results' = <<>>
  BY DEF GateInv, Load, Given
<1>2. CASE ManifestAccepted(manifest) /\ CorpusOK(corpus)
  <2>1. /\ pc' = "preflight" /\ prompts' = LoadedPrompts(corpus) /\ exit' = "none"
        /\ manifest' = manifest /\ corpus' = corpus
    BY <1>2 DEF Load, GateInv
  <2>2. Loaded'
    BY <1>2, <2>1 DEF Loaded
  <2> QED
    BY <1>1, <2>1, <2>2 DEF GateInv
<1>3. CASE ~(ManifestAccepted(manifest) /\ CorpusOK(corpus))
  BY <1>1, <1>3 DEF GateInv, Load
<1> QED
  BY <1>2, <1>3

(* What preflight has a message about has failed, or is missing.           *)
LEMMA ErrorsNoted ==
  ASSUME Given, Loaded
  PROVE  PreflightErrors(PreflightTracker)
           \subseteq PreflightTracker.failed \cup (ExpectedIds \ PreflightTracker.generated)
<1> DEFINE t == PreflightTracker
           wrong == {e \in ToSet(manifest.expected) : HasPrompt(e.prompt) /\ PromptOf(e.prompt).family # e.family}
           bad == {x \in ToSet(manifest.fixtures) : FileOf(x) = {} \/ Broken(x)}
           uncalibrated == {c \in ToSet(manifest.calibrated) : c \notin t.generated \/ c \in t.failed}
           noted == t.failed \cup (ExpectedIds \ t.generated)
<1>1. Contract
  BY LoadedLists
<1>2. /\ EarlyFailures \subseteq t.failed /\ t.generated = ThereIds \cap ExpectedIds
  BY PreflightFields
<1> HIDE DEF t
<1>3. \A e \in wrong : FixtureId(e) \in noted
  <2> SUFFICES ASSUME NEW e \in wrong PROVE FixtureId(e) \in noted
    OBVIOUS
  <2>1. FixtureId(e) \in WrongIds /\ FixtureId(e) \in ExpectedIds
    BY DEF WrongIds, ExpectedIds
  <2>2. FixtureId(e) \in EarlyFailures
    BY <2>1 DEF EarlyFailures
  <2> QED
    BY <1>2, <2>2
<1>4. \A x \in bad : FixtureId(x) \in noted
  <2> SUFFICES ASSUME NEW x \in bad PROVE FixtureId(x) \in noted
    OBVIOUS
  <2>1. FixtureId(x) \in ExpectedIds
    BY <1>1 DEF Contract
  <2>2. CASE FileOf(x) = {}
    <3>1. FixtureId(x) \notin ThereIds
      <4> SUFFICES ASSUME FixtureId(x) \in ThereIds PROVE FALSE
        OBVIOUS
      <4>1. PICK y \in ToSet(manifest.fixtures) : FileOf(y) # {} /\ FixtureId(y) = FixtureId(x)
        BY DEF ThereIds
      <4> QED
        BY <2>2, <4>1, <1>1, OneFixture
    <3> QED
      BY <1>2, <2>1, <3>1
  <2>3. CASE FileOf(x) # {}
    <3>1. FixtureId(x) \in BrokenIds
      BY <2>3 DEF BrokenIds
    <3> QED
      BY <1>2, <2>1, <3>1 DEF EarlyFailures
  <2> QED
    BY <2>2, <2>3
<1>5. \A c \in uncalibrated : c \in noted
  BY <1>1 DEF Contract
<1>6. ~dir.readable => ExpectedIds \subseteq noted
  BY <1>2 DEF EarlyFailures
<1>7. PreflightErrors(t) = {FixtureId(x) : x \in wrong \cup bad} \cup uncalibrated
                             \cup (IF dir.readable THEN {} ELSE ExpectedIds)
  BY Zenon DEF PreflightErrors
<1> HIDE DEF wrong, bad, uncalibrated, noted
<1>8. PreflightErrors(t) \subseteq noted
  BY <1>3, <1>4, <1>5, <1>6, <1>7
<1> QED
  BY <1>8 DEF noted, t

LEMMA PreflightStep ==
  ASSUME GateInv, Preflight
  PROVE  GateInv'
<1>1. pc = "preflight" /\ Given /\ Loaded /\ results = <<>> /\ exit = "none" /\ last = NoComparison
  BY DEF GateInv, Preflight
<1>2. UNCHANGED <<corpus, manifest, dir, opts, prompts>>
  BY DEF Preflight
<1>3. /\ tracker' = PreflightTracker /\ cases' = ReferenceCases /\ failures' = PreflightErrors(tracker')
      /\ pc' = "compare" /\ results' = <<>> /\ last' = NoComparison /\ exit' = "none"
  BY <1>1 DEF Preflight, PreflightTracker
<1>4. Given' /\ Loaded'
  BY <1>1, <1>2, SameInputs
<1>5. TrackerGrown'
  <2>1. Grown(PreflightTracker)
    BY PreflightFields, PreflightStages DEF Grown
  <2> QED
    BY <1>2, <1>3, <2>1, GrownKept
<1>6. MessagesNoted'
  <2>1. ExpectedIds' = ExpectedIds
    BY <1>2, SameInputs
  <2> QED
    BY <1>1, <1>3, <2>1, ErrorsNoted DEF MessagesNoted
<1>7. Progress'
  <2>1. ReferenceCases' = ReferenceCases /\ manifest' = manifest
    BY <1>2, SameInputs
  <2>2. ReferenceCases \in Seq(ToSet(manifest.fixtures))
    BY <1>1, LoadedLists, CasesProperties
  <2> DEFINE C == ReferenceCases
  <2> HIDE DEF C
  <2>3. cases' = C /\ ReferenceCases' = C /\ C \in Seq(ToSet(manifest'.fixtures))
    BY <1>3, <2>1, <2>2 DEF C
  <2>4. Len(C) \in Nat /\ Len(C) - Len(C) = 0 /\ \A k \in 1 .. Len(C) : C[k] = C[0 + k]
    BY <2>3
  <2>5. results' \in Seq([l1 : BOOLEAN, l2 : BOOLEAN]) /\ Len(results') = 0
    BY <1>3
  <2> QED
    BY <2>3, <2>4, <2>5 DEF Progress
<1>9. ComparedReady'
  <2>1. tracker'.compared = CalibratedIds
    BY <1>3, PreflightFields
  <2> QED
    BY <1>2, <2>1, SameInputs DEF ComparedReady
<1>8. Compared'
  BY <1>4, <1>5, <1>6, <1>7, <1>9 DEF Compared
<1> QED
  BY <1>3, <1>4, <1>8 DEF GateInv
LEMMA SkipStep ==
  ASSUME GateInv, SkipCase
  PROVE  GateInv'
<1> DEFINE id == FixtureId(Head(cases))
<1>1. /\ pc = "compare" /\ cases # <<>> /\ Given /\ Compared /\ exit = "none"
      /\ ~LayersEnabled(ExpectationOf(Head(cases)).required)
  BY DEF GateInv, SkipCase
<1>2. UNCHANGED <<corpus, manifest, dir, opts, prompts>>
  BY DEF SkipCase
<1>3. /\ tracker' = Record(tracker, "skipped", {id}) /\ cases' = Tail(cases)
      /\ pc' = "compare" /\ results' = results /\ failures' = failures /\ last' = last /\ exit' = "none"
  BY <1>1 DEF SkipCase
<1>4. last = NoComparison
  BY <1>1 DEF GateInv, CurrentCase
<1>5. Given' /\ Loaded'
  BY <1>1, <1>2, SameInputs DEF Compared
<1>6. id \in ExpectedIds
  BY <1>1, HeadCase
<1> HIDE DEF id
<1>7. /\ Grown(tracker') /\ tracker'.skipped = tracker.skipped \cup {id}
      /\ tracker'.compared = tracker.compared /\ tracker'.failed = tracker.failed
  <2>1. Grown(tracker) /\ "skipped" \in {"compared", "skipped", "failed"}
    BY <1>1 DEF Compared, TrackerGrown
  <2>2. /\ Grown(tracker') /\ tracker'["skipped"] = tracker["skipped"] \cup {id}
        /\ \A s \in Stages \ {"skipped"} : tracker'[s] = tracker[s]
    BY <1>3, <1>6, <2>1, GrowsOn
  <2> QED
    BY <2>2 DEF Stages
<1>8. TrackerGrown'
  BY <1>2, <1>7, GrownKept
<1>9. MessagesNoted'
  <2>1. ExpectedIds' = ExpectedIds /\ tracker'.generated = tracker.generated
    BY <1>1, <1>2, <1>7, SameInputs DEF Grown, Compared, TrackerGrown
  <2> QED
    BY <1>1, <1>3, <1>7, <2>1 DEF MessagesNoted, Compared
<1>10. Progress'
  <2>1. results' \in Seq([l1 : BOOLEAN, l2 : BOOLEAN])
    BY <1>1, <1>3 DEF Compared, Progress
  <2>2. ResultCases \subseteq ResultCases' /\ id \in ResultCases'
    BY <1>7 DEF ResultCases
  <2>3. tracker'.skipped # {}
    BY <1>7
  <2> QED
    BY <1>1, <1>2, <1>3, <2>1, <2>2, <2>3, NextCase DEF id
<1>11. ComparedReady'
  BY <1>1, <1>2, <1>7, SameInputs DEF ComparedReady, Compared
<1> QED
  BY <1>3, <1>4, <1>5, <1>8, <1>9, <1>10, <1>11 DEF GateInv, Compared

LEMMA FailsStep ==
  ASSUME GateInv, CaseFails
  PROVE  GateInv'
<1> DEFINE id == FixtureId(Head(cases))
<1>1. /\ pc = "compare" /\ cases # <<>> /\ Given /\ Compared /\ exit = "none" /\ last = NoComparison
  BY DEF GateInv, CaseFails
<1>2. UNCHANGED <<corpus, manifest, dir, opts, prompts>>
  BY DEF CaseFails
<1>3. /\ tracker' = Record(tracker, "failed", {id}) /\ cases' = Tail(cases)
      /\ failures' = failures \cup {id}
      /\ pc' = "compare" /\ results' = results /\ last' = NoComparison /\ exit' = "none"
  BY <1>1 DEF CaseFails
<1>5. Given' /\ Loaded'
  BY <1>1, <1>2, SameInputs DEF Compared
<1>6. id \in ExpectedIds
  BY <1>1, HeadCase
<1> HIDE DEF id
<1>7. /\ Grown(tracker') /\ tracker'.failed = tracker.failed \cup {id}
      /\ tracker'.compared = tracker.compared /\ tracker'.skipped = tracker.skipped
  <2>1. Grown(tracker) /\ "failed" \in {"compared", "skipped", "failed"}
    BY <1>1 DEF Compared, TrackerGrown
  <2>2. /\ Grown(tracker') /\ tracker'["failed"] = tracker["failed"] \cup {id}
        /\ \A s \in Stages \ {"failed"} : tracker'[s] = tracker[s]
    BY <1>3, <1>6, <2>1, GrowsOn
  <2> QED
    BY <2>2 DEF Stages
<1>8. TrackerGrown'
  BY <1>2, <1>7, GrownKept
<1>9. MessagesNoted'
  <2>1. ExpectedIds' = ExpectedIds /\ tracker'.generated = tracker.generated
    BY <1>1, <1>2, <1>7, SameInputs DEF Grown, Compared, TrackerGrown
  <2> QED
    BY <1>1, <1>3, <1>7, <2>1 DEF MessagesNoted, Compared
<1>10. Progress'
  <2>1. results' \in Seq([l1 : BOOLEAN, l2 : BOOLEAN])
    BY <1>1, <1>3 DEF Compared, Progress
  <2>2. ResultCases \subseteq ResultCases' /\ id \in ResultCases'
    BY <1>7 DEF ResultCases
  <2>3. tracker'.failed # {}
    BY <1>7
  <2> QED
    BY <1>1, <1>2, <1>3, <2>1, <2>2, <2>3, NextCase DEF id
<1>11. ComparedReady'
  BY <1>1, <1>2, <1>7, SameInputs DEF ComparedReady, Compared
<1> QED
  BY <1>3, <1>5, <1>8, <1>9, <1>10, <1>11 DEF GateInv, Compared
-----------------------------------------------------------------------------
(* The comparison of one candidate.                                        *)

(* A recursion from the end of a list to its start has a solution.         *)
Backward(f, n, R, end, step) ==
  /\ f \in [1 .. (n + 1) -> R] /\ f[n + 1] = end
  /\ \A k \in 1 .. n : f[k] = step[<<k, f[k + 1]>>]

LEMMA BackwardExists ==
  ASSUME NEW n \in Nat, NEW R, NEW end \in R, NEW step \in [(1 .. n) \X R -> R]
  PROVE  \E f : Backward(f, n, R, end, step)
<1> DEFINE P(m, f) == /\ f \in [(n + 1 - m) .. (n + 1) -> R] /\ f[n + 1] = end
                      /\ \A k \in (n + 1 - m) .. n : f[k] = step[<<k, f[k + 1]>>]
           S == {m \in Nat : m <= n => \E f : P(m, f)}
<1>1. 0 \in S
  <2> DEFINE f == [k \in (n + 1 - 0) .. (n + 1) |-> end]
  <2>1. P(0, f)
    OBVIOUS
  <2> QED
    BY <2>1
<1>2. ASSUME NEW m \in Nat, m \in S PROVE m + 1 \in S
  <2> SUFFICES ASSUME m + 1 <= n PROVE \E f : P(m + 1, f)
    OBVIOUS
  <2>1. PICK f : P(m, f)
    BY <1>2
  <2> DEFINE a == n - m
             g == [k \in a .. (n + 1) |-> IF k = a THEN step[<<a, f[a + 1]>>] ELSE f[k]]
  <2>2. a \in 1 .. n /\ n + 1 - m = a + 1 /\ n + 1 - (m + 1) = a
    OBVIOUS
  <2>3. f \in [(a + 1) .. (n + 1) -> R] /\ f[n + 1] = end
        /\ \A k \in (a + 1) .. n : f[k] = step[<<k, f[k + 1]>>]
    BY <2>1, <2>2
  <2> HIDE DEF a
  <2>4. f[a + 1] \in R /\ <<a, f[a + 1]>> \in (1 .. n) \X R
    BY <2>2, <2>3
  <2>5. step[<<a, f[a + 1]>>] \in R
    BY <2>4
  <2>6. g \in [a .. (n + 1) -> R]
    BY <2>2, <2>3, <2>5
  <2>7. g[n + 1] = end /\ g[a + 1] = f[a + 1] /\ g[a] = step[<<a, f[a + 1]>>]
    BY <2>2, <2>3
  <2>8. \A k \in a .. n : g[k] = step[<<k, g[k + 1]>>]
    <3> SUFFICES ASSUME NEW k \in a .. n PROVE g[k] = step[<<k, g[k + 1]>>]
      OBVIOUS
    <3>1. CASE k = a
      BY <2>7, <3>1
    <3>2. CASE k # a
      <4>1. k \in (a + 1) .. n /\ k + 1 \in a .. (n + 1) /\ k + 1 # a
        BY <2>2, <3>2
      <4>2. g[k] = f[k] /\ g[k + 1] = f[k + 1]
        BY <4>1
      <4> QED
        BY <2>3, <4>1, <4>2
    <3> QED
      BY <3>1, <3>2
  <2>9. P(m + 1, g)
    BY <2>2, <2>6, <2>7, <2>8
  <2> HIDE DEF g, P
  <2> QED
    BY <2>9
<1>3. S = Nat
  <2>1. S \in SUBSET Nat
    OBVIOUS
  <2> HIDE DEF S
  <2> QED
    BY <1>1, <1>2, <2>1, SetInduction
<1>4. n \in S /\ n <= n /\ n + 1 - n = 1
  BY <1>3
<1>5. PICK f : P(n, f)
  <2> HIDE DEF P
  <2> QED
    BY <1>4
<1> QED
  BY <1>4, <1>5 DEF Backward

(* What a recursion from the end keeps.                                    *)
LEMMA BackwardType ==
  ASSUME NEW n \in Nat, NEW R, NEW f, f[n + 1] \in R,
         \A k \in 1 .. n : f[k + 1] \in R => f[k] \in R
  PROVE  \A k \in 1 .. (n + 1) : f[k] \in R
<1> DEFINE S == {m \in Nat : m <= n => f[n + 1 - m] \in R}
<1>1. 0 \in S
  OBVIOUS
<1>2. ASSUME NEW m \in Nat, m \in S PROVE m + 1 \in S
  <2> SUFFICES ASSUME m + 1 <= n PROVE f[n + 1 - (m + 1)] \in R
    OBVIOUS
  <2> DEFINE a == n - m
  <2>1. a \in 1 .. n /\ n + 1 - m = a + 1 /\ n + 1 - (m + 1) = a
    OBVIOUS
  <2>2. f[a + 1] \in R
    BY <1>2, <2>1
  <2> HIDE DEF a
  <2> QED
    BY <2>1, <2>2
<1>3. S = Nat
  <2>1. S \in SUBSET Nat
    OBVIOUS
  <2> HIDE DEF S
  <2> QED
    BY <1>1, <1>2, <2>1, SetInduction
<1>4. ASSUME NEW k \in 1 .. (n + 1) PROVE f[k] \in R
  <2>1. n + 1 - k \in Nat /\ n + 1 - k <= n /\ n + 1 - (n + 1 - k) = k
    OBVIOUS
  <2>2. n + 1 - k \in S
    BY <1>3, <2>1
  <2> QED
    BY <2>1, <2>2
<1> QED
  BY <1>4

(* What a walk to the first difference decides, from place 1 on: every     *)
(* place before which nothing differs is fine, and so is the end if        *)
(* nothing differs at all.                                                 *)
WalksForward(n, Same, Keep, Stop, P) ==
  \A k \in 1 .. n : k \in P <=> IF k \in Same THEN k + 1 \in P /\ k \in Keep ELSE k \in Stop

DecidesByPrefix(n, Same, Keep, Stop, P) ==
  1 \in P <=>
    /\ \A j \in 1 .. n : (1 .. (j - 1)) \subseteq Same => IF j \in Same THEN j \in Keep ELSE j \in Stop
    /\ (1 .. n) \subseteq Same => n + 1 \in P

LEMMA PrefixWalk ==
  ASSUME NEW n \in Nat, NEW Same, NEW Keep, NEW Stop, NEW P, WalksForward(n, Same, Keep, Stop, P)
  PROVE  DecidesByPrefix(n, Same, Keep, Stop, P)
<1> DEFINE Fine == {k \in 1 .. (n + 1) :
                      /\ \A j \in k .. n : (k .. (j - 1)) \subseteq Same => IF j \in Same THEN j \in Keep ELSE j \in Stop
                      /\ (k .. n) \subseteq Same => n + 1 \in P}
           S == {m \in Nat : m <= n => (n + 1 - m \in P <=> n + 1 - m \in Fine)}
<1>1. n + 1 \in P <=> n + 1 \in Fine
  <2>1. (n + 1) .. n = {} /\ n + 1 \in 1 .. (n + 1)
    OBVIOUS
  <2> QED
    BY <2>1, Zenon
<1>2. \A a \in 1 .. n : a \in Fine <=> IF a \in Same THEN a + 1 \in Fine /\ a \in Keep ELSE a \in Stop
  <2> SUFFICES ASSUME NEW a \in 1 .. n
               PROVE  a \in Fine <=> IF a \in Same THEN a + 1 \in Fine /\ a \in Keep ELSE a \in Stop
    OBVIOUS
  <2>1. a \in 1 .. (n + 1) /\ a + 1 \in 1 .. (n + 1)
    OBVIOUS
  <2>2. /\ a .. (a - 1) \subseteq Same
        /\ a \in a .. n /\ \A j \in a .. n : j = a \/ j \in (a + 1) .. n
        /\ \A j \in (a + 1) .. n : j \in a .. n /\ a \in a .. (j - 1)
    OBVIOUS
  <2>3. CASE a \notin Same
    BY <2>1, <2>2, <2>3
  <2>4. CASE a \in Same
    <3>1. \A j \in (a + 1) .. n : (a .. (j - 1)) \subseteq Same <=> ((a + 1) .. (j - 1)) \subseteq Same
      BY <2>4
    <3>2. (a .. n) \subseteq Same <=> ((a + 1) .. n) \subseteq Same
      BY <2>4
    <3> QED
      BY <2>1, <2>2, <2>4, <3>1, <3>2
  <2> QED
    BY <2>3, <2>4
<1>3. 1 \in Fine <=>
           /\ \A j \in 1 .. n : (1 .. (j - 1)) \subseteq Same => IF j \in Same THEN j \in Keep ELSE j \in Stop
           /\ (1 .. n) \subseteq Same => n + 1 \in P
  <2>1. 1 \in 1 .. (n + 1)
    OBVIOUS
  <2> QED
    BY <2>1, Zenon
<1> HIDE DEF Fine
<1>4. 0 \in S
  BY <1>1
<1>5. ASSUME NEW m \in Nat, m \in S PROVE m + 1 \in S
  <2> SUFFICES ASSUME m + 1 <= n PROVE n + 1 - (m + 1) \in P <=> n + 1 - (m + 1) \in Fine
    OBVIOUS
  <2> DEFINE a == n - m
  <2>1. a \in 1 .. n /\ n + 1 - m = a + 1 /\ n + 1 - (m + 1) = a
    OBVIOUS
  <2>2. a + 1 \in P <=> a + 1 \in Fine
    BY <1>5, <2>1
  <2>3. a \in P <=> IF a \in Same THEN a + 1 \in P /\ a \in Keep ELSE a \in Stop
    BY <2>1 DEF WalksForward
  <2> HIDE DEF a
  <2> QED
    BY <1>2, <2>1, <2>2, <2>3
<1>6. S = Nat
  <2>1. S \in SUBSET Nat
    OBVIOUS
  <2> HIDE DEF S
  <2> QED
    BY <1>4, <1>5, <2>1, SetInduction
<1>7. n \in S /\ n <= n /\ n + 1 - n = 1
  <2> HIDE DEF S
  <2> QED
    BY <1>6
<1>8. 1 \in P <=> 1 \in Fine
  BY <1>7
<1> QED
  BY <1>3, <1>8, Zenon DEF DecidesByPrefix

LEMMA MinOfTwo ==
  ASSUME NEW a \in Nat, NEW b \in Nat
  PROVE  Min({a, b}) = IF a <= b THEN a ELSE b
<1>1. (IF a <= b THEN a ELSE b) \in {a, b} /\ \A y \in {a, b} : (IF a <= b THEN a ELSE b) <= y
  OBVIOUS
<1>2. \A x \in {a, b} : (\A y \in {a, b} : x <= y) => x = IF a <= b THEN a ELSE b
  OBVIOUS
<1> QED
  BY <1>1, <1>2 DEF Min

LEMMA MinBounds ==
  ASSUME NEW a \in Nat, NEW b \in Nat
  PROVE  Min({a, b}) \in Nat /\ Min({a, b}) <= a /\ Min({a, b}) <= b
BY MinOfTwo

LEMMA ElementOf ==
  ASSUME NEW S, NEW s \in Seq(S), NEW i \in 1 .. Len(s)
  PROVE  s[i] \in S
OBVIOUS

(* at satisfies the recursive equation of CompareL1.                       *)
NearTie(file, g, policy, withLogits, k) ==
  LET gap == Gap(g.logits[k], g.tokens[k], file.tokens[k])
  IN withLogits /\ gap # NonFinite /\ gap <= policy.gap

WalksL1(at, file, g, policy, withLogits) ==
  LET n == Min({Len(file.tokens), Len(g.tokens)})
  IN  at = [k \in 1 .. (n + 1) |->
              IF k > n
              THEN IF Len(file.tokens) = Len(g.tokens)
                   THEN [passed |-> TRUE, divergence |-> 0]
                   ELSE [passed |-> FALSE, divergence |-> n + 1]
              ELSE IF file.tokens[k] = g.tokens[k] THEN at[k + 1]
              ELSE LET gap == Gap(g.logits[k], g.tokens[k], file.tokens[k])
                   IN [passed |-> withLogits /\ gap # NonFinite /\ gap <= policy.gap, divergence |-> k]]

LEMMA L1Exists ==
  ASSUME NEW file, NEW g, NEW policy, NEW withLogits \in BOOLEAN,
         Len(file.tokens) \in Nat, Len(g.tokens) \in Nat
  PROVE  \E at : WalksL1(at, file, g, policy, withLogits)
<1> DEFINE n == Min({Len(file.tokens), Len(g.tokens)})
           R == [passed : BOOLEAN, divergence : Nat]
           end == IF Len(file.tokens) = Len(g.tokens)
                  THEN [passed |-> TRUE, divergence |-> 0]
                  ELSE [passed |-> FALSE, divergence |-> n + 1]
           halt(k) == [passed |-> NearTie(file, g, policy, withLogits, k), divergence |-> k]
           step == [q \in (1 .. n) \X R |-> IF file.tokens[q[1]] = g.tokens[q[1]] THEN q[2] ELSE halt(q[1])]
<1>1. n \in Nat
  BY MinOfTwo
<1> HIDE DEF n
<1>2. end \in R /\ \A k \in 1 .. n : halt(k) \in R
  BY <1>1 DEF NearTie
<1> HIDE DEF end, halt
<1>3. step \in [(1 .. n) \X R -> R]
  BY <1>2
<1>4. \A k \in 1 .. n, r \in R :
        step[<<k, r>>] = IF file.tokens[k] = g.tokens[k] THEN r ELSE halt(k)
  OBVIOUS
<1> HIDE DEF step, R
<1>50. PICK f : Backward(f, n, R, end, step)
  BY <1>1, <1>2, <1>3, BackwardExists
<1>5. /\ f \in [1 .. (n + 1) -> R] /\ f[n + 1] = end
      /\ \A k \in 1 .. n : f[k] = step[<<k, f[k + 1]>>]
  BY <1>50 DEF Backward
<1>6. \A k \in 1 .. (n + 1) :
        f[k] = IF k > n THEN end ELSE IF file.tokens[k] = g.tokens[k] THEN f[k + 1] ELSE halt(k)
  <2> SUFFICES ASSUME NEW k \in 1 .. (n + 1)
               PROVE  f[k] = IF k > n THEN end
                             ELSE IF file.tokens[k] = g.tokens[k] THEN f[k + 1] ELSE halt(k)
    OBVIOUS
  <2>1. CASE k > n
    <3>1. k = n + 1
      BY <1>1, <2>1
    <3> QED
      BY <1>5, <2>1, <3>1
  <2>2. CASE ~(k > n)
    <3>1. k \in 1 .. n /\ k + 1 \in 1 .. (n + 1)
      BY <1>1, <2>2
    <3>2. f[k + 1] \in R
      BY <1>5, <3>1
    <3> QED
      BY <1>4, <1>5, <2>2, <3>1, <3>2
  <2> QED
    BY <2>1, <2>2
<1>7. f = [k \in 1 .. (n + 1) |->
             IF k > n THEN end ELSE IF file.tokens[k] = g.tokens[k] THEN f[k + 1] ELSE halt(k)]
  BY <1>5, <1>6
<1>8. WalksL1(f, file, g, policy, withLogits)
  BY <1>7, Zenon DEF WalksL1, n, end, halt, NearTie
<1> QED
  BY <1>8

(* The verdict of CompareL1, by the positions with a shared prefix.        *)
SamePlaces(file, g) ==
  {j \in 1 .. Min({Len(file.tokens), Len(g.tokens)}) : file.tokens[j] = g.tokens[j]}

L1Holds(file, g, policy, withLogits) ==
  LET n == Min({Len(file.tokens), Len(g.tokens)})
  IN  /\ \A j \in 1 .. n : (1 .. (j - 1)) \subseteq SamePlaces(file, g) =>
           j \in SamePlaces(file, g) \/ NearTie(file, g, policy, withLogits, j)
      /\ (1 .. n) \subseteq SamePlaces(file, g) => Len(file.tokens) = Len(g.tokens)

LEMMA L1Value ==
  ASSUME NEW file, NEW g, NEW policy, NEW withLogits \in BOOLEAN,
         Len(file.tokens) \in Nat, Len(g.tokens) \in Nat
  PROVE  CompareL1(file, g, policy, withLogits).passed = L1Holds(file, g, policy, withLogits)
<1> DEFINE n == Min({Len(file.tokens), Len(g.tokens)})
<1> DEFINE at == CHOOSE f : WalksL1(f, file, g, policy, withLogits)
           Same == {j \in 1 .. n : file.tokens[j] = g.tokens[j]}
           Stop == {j \in 1 .. n : NearTie(file, g, policy, withLogits, j)}
           P == {k \in 1 .. (n + 1) : at[k].passed = TRUE}
           R == [passed : BOOLEAN, divergence : Nat]
<1>1. n \in Nat
  BY MinOfTwo
<1>2. CompareL1(file, g, policy, withLogits) = at[1]
  BY Zenon DEF CompareL1, WalksL1
<1>3. WalksL1(at, file, g, policy, withLogits)
  BY L1Exists, Zenon
<1> HIDE DEF at
<1>4. at = [k \in 1 .. (n + 1) |->
             IF k > n
             THEN IF Len(file.tokens) = Len(g.tokens)
                  THEN [passed |-> TRUE, divergence |-> 0]
                  ELSE [passed |-> FALSE, divergence |-> n + 1]
             ELSE IF file.tokens[k] = g.tokens[k] THEN at[k + 1]
             ELSE [passed |-> NearTie(file, g, policy, withLogits, k), divergence |-> k]]
  BY <1>3, Zenon DEF WalksL1, NearTie
<1> HIDE DEF n
<1>5. at[n + 1] \in R /\ (n + 1 \in P <=> Len(file.tokens) = Len(g.tokens))
  <2>1. n + 1 \in 1 .. (n + 1) /\ n + 1 > n
    BY <1>1
  <2>2. at[n + 1] = IF Len(file.tokens) = Len(g.tokens)
                    THEN [passed |-> TRUE, divergence |-> 0]
                    ELSE [passed |-> FALSE, divergence |-> n + 1]
    BY <1>4, <2>1
  <2> QED
    BY <1>1, <2>1, <2>2
<1>6. \A k \in 1 .. n :
        at[k] = IF file.tokens[k] = g.tokens[k] THEN at[k + 1]
                ELSE [passed |-> NearTie(file, g, policy, withLogits, k), divergence |-> k]
  <2> SUFFICES ASSUME NEW k \in 1 .. n
               PROVE at[k] = IF file.tokens[k] = g.tokens[k] THEN at[k + 1]
                             ELSE [passed |-> NearTie(file, g, policy, withLogits, k), divergence |-> k]
    OBVIOUS
  <2>1. k \in 1 .. (n + 1) /\ ~(k > n)
    BY <1>1
  <2> QED
    BY <1>4, <2>1
<1>7. \A k \in 1 .. n :
        /\ file.tokens[k] # g.tokens[k] => at[k] \in R
        /\ file.tokens[k] # g.tokens[k] => (at[k].passed = TRUE <=> NearTie(file, g, policy, withLogits, k))
  <2> SUFFICES ASSUME NEW k \in 1 .. n, file.tokens[k] # g.tokens[k]
               PROVE  at[k] \in R /\ (at[k].passed = TRUE <=> NearTie(file, g, policy, withLogits, k))
    OBVIOUS
  <2> DEFINE b == NearTie(file, g, policy, withLogits, k)
  <2>1. at[k] = [passed |-> b, divergence |-> k]
    BY <1>6, Zenon
  <2>2. b \in BOOLEAN
    BY DEF NearTie
  <2>3. b = TRUE <=> NearTie(file, g, policy, withLogits, k)
    BY DEF NearTie
  <2> HIDE DEF b
  <2>4. at[k] \in R /\ at[k].passed = b
    BY <2>1, <2>2, <1>1
  <2> QED
    BY <2>3, <2>4
<1>8. \A k \in 1 .. (n + 1) : at[k] \in R
  <2>1. \A k \in 1 .. n : at[k + 1] \in R => at[k] \in R
    <3> SUFFICES ASSUME NEW k \in 1 .. n, at[k + 1] \in R PROVE at[k] \in R
      OBVIOUS
    <3> HIDE DEF R
    <3>1. CASE file.tokens[k] = g.tokens[k]
      BY <1>6, <3>1, Zenon
    <3> QED
      BY <1>7, <3>1
  <2> HIDE DEF R
  <2> QED
    BY <1>1, <1>5, <2>1, BackwardType
<1>9. \A k \in 1 .. n : k \in P <=> IF k \in Same THEN k + 1 \in P /\ k \in Same ELSE k \in Stop
  <2> SUFFICES ASSUME NEW k \in 1 .. n
               PROVE  k \in P <=> IF k \in Same THEN k + 1 \in P /\ k \in Same ELSE k \in Stop
    OBVIOUS
  <2>1. k \in 1 .. (n + 1) /\ k + 1 \in 1 .. (n + 1)
    BY <1>1
  <2>2. CASE file.tokens[k] = g.tokens[k]
    BY <1>6, <2>1, <2>2
  <2>3. CASE file.tokens[k] # g.tokens[k]
    <3>1. at[k].passed = TRUE <=> NearTie(file, g, policy, withLogits, k)
      BY <1>7, <2>3
    <3> QED
      BY <2>1, <2>3, <3>1
  <2> QED
    BY <2>2, <2>3
<1>10. 1 \in 1 .. (n + 1) /\ (1 \in P <=> at[1].passed = TRUE) /\ at[1].passed \in BOOLEAN
  <2>1. 1 \in 1 .. (n + 1)
    BY <1>1
  <2>2. at[1].passed \in BOOLEAN
    BY <1>8, <2>1
  <2> QED
    BY <2>1, <2>2
<1>11. \A j \in 1 .. n : j \in Stop <=> NearTie(file, g, policy, withLogits, j)
  OBVIOUS
<1> HIDE DEF P, Same, Stop
<1>12. 1 \in P <=>
         /\ \A j \in 1 .. n : (1 .. (j - 1)) \subseteq Same => IF j \in Same THEN j \in Same ELSE j \in Stop
         /\ (1 .. n) \subseteq Same => n + 1 \in P
  <2>1. WalksForward(n, Same, Same, Stop, P)
    BY <1>9, Zenon DEF WalksForward
  <2>2. DecidesByPrefix(n, Same, Same, Stop, P)
    BY <1>1, <2>1, PrefixWalk
  <2> QED
    BY <2>2 DEF DecidesByPrefix
<1>13. 1 \in P <=>
         /\ \A j \in 1 .. n : (1 .. (j - 1)) \subseteq Same => j \in Same \/ NearTie(file, g, policy, withLogits, j)
         /\ (1 .. n) \subseteq Same => Len(file.tokens) = Len(g.tokens)
  BY <1>5, <1>11, <1>12
<1>14. at[1].passed =
         (/\ \A j \in 1 .. n : (1 .. (j - 1)) \subseteq Same => j \in Same \/ NearTie(file, g, policy, withLogits, j)
          /\ (1 .. n) \subseteq Same => Len(file.tokens) = Len(g.tokens))
  BY <1>10, <1>13
<1>15. Same = SamePlaces(file, g)
  BY DEF Same, SamePlaces, n
<1> QED
  BY <1>2, <1>14, <1>15, Zenon DEF L1Holds, n

(* The logits of a position that are too far apart; at satisfies the       *)
(* recursive equation of CompareL2.                                        *)
Over(file, g, policy, k) ==
  Cardinality({v \in 1 .. Vocab : Exceeds(g.logits[k][v], file.logits[k][v], policy)})

WalksL2(at, file, g, policy) ==
  LET n == Min({Len(file.tokens), Len(g.tokens)})
      over(k) == Cardinality({v \in 1 .. Vocab : Exceeds(g.logits[k][v], file.logits[k][v], policy)})
  IN  at = [k \in 1 .. (n + 1) |->
              IF k > n THEN [exceeding |-> 0, steps |-> n]
              ELSE IF file.tokens[k] # g.tokens[k] THEN [exceeding |-> over(k), steps |-> k]
              ELSE [at[k + 1] EXCEPT !.exceeding = @ + over(k)]]

LEMMA OverCounts ==
  ASSUME NEW file, NEW g, NEW policy, NEW k
  PROVE  /\ Over(file, g, policy, k) \in Nat
         /\ Over(file, g, policy, k) = 0
              <=> \A v \in 1 .. Vocab : ~Exceeds(g.logits[k][v], file.logits[k][v], policy)
<1> DEFINE far == {v \in 1 .. Vocab : Exceeds(g.logits[k][v], file.logits[k][v], policy)}
<1>1. far \in SUBSET (1 .. Vocab)
  OBVIOUS
<1>2. far = {} <=> \A v \in 1 .. Vocab : ~Exceeds(g.logits[k][v], file.logits[k][v], policy)
  BY Zenon
<1>3. Over(file, g, policy, k) = Cardinality(far)
  BY Zenon DEF Over
<1>4. IsFiniteSet(1 .. Vocab)
  BY GateShape, PlacesFinite
<1> HIDE DEF far
<1>5. IsFiniteSet(far)
  BY <1>1, <1>4, FS_Subset
<1> QED
  BY <1>2, <1>3, <1>5, FS_CardinalityType, FS_EmptySet

LEMMA L2Exists ==
  ASSUME NEW file, NEW g, NEW policy, Len(file.tokens) \in Nat, Len(g.tokens) \in Nat
  PROVE  \E at : WalksL2(at, file, g, policy)
<1> DEFINE n == Min({Len(file.tokens), Len(g.tokens)})
           R == [exceeding : Nat, steps : Nat]
           over(k) == Over(file, g, policy, k)
           end == [exceeding |-> 0, steps |-> n]
           more(k, r) == [r EXCEPT !.exceeding = @ + over(k)]
           halt(k) == [exceeding |-> over(k), steps |-> k]
           step == [q \in (1 .. n) \X R |-> IF file.tokens[q[1]] # g.tokens[q[1]] THEN halt(q[1]) ELSE more(q[1], q[2])]
<1>1. n \in Nat
  BY MinOfTwo
<1>2. \A k : over(k) \in Nat
  BY OverCounts
<1> HIDE DEF n
<1>3. end \in R /\ \A k \in 1 .. n : halt(k) \in R /\ \A r \in R : more(k, r) \in R
  <2> HIDE DEF over
  <2> QED
    BY <1>1, <1>2
<1> HIDE DEF end, halt, more, R
<1>4. step \in [(1 .. n) \X R -> R]
  BY <1>3
<1>5. \A k \in 1 .. n, r \in R :
        step[<<k, r>>] = IF file.tokens[k] # g.tokens[k] THEN halt(k) ELSE more(k, r)
  OBVIOUS
<1> HIDE DEF step
<1>6. PICK f : Backward(f, n, R, end, step)
  BY <1>1, <1>3, <1>4, BackwardExists
<1>7. /\ f \in [1 .. (n + 1) -> R] /\ f[n + 1] = end
      /\ \A k \in 1 .. n : f[k] = step[<<k, f[k + 1]>>]
  BY <1>6 DEF Backward
<1>8. \A k \in 1 .. (n + 1) :
        f[k] = IF k > n THEN end ELSE IF file.tokens[k] # g.tokens[k] THEN halt(k) ELSE more(k, f[k + 1])
  <2> SUFFICES ASSUME NEW k \in 1 .. (n + 1)
               PROVE  f[k] = IF k > n THEN end
                             ELSE IF file.tokens[k] # g.tokens[k] THEN halt(k) ELSE more(k, f[k + 1])
    OBVIOUS
  <2>1. CASE k > n
    <3>1. k = n + 1
      BY <1>1, <2>1
    <3> QED
      BY <1>7, <2>1, <3>1
  <2>2. CASE ~(k > n)
    <3>1. k \in 1 .. n /\ k + 1 \in 1 .. (n + 1)
      BY <1>1, <2>2
    <3>2. f[k + 1] \in R
      BY <1>7, <3>1
    <3> QED
      BY <1>5, <1>7, <2>2, <3>1, <3>2
  <2> QED
    BY <2>1, <2>2
<1>9. f = [k \in 1 .. (n + 1) |->
             IF k > n THEN end ELSE IF file.tokens[k] # g.tokens[k] THEN halt(k) ELSE more(k, f[k + 1])]
  BY <1>7, <1>8
<1>10. WalksL2(f, file, g, policy)
  BY <1>9, Zenon DEF WalksL2, n, end, halt, more, over, Over
<1> QED
  BY <1>10

(* The verdict of CompareL2: no logit of a position with a shared prefix   *)
(* is too far from the reference.                                          *)
L2Holds(file, g, policy) ==
  \A j \in 1 .. Min({Len(file.tokens), Len(g.tokens)}) : (1 .. (j - 1)) \subseteq SamePlaces(file, g) =>
    \A v \in 1 .. Vocab : ~Exceeds(g.logits[j][v], file.logits[j][v], policy)

LEMMA L2Value ==
  ASSUME NEW file, NEW g, NEW policy, Len(file.tokens) \in Nat, Len(g.tokens) \in Nat
  PROVE  CompareL2(file, g, policy).exceeding = 0 <=> L2Holds(file, g, policy)
<1> DEFINE n == Min({Len(file.tokens), Len(g.tokens)})
<1> DEFINE at == CHOOSE f : WalksL2(f, file, g, policy)
           Same == {j \in 1 .. n : file.tokens[j] = g.tokens[j]}
           over(k) == Over(file, g, policy, k)
           Keep == {j \in 1 .. n : over(j) = 0}
           P == {k \in 1 .. (n + 1) : at[k].exceeding = 0}
           R == [exceeding : Nat, steps : Nat]
<1>1. n \in Nat
  BY MinOfTwo
<1>2. CompareL2(file, g, policy) = at[1]
  BY Zenon DEF CompareL2, WalksL2
<1>3. WalksL2(at, file, g, policy)
  BY L2Exists, Zenon
<1>4. \A k : over(k) \in Nat
  BY OverCounts
<1> HIDE DEF at
<1>5. at = [k \in 1 .. (n + 1) |->
             IF k > n THEN [exceeding |-> 0, steps |-> n]
             ELSE IF file.tokens[k] # g.tokens[k] THEN [exceeding |-> over(k), steps |-> k]
             ELSE [at[k + 1] EXCEPT !.exceeding = @ + over(k)]]
  BY <1>3, Zenon DEF WalksL2, Over
<1> HIDE DEF over, n
<1>6. at[n + 1] \in R /\ n + 1 \in P
  <2>1. n + 1 \in 1 .. (n + 1) /\ n + 1 > n
    BY <1>1
  <2>2. at[n + 1] = [exceeding |-> 0, steps |-> n]
    BY <1>5, <2>1
  <2> QED
    BY <1>1, <2>1, <2>2
<1>7. \A k \in 1 .. n :
        at[k] = IF file.tokens[k] # g.tokens[k] THEN [exceeding |-> over(k), steps |-> k]
                ELSE [at[k + 1] EXCEPT !.exceeding = @ + over(k)]
  <2> SUFFICES ASSUME NEW k \in 1 .. n
               PROVE at[k] = IF file.tokens[k] # g.tokens[k] THEN [exceeding |-> over(k), steps |-> k]
                             ELSE [at[k + 1] EXCEPT !.exceeding = @ + over(k)]
    OBVIOUS
  <2>1. k \in 1 .. (n + 1) /\ ~(k > n)
    BY <1>1
  <2> QED
    BY <1>5, <2>1
<1>8. \A k \in 1 .. (n + 1) : at[k] \in R
  <2>1. \A k \in 1 .. n : at[k + 1] \in R => at[k] \in R
    <3> SUFFICES ASSUME NEW k \in 1 .. n, at[k + 1] \in R PROVE at[k] \in R
      OBVIOUS
    <3>0. over(k) \in Nat /\ k \in Nat
      BY <1>1, <1>4
    <3>1. CASE file.tokens[k] # g.tokens[k]
      <4>1. at[k] = [exceeding |-> over(k), steps |-> k]
        BY <1>7, <3>1, Zenon
      <4> QED
        BY <3>0, <4>1
    <3>2. CASE file.tokens[k] = g.tokens[k]
      <4>1. at[k] = [at[k + 1] EXCEPT !.exceeding = @ + over(k)]
        BY <1>7, <3>2, Zenon
      <4> QED
        BY <3>0, <4>1
    <3> QED
      BY <3>1, <3>2
  <2> HIDE DEF R
  <2> QED
    BY <1>1, <1>6, <2>1, BackwardType
<1>9. \A k \in 1 .. n : k \in P <=> IF k \in Same THEN k + 1 \in P /\ k \in Keep ELSE k \in Keep
  <2> SUFFICES ASSUME NEW k \in 1 .. n
               PROVE  k \in P <=> IF k \in Same THEN k + 1 \in P /\ k \in Keep ELSE k \in Keep
    OBVIOUS
  <2>1. k \in 1 .. (n + 1) /\ k + 1 \in 1 .. (n + 1)
    BY <1>1
  <2>2. at[k] \in R /\ at[k + 1] \in R /\ over(k) \in Nat
    BY <1>4, <1>8, <2>1
  <2>3. CASE file.tokens[k] = g.tokens[k]
    <3>0. at[k] = [at[k + 1] EXCEPT !.exceeding = @ + over(k)]
      BY <1>7, <2>3, Zenon
    <3>1. at[k].exceeding = at[k + 1].exceeding + over(k)
      BY <2>2, <3>0
    <3>2. at[k + 1].exceeding \in Nat
      BY <2>2
    <3>3. at[k].exceeding = 0 <=> at[k + 1].exceeding = 0 /\ over(k) = 0
      <4>1. \A a, b \in Nat : a + b = 0 <=> a = 0 /\ b = 0
        OBVIOUS
      <4>2. at[k + 1].exceeding + over(k) = 0 <=> at[k + 1].exceeding = 0 /\ over(k) = 0
        BY <2>2, <3>2, <4>1, Zenon
      <4> QED
        BY <3>1, <4>2, Zenon
    <3> QED
      BY <2>1, <2>3, <3>3
  <2>4. CASE file.tokens[k] # g.tokens[k]
    <3>1. at[k].exceeding = over(k)
      <4>1. at[k] = [exceeding |-> over(k), steps |-> k]
        BY <1>7, <2>4, Zenon
      <4> QED
        BY <4>1
    <3> QED
      BY <2>1, <2>4, <3>1
  <2> QED
    BY <2>3, <2>4
<1>10. 1 \in P <=> at[1].exceeding = 0
  BY <1>1
<1>11. \A j \in 1 .. n :
         j \in Keep <=> \A v \in 1 .. Vocab : ~Exceeds(g.logits[j][v], file.logits[j][v], policy)
  BY OverCounts DEF over
<1> HIDE DEF P, Same, Keep
<1>12. 1 \in P <=>
         /\ \A j \in 1 .. n : (1 .. (j - 1)) \subseteq Same => IF j \in Same THEN j \in Keep ELSE j \in Keep
         /\ (1 .. n) \subseteq Same => n + 1 \in P
  <2>1. WalksForward(n, Same, Keep, Keep, P)
    BY <1>9, Zenon DEF WalksForward
  <2>2. DecidesByPrefix(n, Same, Keep, Keep, P)
    BY <1>1, <2>1, PrefixWalk
  <2> QED
    BY <2>2 DEF DecidesByPrefix
<1>13. 1 \in P <=> \A j \in 1 .. n : (1 .. (j - 1)) \subseteq Same => j \in Keep
  BY <1>6, <1>12
<1>14. at[1].exceeding = 0 <=>
         \A j \in 1 .. n : (1 .. (j - 1)) \subseteq Same =>
           \A v \in 1 .. Vocab : ~Exceeds(g.logits[j][v], file.logits[j][v], policy)
  BY <1>10, <1>11, <1>13, Zenon
<1>15. Same = SamePlaces(file, g)
  BY DEF Same, SamePlaces, n
<1> QED
  BY <1>2, <1>14, <1>15, Zenon DEF L2Holds, n
-----------------------------------------------------------------------------
(* The steps of a comparison.                                              *)

LEMMA CaseTypes ==
  ASSUME Given, Compared, cases # <<>>
  PROVE  /\ CurrentFile \in FileOf(Head(cases)) /\ CurrentFile \in dir.files
         /\ CurrentFile.tokens \in Seq(Nat) /\ CurrentFile.logits \in LogitRows
         /\ FixtureLoads(CurrentFile, Head(cases))
<1>1. Head(cases) \in ReadyCases
  BY HeadCase
<1>2. FileOf(Head(cases)) # {} /\ ~Broken(Head(cases))
  BY <1>1 DEF ReadyCases
<1>3. CurrentFile \in FileOf(Head(cases))
  BY <1>2 DEF CurrentFile
<1>4. CurrentFile \in dir.files
  BY <1>3 DEF FileOf
<1>5. FixtureLoads(CurrentFile, Head(cases))
  BY <1>2, <1>3 DEF Broken
<1> QED
  BY <1>3, <1>4, <1>5, InputsListed

LEMMA CandidateTypes ==
  \A g \in Candidates : g.tokens \in Seq(0 .. (Vocab - 1)) /\ g.logits \in LogitRows
BY InputTypes, Zenon

LEMMA VerdictTyped ==
  ASSUME NEW file, NEW meta, NEW g, Len(file.tokens) \in Nat, Len(g.tokens) \in Nat
  PROVE  Verdict(file, meta, g) \in [l1 : BOOLEAN, l2 : BOOLEAN]
<1>1. \A withLogits \in BOOLEAN : CompareL1(file, g, manifest.policy, withLogits).passed \in BOOLEAN
  <2> SUFFICES ASSUME NEW withLogits \in BOOLEAN
               PROVE  CompareL1(file, g, manifest.policy, withLogits).passed \in BOOLEAN
    OBVIOUS
  <2>1. CompareL1(file, g, manifest.policy, withLogits).passed = L1Holds(file, g, manifest.policy, withLogits)
    BY L1Value
  <2> QED
    BY <2>1 DEF L1Holds
<1> DEFINE a == CompareL1(file, g, manifest.policy, TRUE).passed
           b == CompareL1(file, g, manifest.policy, FALSE).passed
           c == CompareL2(file, g, manifest.policy).exceeding
<1>2. a \in BOOLEAN /\ b \in BOOLEAN
  BY <1>1
<1>3. Verdict(file, meta, g) = IF meta.category = "canonical" THEN [l1 |-> a, l2 |-> c = 0] ELSE [l1 |-> b, l2 |-> TRUE]
  BY DEF Verdict
<1> HIDE DEF a, b, c
<1> QED
  BY <1>2, <1>3

LEMMA SameCase ==
  ASSUME UNCHANGED <<corpus, manifest, dir, opts, prompts>>, cases' = cases
  PROVE  /\ CurrentFile' = CurrentFile
         /\ \A f, m, g : Verdict(f, m, g)' = Verdict(f, m, g)
         /\ LayersEnabled(ExpectationOf(Head(cases)).required)'
              = LayersEnabled(ExpectationOf(Head(cases)).required)
<1>1. manifest' = manifest /\ dir' = dir /\ opts' = opts
  OBVIOUS
<1>2. FileOf(Head(cases))' = FileOf(Head(cases))
  BY <1>1 DEF FileOf
<1>3. CurrentFile' = CurrentFile
  BY <1>2, Zenon DEF CurrentFile
<1>4. \A f, m, g : Verdict(f, m, g)' = Verdict(f, m, g)
  BY <1>1, Zenon DEF Verdict
<1>5. ExpectationOf(Head(cases))' = ExpectationOf(Head(cases))
  BY <1>1 DEF ExpectationOf
<1>6. LayersEnabled(ExpectationOf(Head(cases)).required)'
        = LayersEnabled(ExpectationOf(Head(cases)).required)
  BY <1>1, <1>5 DEF LayersEnabled
<1> QED
  BY <1>3, <1>4, <1>6

LEMMA SameCompared ==
  ASSUME UNCHANGED <<corpus, manifest, dir, opts, prompts>>, UNCHANGED <<tracker, cases, results, failures>>, Compared
  PROVE  Compared'
<1>1. Loaded' /\ ReferenceCases' = ReferenceCases /\ ExpectedIds' = ExpectedIds
  BY SameInputs DEF Compared
<1>2. TrackerGrown'
  <2>1. Grown(tracker')
    BY DEF Compared, TrackerGrown
  <2> QED
    BY <2>1, GrownKept
<1>3. ResultCases' = ResultCases /\ MessagesNoted'
  BY <1>1 DEF ResultCases, MessagesNoted, Compared
<1>4. Progress'
  <2>1. manifest' = manifest /\ cases' = cases /\ results' = results /\ tracker' = tracker
    OBVIOUS
  <2>2. Progress
    BY DEF Compared
  <2> QED
    BY <1>1, <1>3, <2>1, <2>2 DEF Progress
<1>5. ComparedReady'
  BY SameInputs DEF ComparedReady, Compared
<1> QED
  BY <1>1, <1>2, <1>3, <1>4, <1>5 DEF Compared

LEMMA CompareStep ==
  ASSUME GateInv, CompareCase
  PROVE  GateInv'
<1>1. /\ pc = "compare" /\ cases # <<>> /\ Given /\ Compared /\ exit = "none"
      /\ LayersEnabled(ExpectationOf(Head(cases)).required)
  BY DEF GateInv, CompareCase
<1>2. UNCHANGED <<corpus, manifest, dir, opts, prompts>> /\ UNCHANGED <<tracker, cases, results, failures>>
      /\ pc' = "compare" /\ exit' = "none"
  BY <1>1 DEF CompareCase
<1>3. Given' /\ Compared'
  BY <1>1, <1>2, SameInputs, SameCompared
<1>4. CurrentCase'
  <2>1. PICK g \in Candidates :
          /\ GeometryOK(g)
          /\ Head(cases).category = "canonical" => Len(g.tokens) = Len(g.logits)
          /\ last' = [case |-> <<CurrentFile, Head(cases)>>, candidate |-> <<g>>,
                      verdict |-> <<Verdict(CurrentFile, Head(cases), g)>>]
    BY DEF CompareCase, CurrentFile
  <2>2. /\ CurrentFile' = CurrentFile /\ cases' = cases
        /\ \A f, m, h : Verdict(f, m, h)' = Verdict(f, m, h)
        /\ LayersEnabled(ExpectationOf(Head(cases)).required)'
    BY <1>1, <1>2, SameCase
  <2> QED
    BY <1>1, <2>1, <2>2 DEF CurrentCase
<1> QED
  BY <1>2, <1>3, <1>4 DEF GateInv

LEMMA RecordStep ==
  ASSUME GateInv, RecordCase
  PROVE  GateInv'
<1> DEFINE id == FixtureId(Head(cases))
           one == Record(tracker, "compared", {id})
<1>1. pc = "compare" /\ Given /\ Compared /\ exit = "none" /\ CurrentCase
  BY DEF GateInv, RecordCase
<1>2. UNCHANGED <<corpus, manifest, dir, opts, prompts>> /\ pc' = "compare" /\ exit' = "none"
      /\ failures' = failures /\ cases' = Tail(cases) /\ last' = NoComparison
  BY <1>1 DEF RecordCase
<1>3. Given' /\ Loaded'
  BY <1>1, <1>2, SameInputs DEF Compared
<1>4. PICK v \in [l1 : BOOLEAN, l2 : BOOLEAN] : last.verdict[1] = v
  <2>1. PICK g \in Candidates : last.verdict = <<Verdict(CurrentFile, Head(cases), g)>>
    BY <1>1 DEF CurrentCase
  <2>2. CurrentFile.tokens \in Seq(Nat) /\ g.tokens \in Seq(0 .. (Vocab - 1))
    BY <1>1, CaseTypes, CandidateTypes DEF CurrentCase
  <2>3. Len(CurrentFile.tokens) \in Nat /\ Len(g.tokens) \in Nat
    BY <2>2
  <2>4. Verdict(CurrentFile, Head(cases), g) \in [l1 : BOOLEAN, l2 : BOOLEAN]
    BY <2>3, VerdictTyped
  <2> QED
    BY <2>1, <2>4
<1>5. id \in ExpectedIds /\ cases # <<>> /\ id \in ReadyIds
  BY <1>1, HeadCase DEF CurrentCase, ReadyIds
<1>6. /\ tracker' = IF v.l1 /\ v.l2 THEN one ELSE Record(one, "failed", {id})
      /\ results' = Append(results, v)
  BY <1>4 DEF RecordCase
<1> HIDE DEF id
<1>7. Grown(one) /\ one.compared = tracker.compared \cup {id} /\ one.skipped = tracker.skipped
      /\ one.failed = tracker.failed
  <2>1. Grown(tracker) /\ "compared" \in {"compared", "skipped", "failed"}
    BY <1>1 DEF Compared, TrackerGrown
  <2>2. /\ Grown(one) /\ one["compared"] = tracker["compared"] \cup {id}
        /\ \A s \in Stages \ {"compared"} : one[s] = tracker[s]
    BY <1>5, <2>1, GrowsOn
  <2> QED
    BY <2>2 DEF Stages
<1> HIDE DEF one
<1>8. /\ Grown(tracker') /\ tracker'.compared = tracker.compared \cup {id} /\ tracker'.skipped = tracker.skipped
      /\ tracker.failed \subseteq tracker'.failed
  <2>1. CASE v.l1 /\ v.l2
    BY <1>6, <1>7, <2>1
  <2>2. CASE ~(v.l1 /\ v.l2)
    <3>1. "failed" \in {"compared", "skipped", "failed"} /\ tracker' = Record(one, "failed", {id})
      BY <1>6, <2>2
    <3>2. /\ Grown(tracker') /\ tracker'["failed"] = one["failed"] \cup {id}
          /\ \A s \in Stages \ {"failed"} : tracker'[s] = one[s]
      BY <1>5, <1>7, <3>1, GrowsOn
    <3> QED
      BY <1>7, <3>2 DEF Stages
  <2> QED
    BY <2>1, <2>2
<1>9. TrackerGrown'
  BY <1>2, <1>8, GrownKept
<1>10. MessagesNoted'
  <2>1. ExpectedIds' = ExpectedIds /\ tracker'.generated = tracker.generated
    BY <1>1, <1>2, <1>8, SameInputs DEF Grown, Compared, TrackerGrown
  <2> QED
    BY <1>1, <1>2, <1>8, <2>1 DEF MessagesNoted, Compared
<1>11. Progress'
  <2>1. results \in Seq([l1 : BOOLEAN, l2 : BOOLEAN])
    BY <1>1 DEF Compared, Progress
  <2>2. results' \in Seq([l1 : BOOLEAN, l2 : BOOLEAN]) /\ Len(results') = Len(results) + 1
    BY <1>6, <2>1
  <2>3. ResultCases \subseteq ResultCases' /\ id \in ResultCases'
    BY <1>8 DEF ResultCases
  <2>4. tracker'.skipped = {} /\ tracker'.failed = {} => tracker.skipped = {} /\ tracker.failed = {}
    BY <1>8
  <2> QED
    BY <1>1, <1>2, <1>5, <2>2, <2>3, <2>4, NextCase DEF id
<1>12. ComparedReady'
  BY <1>1, <1>2, <1>5, <1>8, SameInputs DEF ComparedReady, Compared
<1> QED
  BY <1>2, <1>3, <1>9, <1>10, <1>11, <1>12 DEF GateInv, Compared

LEMMA ReportStep ==
  ASSUME GateInv, Report
  PROVE  GateInv'
<1>1. pc = "compare" /\ cases = <<>> /\ Given /\ Compared
  BY DEF GateInv, Report
<1>2. UNCHANGED <<corpus, manifest, dir, opts, prompts>> /\ UNCHANGED <<tracker, cases, results, failures>>
      /\ last' = last /\ pc' = "done"
      /\ exit' = IF ReferencePassed /\ ReleasePassed(tracker) THEN "pass" ELSE "fail"
  BY DEF Report
<1>3. Given' /\ Compared'
  BY <1>1, <1>2, SameInputs, SameCompared
<1>4. last' = NoComparison
  BY <1>1, <1>2 DEF GateInv, CurrentCase
<1>5. exit' = "pass" => ReferencePassed' /\ ReleasePassed(tracker')
  <2>1. ReferencePassed' = ReferencePassed
    BY <1>2 DEF ReferencePassed
  <2> QED
    BY <1>2, <2>1
<1>6. exit' \in {"pass", "fail"} /\ cases' = <<>>
  BY <1>1, <1>2
<1> QED
  BY <1>2, <1>3, <1>4, <1>5, <1>6 DEF GateInv

LEMMA GateStutters ==
  ASSUME GateInv, UNCHANGED gateVars
  PROVE  GateInv'
<1>1. UNCHANGED <<corpus, manifest, dir, opts, prompts>> /\ UNCHANGED <<tracker, cases, results, failures>>
      /\ last' = last /\ pc' = pc /\ exit' = exit
  BY DEF gateVars
<1>2. Given' = Given /\ Loaded' = Loaded
  BY <1>1, SameInputs
<1>3. Compared => Compared'
  BY <1>1, SameCompared
<1>4. CurrentCase => CurrentCase'
  <2>1. /\ CurrentFile' = CurrentFile /\ cases' = cases
        /\ \A f, m, h : Verdict(f, m, h)' = Verdict(f, m, h)
        /\ LayersEnabled(ExpectationOf(Head(cases)).required)' = LayersEnabled(ExpectationOf(Head(cases)).required)
    BY <1>1, SameCase
  <2> QED
    BY <1>1, <2>1 DEF CurrentCase
<1>5. ReferencePassed' = ReferencePassed /\ ReleasePassed(tracker)' = ReleasePassed(tracker)
  BY <1>1 DEF ReferencePassed, ReleasePassed
<1> QED
  BY <1>1, <1>2, <1>3, <1>4, <1>5 DEF GateInv

LEMMA GateStep == GateInv /\ [GateNext]_gateVars => GateInv'
<1> SUFFICES ASSUME GateInv, [GateNext]_gateVars PROVE GateInv'
  OBVIOUS
<1>1. CASE Load         BY <1>1, LoadStep
<1>2. CASE Preflight    BY <1>2, PreflightStep
<1>3. CASE SkipCase     BY <1>3, SkipStep
<1>4. CASE CompareCase  BY <1>4, CompareStep
<1>5. CASE RecordCase   BY <1>5, RecordStep
<1>6. CASE CaseFails    BY <1>6, FailsStep
<1>7. CASE Report       BY <1>7, ReportStep
<1>8. CASE UNCHANGED gateVars  BY <1>8, GateStutters
<1> QED
  BY <1>1, <1>2, <1>3, <1>4, <1>5, <1>6, <1>7, <1>8 DEF GateNext

(* The gate keeps its books: the cases compared so far, the tracker and    *)
(* the list of messages belong together in every state.                    *)
THEOREM GateInvariant == GateSpec => []GateInv
<1>1. GateInit => GateInv
  BY InitGate
<1>2. GateInv /\ [GateNext]_gateVars => GateInv'
  BY GateStep
<1> QED
  BY <1>1, <1>2, PTL DEF GateSpec
-----------------------------------------------------------------------------
(* The verdict of a comparison.                                            *)

(* With finite logits below NonFinite, the gap of a near tie and the       *)
(* tolerance of a logit measure the same.                                  *)
LEMMA GapMeasures ==
  ASSUME NEW row \in Seq(0 .. NonFinite), NEW a \in Nat, NEW b \in Nat,
         a + 1 \in 1 .. Len(row), b + 1 \in 1 .. Len(row), NEW tol \in Nat
  PROVE  Gap(row, a, b) # NonFinite /\ Gap(row, a, b) <= tol
           <=> ~Exceeds(row[a + 1], row[b + 1], [atol |-> tol])
<1> DEFINE x == row[a + 1]
           y == row[b + 1]
<1>1. x \in 0 .. NonFinite /\ y \in 0 .. NonFinite /\ NonFinite \in Nat
  <2>1. x \in 0 .. NonFinite
    BY ElementOf
  <2>2. y \in 0 .. NonFinite
    BY ElementOf
  <2> QED
    BY <2>1, <2>2, GateShape
<1>2. Gap(row, a, b) = IF NonFinite \in {x, y} THEN NonFinite ELSE IF x >= y THEN x - y ELSE y - x
  BY DEF Gap
<1>3. Exceeds(x, y, [atol |-> tol]) <=> x = NonFinite \/ y = NonFinite \/ (IF x >= y THEN x - y ELSE y - x) > tol
  BY DEF Exceeds
<1> HIDE DEF x, y
<1>4. Gap(row, a, b) # NonFinite /\ Gap(row, a, b) <= tol <=> ~Exceeds(x, y, [atol |-> tol])
  BY <1>1, <1>2, <1>3
<1> QED
  BY <1>4 DEF x, y

LEMMA NearTieMeans ==
  ASSUME NEW file, NEW meta, NEW g, FixtureLoads(file, meta), file.tokens \in Seq(Nat),
         g.tokens \in Seq(0 .. (Vocab - 1)), g.logits \in LogitRows, GeometryOK(g),
         Len(g.tokens) = Len(g.logits), NEW policy, policy.gap \in Nat,
         NEW k \in 1 .. Min({Len(file.tokens), Len(g.tokens)})
  PROVE  NearTie(file, g, policy, TRUE, k)
           <=> ~Exceeds(g.logits[k][g.tokens[k] + 1], g.logits[k][file.tokens[k] + 1], [atol |-> policy.gap])
<1>1. k \in 1 .. Len(file.tokens) /\ k \in 1 .. Len(g.tokens)
  <2> DEFINE lf == Len(file.tokens)
             lg == Len(g.tokens)
             n == Min({lf, lg})
  <2>1. lf \in Nat /\ lg \in Nat
    OBVIOUS
  <2>2. k \in 1 .. n
    OBVIOUS
  <2> HIDE DEF lf, lg
  <2>3. n \in Nat /\ n <= lf /\ n <= lg
    BY <2>1, MinBounds
  <2> HIDE DEF n
  <2>4. k \in 1 .. lf /\ k \in 1 .. lg
    BY <2>1, <2>2, <2>3
  <2> QED
    BY <2>4 DEF lf, lg
<1>2. g.tokens[k] \in 0 .. (Vocab - 1) /\ file.tokens[k] \in Nat /\ file.tokens[k] < Vocab /\ Vocab \in Nat \ {0}
  <2>1. g.tokens[k] \in 0 .. (Vocab - 1)
    BY <1>1, ElementOf
  <2>2. file.tokens[k] \in Nat
    BY <1>1, ElementOf
  <2>3. file.tokens[k] < Vocab
    <3>1. \A j \in DOMAIN file.tokens : file.tokens[j] < Vocab
      BY Zenon DEF FixtureLoads
    <3>2. k \in DOMAIN file.tokens
      BY <1>1
    <3> QED
      BY <3>1, <3>2
  <2> QED
    BY <2>1, <2>2, <2>3, GateShape
<1>3. g.logits[k] \in Seq(0 .. NonFinite) /\ Len(g.logits[k]) = Vocab
  <2>1. g.logits \in Seq(Seq(0 .. NonFinite)) /\ k \in 1 .. Len(g.logits)
    BY <1>1 DEF LogitRows
  <2>2. g.logits[k] \in Seq(0 .. NonFinite)
    BY <2>1, ElementOf
  <2>3. k \in DOMAIN g.logits
    BY <2>1
  <2> QED
    BY <2>2, <2>3 DEF GeometryOK
<1> DEFINE row == g.logits[k]
           a == g.tokens[k]
           b == file.tokens[k]
<1>4. NearTie(file, g, policy, TRUE, k) <=> Gap(row, a, b) # NonFinite /\ Gap(row, a, b) <= policy.gap
  BY DEF NearTie
<1> HIDE DEF row, a, b
<1>5. row \in Seq(0 .. NonFinite) /\ a \in Nat /\ b \in Nat /\ a + 1 \in 1 .. Len(row) /\ b + 1 \in 1 .. Len(row)
  <2>1. row \in Seq(0 .. NonFinite) /\ Len(row) = Vocab
    BY <1>3 DEF row
  <2>2. a \in 0 .. (Vocab - 1) /\ b \in Nat /\ b < Vocab /\ Vocab \in Nat
    BY <1>2 DEF a, b
  <2> QED
    BY <2>1, <2>2
<1>6. Gap(row, a, b) # NonFinite /\ Gap(row, a, b) <= policy.gap
        <=> ~Exceeds(row[a + 1], row[b + 1], [atol |-> policy.gap])
  BY <1>5, GapMeasures
<1> QED
  BY <1>4, <1>6 DEF row, a, b

LEMMA VerdictMeaning == GateInv => VerdictIsSamePrefix
<1>0. CASE last = NoComparison
  BY <1>0, Zenon DEF VerdictIsSamePrefix
<1> SUFFICES ASSUME GateInv, last # NoComparison PROVE VerdictIsSamePrefix
  BY <1>0, Zenon
<1>1. Given /\ Compared /\ CurrentCase /\ cases # <<>>
  BY DEF GateInv, CurrentCase
<1>2. PICK g \in Candidates :
        /\ GeometryOK(g)
        /\ Head(cases).category = "canonical" => Len(g.tokens) = Len(g.logits)
        /\ last = [case |-> <<CurrentFile, Head(cases)>>, candidate |-> <<g>>,
                   verdict |-> <<Verdict(CurrentFile, Head(cases), g)>>]
  BY <1>1 DEF CurrentCase
<1> DEFINE file == CurrentFile
           meta == Head(cases)
           n == Min({Len(file.tokens), Len(g.tokens)})
           both == 1 .. n
           shared == {k \in both : SharedPrefix(file, g, k)}
           near(k) == /\ meta.category = "canonical"
                      /\ ~Exceeds(g.logits[k][g.tokens[k] + 1], g.logits[k][file.tokens[k] + 1],
                                  [atol |-> manifest.policy.gap])
           l1 == /\ \A k \in shared : g.tokens[k] = file.tokens[k] \/ near(k)
                 /\ (\A k \in both : g.tokens[k] = file.tokens[k]) => Len(g.tokens) = Len(file.tokens)
           l2 == meta.category = "canonical" =>
                     \A k \in shared, v \in 1 .. Vocab :
                         ~Exceeds(g.logits[k][v], file.logits[k][v], manifest.policy)
           canonical == meta.category = "canonical"
           policy == manifest.policy
<1>3. /\ file.tokens \in Seq(Nat) /\ file.logits \in LogitRows /\ FixtureLoads(file, meta)
      /\ g.tokens \in Seq(0 .. (Vocab - 1)) /\ g.logits \in LogitRows
      /\ policy.gap \in Nat
  BY <1>1, CaseTypes, CandidateTypes, InputsListed
<1>4. last.verdict[1] = Verdict(file, meta, g) /\ last.case[1] = file /\ last.case[2] = meta /\ last.candidate[1] = g
  BY <1>2
<1>5. Len(file.tokens) \in Nat /\ Len(g.tokens) \in Nat /\ n \in Nat /\ n <= Len(file.tokens) /\ n <= Len(g.tokens)
  <2>1. Len(file.tokens) \in Nat /\ Len(g.tokens) \in Nat
    BY <1>3
  <2> DEFINE lf == Len(file.tokens)
             lg == Len(g.tokens)
  <2>2. lf \in Nat /\ lg \in Nat
    BY <2>1
  <2> HIDE DEF lf, lg
  <2>3. Min({lf, lg}) \in Nat /\ Min({lf, lg}) <= lf /\ Min({lf, lg}) <= lg
    BY <2>2, MinBounds
  <2> QED
    BY <2>2, <2>3 DEF lf, lg
<1> DEFINE same == SamePlaces(file, g)
<1>6. \A k \in both : SharedPrefix(file, g, k) <=> (1 .. (k - 1)) \subseteq same
  <2>1. \A k \in both : \A j \in 1 .. (k - 1) : j \in both /\ j <= Len(g.tokens)
    BY <1>5
  <2>2. \A j \in both : j \in same <=> file.tokens[j] = g.tokens[j]
    BY DEF SamePlaces
  <2> HIDE DEF both, same, file
  <2> QED
    BY <2>1, <2>2 DEF SharedPrefix
<1>7. \A k \in both : k \in same <=> file.tokens[k] = g.tokens[k]
  BY DEF SamePlaces
<1>8. canonical => \A k \in both : NearTie(file, g, policy, TRUE, k) <=> near(k)
  <2> SUFFICES ASSUME canonical, NEW k \in both PROVE NearTie(file, g, policy, TRUE, k) <=> near(k)
    OBVIOUS
  <2>1. Len(g.tokens) = Len(g.logits)
    BY <1>2
  <2>2. NearTie(file, g, policy, TRUE, k)
          <=> ~Exceeds(g.logits[k][g.tokens[k] + 1], g.logits[k][file.tokens[k] + 1], [atol |-> policy.gap])
    <3>1. k \in 1 .. Min({Len(file.tokens), Len(g.tokens)})
      OBVIOUS
    <3> HIDE DEF file, meta, policy, n
    <3> QED
      BY <1>2, <1>3, <2>1, <3>1, NearTieMeans
  <2> QED
    BY <2>2
<1>9. ~canonical => \A k \in both : NearTie(file, g, policy, FALSE, k) <=> near(k)
  BY DEF NearTie
<1>10. L1Holds(file, g, policy, canonical) <=> l1
  <2>1. \A k \in both : NearTie(file, g, policy, canonical, k) <=> near(k)
    <3>1. CASE canonical
      <4>1. canonical = TRUE
        BY <3>1
      <4> HIDE DEF canonical, near
      <4> QED
        BY <1>8, <3>1, <4>1
    <3>2. CASE ~canonical
      <4>1. canonical = FALSE
        BY <3>2
      <4> HIDE DEF canonical, near
      <4> QED
        BY <1>9, <3>2, <4>1
    <3> QED
      BY <3>1, <3>2
  <2>2. L1Holds(file, g, policy, canonical) <=>
          /\ \A j \in both : (1 .. (j - 1)) \subseteq same => j \in same \/ NearTie(file, g, policy, canonical, j)
          /\ both \subseteq same => Len(file.tokens) = Len(g.tokens)
    BY Zenon DEF L1Holds
  <2>3. \A k : k \in shared <=> k \in both /\ SharedPrefix(file, g, k)
    OBVIOUS
  <2> HIDE DEF both, same, near, file, canonical, shared
  <2> QED
    BY <1>6, <1>7, <2>1, <2>2, <2>3
<1>11. canonical => (L2Holds(file, g, policy) <=> l2)
  <2>1. L2Holds(file, g, policy) <=>
          \A j \in both : (1 .. (j - 1)) \subseteq same =>
             \A v \in 1 .. Vocab : ~Exceeds(g.logits[j][v], file.logits[j][v], policy)
    BY Zenon DEF L2Holds
  <2>2. \A k : k \in shared <=> k \in both /\ SharedPrefix(file, g, k)
    OBVIOUS
  <2>3. \A k \in both : k \in shared <=> (1 .. (k - 1)) \subseteq same
    BY <1>6, <2>2, Zenon
  <2>4. (\A k \in shared, v \in 1 .. Vocab : ~Exceeds(g.logits[k][v], file.logits[k][v], policy)) <=>
          \A k \in both : k \in shared => \A v \in 1 .. Vocab : ~Exceeds(g.logits[k][v], file.logits[k][v], policy)
    BY <2>2, Zenon
  <2>5. L2Holds(file, g, policy) <=>
          \A k \in shared, v \in 1 .. Vocab : ~Exceeds(g.logits[k][v], file.logits[k][v], policy)
    <3> HIDE DEF both, same, file, shared, policy
    <3> QED
      BY <2>1, <2>3, <2>4, Zenon
  <2> QED
    BY <2>5, Zenon
<1>12. Verdict(file, meta, g) = [l1 |-> l1, l2 |-> l2]
  <2> DEFINE a == CompareL1(file, g, policy, TRUE).passed
             b == CompareL1(file, g, policy, FALSE).passed
             c == CompareL2(file, g, policy).exceeding = 0
             r == Verdict(file, meta, g)
             x == L1Holds(file, g, policy, TRUE)
             y == L1Holds(file, g, policy, FALSE)
  <2>1. r = IF canonical THEN [l1 |-> a, l2 |-> c] ELSE [l1 |-> b, l2 |-> TRUE]
    BY DEF Verdict
  <2>2. a = x /\ b = y /\ (c <=> L2Holds(file, g, policy))
    <3> HIDE DEF file, policy
    <3> QED
      BY <1>5, L1Value, L2Value
  <2>3. x \in BOOLEAN /\ y \in BOOLEAN
    BY DEF L1Holds
  <2>4. l1 \in BOOLEAN /\ l2 \in BOOLEAN /\ c \in BOOLEAN
    OBVIOUS
  <2>5. canonical => (x <=> l1) /\ (c <=> l2)
    <3> SUFFICES ASSUME canonical PROVE (x <=> l1) /\ (c <=> l2)
      OBVIOUS
    <3>1. canonical = TRUE
      OBVIOUS
    <3>2. L1Holds(file, g, policy, TRUE) <=> l1
      <4> HIDE DEF canonical, l1
      <4> QED
        BY <1>10, <3>1
    <3> QED
      BY <1>11, <2>2, <3>2
  <2>6. ~canonical => (y <=> l1) /\ l2
    <3> SUFFICES ASSUME ~canonical PROVE (y <=> l1) /\ l2
      OBVIOUS
    <3>1. canonical = FALSE
      OBVIOUS
    <3>2. L1Holds(file, g, policy, FALSE) <=> l1
      <4> HIDE DEF canonical, l1
      <4> QED
        BY <1>10, <3>1
    <3> QED
      BY <3>2
  <2> HIDE DEF a, b, c, r, x, y, l1, l2, canonical
  <2>7. r = [l1 |-> l1, l2 |-> l2]
    BY <2>1, <2>2, <2>3, <2>4, <2>5, <2>6
  <2> QED
    BY <2>7 DEF r
<1> QED
  BY <1>4, <1>12, Zenon DEF VerdictIsSamePrefix

(* A case passes exactly when the candidate follows the reference, or a    *)
(* near tie, wherever both have the same prefix (compare_tokens_loop and   *)
(* compare_l2).                                                            *)
THEOREM GateVerdict == GateSpec => []VerdictIsSamePrefix
BY GateInvariant, VerdictMeaning, PTL
-----------------------------------------------------------------------------
(* The gate fails closed.                                                  *)

(* A set of expected identifiers that has as many elements as are expected *)
(* holds all of them; one that has none is empty.                          *)
LEMMA FullStage ==
  ASSUME NEW E, IsFiniteSet(E), NEW S \in SUBSET E
  PROVE  /\ Cardinality(S) = Cardinality(E) => S = E
         /\ Cardinality(S) = 0 => S = {}
<1>1. IsFiniteSet(S)
  BY FS_Subset
<1>2. Cardinality(S) = Cardinality(E) => S = E
  BY FS_Subset
<1> QED
  BY <1>1, <1>2, FS_EmptySet

(* What a pass says of the tracker.                                        *)
PassedTracker ==
  /\ tracker.discovered = ExpectedIds /\ tracker.generated = ExpectedIds /\ tracker.compared = ExpectedIds
  /\ tracker.unexpected = {} /\ tracker.skipped = {} /\ tracker.failed = {}

LEMMA PassTracker ==
  ASSUME Given, Compared, ReleasePassed(tracker)
  PROVE  PassedTracker
<1>1. ListsOK
  BY LoadedLists DEF Compared
<1>2. IsFiniteSet(ExpectedIds) /\ IsFiniteSet(tracker.unexpected)
  BY <1>1, PreflightFinite DEF Compared, TrackerGrown, Grown
<1>3. \A s \in Stages : tracker[s] \in SUBSET ExpectedIds
  BY DEF Compared, TrackerGrown, Grown
<1>4. /\ tracker.discovered \in SUBSET ExpectedIds /\ tracker.generated \in SUBSET ExpectedIds
      /\ tracker.compared \in SUBSET ExpectedIds /\ tracker.skipped \in SUBSET ExpectedIds
      /\ tracker.failed \in SUBSET ExpectedIds
  BY <1>3 DEF Stages
<1>5. tracker.expected = ExpectedIds
  BY DEF Compared, TrackerGrown, Grown
<1>6. /\ Cardinality(tracker.discovered) = Cardinality(ExpectedIds)
      /\ Cardinality(tracker.generated) = Cardinality(ExpectedIds)
      /\ Cardinality(tracker.compared) = Cardinality(ExpectedIds)
      /\ Cardinality(tracker.unexpected) = 0
      /\ Cardinality(tracker.skipped) = 0
      /\ Cardinality(tracker.failed) = 0
  BY <1>5 DEF ReleasePassed
<1>7. tracker.unexpected = {}
  BY <1>2, <1>6, FS_EmptySet
<1>8. tracker.discovered = ExpectedIds
  BY <1>2, <1>4, <1>6, FullStage
<1>9. tracker.generated = ExpectedIds
  BY <1>2, <1>4, <1>6, FullStage
<1>10. tracker.compared = ExpectedIds
  BY <1>2, <1>4, <1>6, FullStage
<1>11. tracker.skipped = {}
  BY <1>2, <1>4, <1>6, FullStage
<1>12. tracker.failed = {}
  BY <1>2, <1>4, <1>6, FullStage
<1> QED
  BY <1>7, <1>8, <1>9, <1>10, <1>11, <1>12 DEF PassedTracker

(* ... and of the corpus, the directory and the manifest.                  *)
LEMMA PassInputs ==
  ASSUME Given, Compared, PassedTracker
  PROVE  /\ dir.readable
         /\ FoundIds = ExpectedIds /\ WrongIds = {} /\ BrokenIds = {}
         /\ ExpectedIds \subseteq ThereIds
         /\ CorpusIds \subseteq ExpectedIds /\ FileIds \subseteq ExpectedIds
         /\ ExpectedIds \subseteq CalibratedIds \cup ReadyIds
<1>1. Contract /\ ExpectedIds # {}
  BY LoadedLists DEF Compared
<1>2. /\ PreflightTracker.discovered = ExpectedIds /\ PreflightTracker.generated = ExpectedIds
      /\ PreflightTracker.unexpected = {} /\ PreflightTracker.failed = {}
  BY DEF PassedTracker, Compared, TrackerGrown, Grown
<1>3. FoundIds = ExpectedIds /\ ExpectedIds \subseteq ThereIds /\ EarlyFailures = {}
      /\ (CorpusIds \ ExpectedIds) \cup (IF dir.readable THEN FileIds \ ExpectedIds ELSE {}) = {}
  BY <1>2, PreflightFields
<1>4. dir.readable /\ WrongIds = {} /\ BrokenIds \cap ExpectedIds = {}
  BY <1>1, <1>3 DEF EarlyFailures
<1>5. BrokenIds \subseteq ExpectedIds
  BY <1>1 DEF Contract, BrokenIds
<1>6. ExpectedIds \subseteq CalibratedIds \cup ReadyIds
  BY DEF PassedTracker, Compared, ComparedReady
<1> QED
  BY <1>3, <1>4, <1>5, <1>6

(* The fixture of an expectation, after a pass.                            *)
LEMMA PassFixture ==
  ASSUME Given, Compared, PassedTracker, NEW e \in ToSet(manifest.expected)
  PROVE  /\ HasPrompt(e.prompt) /\ PromptOf(e.prompt).family = e.family
         /\ \E x \in ToSet(manifest.fixtures) :
              FixtureId(x) = FixtureId(e) /\ FileOf(x) # {} /\ ~Broken(x) /\ ExpectationOf(x) = e
<1>1. Contract
  BY LoadedLists DEF Compared
<1>2. FixtureId(e) \in ExpectedIds
  BY DEF ExpectedIds
<1>3. HasPrompt(e.prompt)
  <2>1. FixtureId(e) \in FoundIds
    BY <1>2, PassInputs
  <2>2. PICK d \in ToSet(manifest.expected) : HasPrompt(d.prompt) /\ FixtureId(d) = FixtureId(e)
    BY <2>1 DEF FoundIds
  <2>3. d = e
    BY <1>1, <2>2, OneExpectation
  <2> QED
    BY <2>2, <2>3
<1>4. PromptOf(e.prompt).family = e.family
  <2> SUFFICES ASSUME PromptOf(e.prompt).family # e.family PROVE FALSE
    OBVIOUS
  <2>1. FixtureId(e) \in WrongIds
    BY <1>3 DEF WrongIds
  <2> QED
    BY <2>1, PassInputs
<1>5. PICK x \in ToSet(manifest.fixtures) : FileOf(x) # {} /\ FixtureId(x) = FixtureId(e)
  <2>1. FixtureId(e) \in ThereIds
    BY <1>2, PassInputs
  <2> QED
    BY <2>1 DEF ThereIds
<1>6. ~Broken(x)
  <2> SUFFICES ASSUME Broken(x) PROVE FALSE
    OBVIOUS
  <2>1. FixtureId(x) \in BrokenIds
    BY <1>5 DEF BrokenIds
  <2> QED
    BY <2>1, PassInputs
<1>7. ExpectationOf(x) = e
  <2>1. FixtureId(x) \in ExpectedIds
    BY <1>2, <1>5
  <2>2. ExpectationOf(x) \in ToSet(manifest.expected) /\ FixtureId(ExpectationOf(x)) = FixtureId(e)
    BY <1>5, <2>1, ExpectationFacts
  <2> QED
    BY <1>1, <2>2, OneExpectation
<1> QED
  BY <1>3, <1>4, <1>5, <1>6, <1>7

(* As many results as reference expectations.                              *)
LEMMA PassCounts ==
  ASSUME Given, Compared, PassedTracker, cases = <<>>
  PROVE  Len(results) = Cardinality({e \in ToSet(manifest.expected) : e.role = "reference"})
<1> DEFINE refs == {e \in ToSet(manifest.expected) : e.role = "reference"}
           usable == {i \in 1 .. Len(manifest.fixtures) : manifest.fixtures[i] \in ReadyCases}
           f == [i \in usable |-> ExpectationOf(manifest.fixtures[i])]
<1>1. ListsOK /\ Contract
  BY LoadedLists DEF Compared
<1>2. /\ manifest.fixtures \in Seq(ToSet(manifest.fixtures)) /\ Len(manifest.fixtures) \in Nat
      /\ DOMAIN manifest.fixtures = 1 .. Len(manifest.fixtures)
  BY <1>1 DEF ListsOK, Listed
<1>3. Len(results) = Cardinality(usable)
  <2>1. Len(ReferenceCases) = Cardinality(usable) /\ Len(ReferenceCases) \in Nat
    BY <1>1, CasesProperties
  <2>2. Len(results) = Len(ReferenceCases) - Len(cases)
    BY DEF Compared, Progress, PassedTracker
  <2>3. Len(cases) = 0
    OBVIOUS
  <2> HIDE DEF usable
  <2> QED
    BY <2>1, <2>2, <2>3
<1>4. \A i \in usable : /\ manifest.fixtures[i] \in ToSet(manifest.fixtures) /\ i \in DOMAIN manifest.fixtures
                       /\ FixtureId(manifest.fixtures[i]) \in ExpectedIds
                       /\ ExpectationOf(manifest.fixtures[i]).role = "reference"
  BY <1>1, <1>2 DEF Contract, ReadyCases
<1>5. \A i \in usable : /\ f[i] \in refs
                       /\ FixtureId(f[i]) = FixtureId(manifest.fixtures[i])
  <2> SUFFICES ASSUME NEW i \in usable
               PROVE  f[i] \in refs /\ FixtureId(f[i]) = FixtureId(manifest.fixtures[i])
    OBVIOUS
  <2> DEFINE x == manifest.fixtures[i]
  <2>1. FixtureId(x) \in ExpectedIds /\ ExpectationOf(x).role = "reference" /\ f[i] = ExpectationOf(x)
    BY <1>4
  <2> HIDE DEF x, f, usable
  <2>2. ExpectationOf(x) \in ToSet(manifest.expected) /\ FixtureId(ExpectationOf(x)) = FixtureId(x)
    BY <2>1, ExpectationFacts
  <2> QED
    BY <2>1, <2>2 DEF x
<1>6. \A i, j \in usable : f[i] = f[j] => i = j
  <2> SUFFICES ASSUME NEW i \in usable, NEW j \in usable, f[i] = f[j] PROVE i = j
    OBVIOUS
  <2>1. FixtureId(manifest.fixtures[i]) = FixtureId(manifest.fixtures[j])
    BY <1>5
  <2> QED
    BY <1>1, <1>4, <2>1 DEF Contract
<1>7. \A e \in refs : \E i \in usable : f[i] = e
  <2> SUFFICES ASSUME NEW e \in refs PROVE \E i \in usable : f[i] = e
    OBVIOUS
  <2>1. e \in ToSet(manifest.expected) /\ e.role = "reference"
    OBVIOUS
  <2>2. PICK x \in ToSet(manifest.fixtures) :
          FixtureId(x) = FixtureId(e) /\ FileOf(x) # {} /\ ~Broken(x) /\ ExpectationOf(x) = e
    BY <2>1, PassFixture
  <2>3. HasPrompt(e.prompt) /\ PromptOf(e.prompt).family = e.family
    BY <2>1, PassFixture
  <2>4. x.prompt = e.prompt
    BY <2>2 DEF FixtureId
  <2>5. x \in ReadyCases
    BY <2>1, <2>2, <2>3, <2>4 DEF ReadyCases
  <2>6. PICK i \in DOMAIN manifest.fixtures : manifest.fixtures[i] = x
    BY DEF ToSet
  <2>7. i \in usable
    BY <1>2, <2>5, <2>6
  <2> QED
    BY <2>2, <2>6, <2>7
<1>8. f \in Bijection(usable, refs)
  <2>1. f \in [usable -> refs]
    BY <1>5
  <2> HIDE DEF f, usable, refs
  <2> QED
    BY <1>6, <1>7, <2>1 DEF Bijection, Injection, Surjection, IsInjective
<1>9. IsFiniteSet(usable)
  <2>1. IsFiniteSet(1 .. Len(manifest.fixtures))
    BY <1>2, PlacesFinite
  <2>2. usable \in SUBSET (1 .. Len(manifest.fixtures))
    OBVIOUS
  <2> HIDE DEF usable
  <2> QED
    BY <2>1, <2>2, FS_Subset
<1> HIDE DEF f, usable, refs
<1>10. Cardinality(usable) = Cardinality(refs)
  BY <1>8, <1>9, FS_Bijection DEF ExistsBijection
<1> QED
  BY <1>3, <1>10 DEF refs
LEMMA PassMeaning ==
  ASSUME GateInv, exit = "pass"
  PROVE  PassMeansEverything /\ MessagesFailTheGate
<1>1. Given /\ Compared /\ cases = <<>> /\ ReleasePassed(tracker)
  BY DEF GateInv
<1>2. PassedTracker
  BY <1>1, PassTracker
<1>3. Contract
  BY <1>1, LoadedLists DEF Compared
<1>4. ExpectedIds = CorpusIds
  <2>1. CorpusIds \subseteq ExpectedIds
    BY <1>1, <1>2, PassInputs
  <2>2. ASSUME NEW c \in ExpectedIds PROVE c \in CorpusIds
    <3>1. PICK e \in ToSet(manifest.expected) : c = FixtureId(e)
      BY DEF ExpectedIds
    <3>2. PICK p \in prompts : p.id = e.prompt
      BY <1>1, <1>2, PassFixture DEF HasPrompt
    <3>3. e.oracle \in Oracles
      BY <1>3 DEF Contract
    <3>4. c = [prompt |-> p.id, oracle |-> e.oracle]
      BY <3>1, <3>2 DEF FixtureId
    <3> QED
      BY <3>3, <3>4 DEF CorpusIds
  <2> QED
    BY <2>1, <2>2
<1>5. FileIds = ExpectedIds
  <2>1. FileIds \subseteq ExpectedIds
    BY <1>1, <1>2, PassInputs
  <2>2. ASSUME NEW c \in ExpectedIds PROVE c \in FileIds
    <3>1. c \in ThereIds
      BY <1>1, <1>2, PassInputs
    <3>2. PICK x \in ToSet(manifest.fixtures) : FileOf(x) # {} /\ FixtureId(x) = c
      BY <3>1 DEF ThereIds
    <3>3. PICK f \in dir.files : f.name = c
      BY <3>2 DEF FileOf
    <3> QED
      BY <3>3 DEF FileIds
  <2> QED
    BY <2>1, <2>2
<1>6. ASSUME NEW e \in ToSet(manifest.expected)
      PROVE  /\ PromptOf(e.prompt).family = e.family
             /\ \E x \in ToSet(manifest.fixtures) : FixtureId(x) = FixtureId(e) /\ Sound(x)
             /\ e.role = "baseline" => FixtureId(e) \in ToSet(manifest.calibrated)
  <2>1. PromptOf(e.prompt).family = e.family
    BY <1>1, <1>2, PassFixture
  <2>2. PICK x \in ToSet(manifest.fixtures) : FixtureId(x) = FixtureId(e) /\ FileOf(x) # {} /\ ~Broken(x)
    BY <1>1, <1>2, PassFixture
  <2>3. Sound(x)
    BY <2>2 DEF Sound, Broken
  <2>4. ASSUME e.role = "baseline" PROVE FixtureId(e) \in ToSet(manifest.calibrated)
    <3>1. FixtureId(e) \in CalibratedIds \cup ReadyIds
      BY <1>1, <1>2, PassInputs DEF ExpectedIds
    <3>2. FixtureId(e) \notin ReadyIds
      <4> SUFFICES ASSUME FixtureId(e) \in ReadyIds PROVE FALSE
        OBVIOUS
      <4>1. PICK y \in ReadyCases : FixtureId(y) = FixtureId(e)
        BY DEF ReadyIds
      <4>2. FixtureId(y) \in ExpectedIds
        BY <4>1 DEF ExpectedIds
      <4>3. ExpectationOf(y) \in ToSet(manifest.expected) /\ FixtureId(ExpectationOf(y)) = FixtureId(e)
        BY <4>1, <4>2, ExpectationFacts
      <4>4. ExpectationOf(y) = e
        BY <1>3, <4>3, OneExpectation
      <4>5. ExpectationOf(y).role = "reference"
        BY DEF ReadyCases
      <4> QED
        BY <2>4, <4>4, <4>5
    <3> QED
      BY <3>1, <3>2 DEF CalibratedIds
  <2> QED
    BY <2>1, <2>2, <2>3, <2>4
<1>7. Len(results) = Cardinality({e \in ToSet(manifest.expected) : e.role = "reference"})
  BY <1>1, <1>2, PassCounts
<1>8. PassMeansEverything
  <2>1. ExpectedIds = {[prompt |-> p.id, oracle |-> o] : p \in prompts, o \in Oracles}
    BY <1>4 DEF CorpusIds
  <2>2. {f.name : f \in dir.files} = ExpectedIds
    BY <1>5 DEF FileIds
  <2>3. \A e \in ToSet(manifest.expected) :
          /\ PromptOf(e.prompt).family = e.family
          /\ \E x \in ToSet(manifest.fixtures) : FixtureId(x) = FixtureId(e) /\ Sound(x)
          /\ e.role = "baseline" => FixtureId(e) \in ToSet(manifest.calibrated)
    BY <1>6, Zenon
  <2> QED
    BY <1>7, <2>1, <2>2, <2>3 DEF PassMeansEverything
<1>9. failures = {}
  BY <1>1, <1>2 DEF Compared, MessagesNoted, PassedTracker
<1> QED
  BY <1>8, <1>9 DEF MessagesFailTheGate

LEMMA NothingLost == GateInv => NothingIsLost
<1> SUFFICES ASSUME GateInv, exit \in {"pass", "fail"}, NEW id \in ExpectedIds,
                    id \in tracker.discovered, id \in tracker.generated,
                    ~(id.oracle = "vllm" /\ id \notin ToSet(manifest.calibrated))
             PROVE  id \in tracker.compared \cup tracker.skipped \cup tracker.failed
  BY DEF NothingIsLost
<1>1. Given /\ Compared /\ cases = <<>>
  BY DEF GateInv
<1>2. Contract /\ ListsOK
  BY <1>1, LoadedLists DEF Compared
<1>3. /\ id \in FoundIds /\ id \in ThereIds
      /\ CalibratedIds \subseteq tracker.compared
      /\ EarlyFailures \subseteq tracker.failed
      /\ (ToSet(manifest.calibrated) \ CalibratedIds) \cap ExpectedIds \subseteq tracker.failed
  BY <1>1, PreflightFields DEF Compared, TrackerGrown, Grown
<1>4. CASE id \in ToSet(manifest.calibrated)
  BY <1>3, <1>4
<1>5. CASE id \notin ToSet(manifest.calibrated)
  <2>1. PICK e \in ToSet(manifest.expected) : HasPrompt(e.prompt) /\ FixtureId(e) = id
    BY <1>3 DEF FoundIds
  <2>2. PICK x \in ToSet(manifest.fixtures) : FileOf(x) # {} /\ FixtureId(x) = id
    BY <1>3 DEF ThereIds
  <2>3. ExpectationOf(x) = e
    <3>1. ExpectationOf(x) \in ToSet(manifest.expected) /\ FixtureId(ExpectationOf(x)) = FixtureId(e)
      BY <2>1, <2>2, ExpectationFacts
    <3> QED
      BY <1>2, <3>1, OneExpectation
  <2>4. e.role = "reference" /\ x.prompt = e.prompt
    <3>1. id.oracle = e.oracle /\ id.oracle # "vllm"
      BY <1>5, <2>1 DEF FixtureId
    <3>2. e.oracle = "transformers"
      BY <1>2, <3>1 DEF Contract, Oracles
    <3>3. e.role = "reference"
      BY <1>2, <3>2 DEF Contract
    <3> QED
      BY <2>1, <2>2, <3>3 DEF FixtureId
  <2>5. CASE Broken(x)
    <3>1. id \in BrokenIds
      BY <2>2, <2>5 DEF BrokenIds
    <3> QED
      BY <1>3, <3>1 DEF EarlyFailures
  <2>6. CASE PromptOf(e.prompt).family # e.family
    <3>1. id \in WrongIds
      BY <2>1, <2>6 DEF WrongIds
    <3> QED
      BY <1>3, <3>1 DEF EarlyFailures
  <2>7. CASE ~Broken(x) /\ PromptOf(e.prompt).family = e.family
    <3>1. x \in ReadyCases
      BY <2>1, <2>2, <2>3, <2>4, <2>7 DEF ReadyCases
    <3>2. ReferenceCases \in Seq(ToSet(manifest.fixtures))
          /\ \E k \in DOMAIN ReferenceCases : ReferenceCases[k] = x
      BY <1>2, <3>1, CasesProperties
    <3>3. \A k \in 1 .. Len(ReferenceCases) : FixtureId(ReferenceCases[k]) \in ResultCases
      <4>1. \A k \in 1 .. (Len(ReferenceCases) - Len(cases)) : FixtureId(ReferenceCases[k]) \in ResultCases
        BY <1>1 DEF Compared, Progress
      <4>2. Len(cases) = 0 /\ Len(ReferenceCases) \in Nat
        BY <1>1, <3>2
      <4>3. Len(ReferenceCases) - Len(cases) = Len(ReferenceCases)
        BY <4>2
      <4> QED
        BY <4>1, <4>3
    <3>4. PICK k \in 1 .. Len(ReferenceCases) : ReferenceCases[k] = x
      BY <3>2
    <3>5. id \in ResultCases
      BY <2>2, <3>3, <3>4
    <3> QED
      BY <3>5 DEF ResultCases
  <2> QED
    BY <2>5, <2>6, <2>7
<1> QED
  BY <1>4, <1>5

(* A pass means that every prompt was covered by both oracles, every file  *)
(* was sound, every baseline calibrated and every reference compared, with *)
(* no message on the way; and whatever the outcome, no expected fixture    *)
(* drops out of the report (release_passed, reference_passed).             *)
THEOREM GateClosed == GateSpec => []GateFailsClosed
<1>1. GateInv => GateFailsClosed
  <2> SUFFICES ASSUME GateInv PROVE GateFailsClosed
    OBVIOUS
  <2>1. CASE exit = "pass"
    BY <2>1, PassMeaning, NothingLost DEF GateFailsClosed
  <2>2. CASE exit # "pass"
    BY <2>2, NothingLost DEF GateFailsClosed, PassMeansEverything, MessagesFailTheGate
  <2> QED
    BY <2>1, <2>2
<1> QED
  BY <1>1, GateInvariant, PTL
=============================================================================
