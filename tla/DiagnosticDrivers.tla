-------------------------- MODULE DiagnosticDrivers --------------------------
(***************************************************************************)
(* The diagnostic drivers around LLM::generate: raw-logit capture,         *)
(* benchmark telemetry, fixed-prefix replay, and the behavior and operator *)
(* plans.  generate refuses to combine them (llm.rs), and each driver is a *)
(* program of its own, so a process runs exactly one; the variables and    *)
(* the files of the others are those of a fresh process.                   *)
(***************************************************************************)
EXTENDS GoldenCapture, Telemetry, FixedPrefix, IsolatedCalls

VARIABLE driver     \* the driver this process runs

diagVars == <<driver, capVars, telVars, fixVars, isoVars>>

DiagInit ==
    /\ driver \in {"capture", "telemetry", "replay", "isolated"}
    /\ CapInit /\ TelInit /\ FixInit /\ IsoInit
    /\ driver # "telemetry" => telDest = Absent
    /\ driver # "replay" => mode = "control" /\ fixEnv = {} /\ Len(plans) = 1
    /\ driver # "isolated" => isoEnv = {"behavior"}

DiagNext ==
    /\ \/ driver = "capture" /\ CapNext /\ UNCHANGED <<telVars, fixVars, isoVars>>
       \/ driver = "telemetry" /\ TelNext /\ UNCHANGED <<capVars, fixVars, isoVars>>
       \/ driver = "replay" /\ FixNext /\ UNCHANGED <<capVars, telVars, isoVars>>
       \/ driver = "isolated" /\ IsoNext /\ UNCHANGED <<capVars, telVars, fixVars>>
    /\ UNCHANGED driver

DiagSpec == DiagInit /\ [][DiagNext]_diagVars /\ CapFairness

-----------------------------------------------------------------------------
(* Properties *)

\* A capture returns what its own call sampled, request by request, however
\* the engine interleaved the rows and whatever other threads captured; a
\* call whose requests finished is refused by neither side.
CaptureIsExact == CaptureIsFaithful /\ CompleteCaptureAccepted

\* Producer and consumer of the telemetry agree on every number, no time is
\* lost between the tokens of a request, and the summary stays inside its
\* samples, whatever the chunking, batching and preemptions were.
TelemetryIsExact == ConsumerAgrees /\ LatencyAddsUp /\ SummaryIsSound

\* A replay sees the frozen history in every row, a control run sees free
\* generation, a trace sees every executed token once.
ReplayIsExact == ReplayIsFrozen /\ ReplayNeverDiverges /\ ControlIsFree /\ TraceCoversCall

\* The environment variables, through which a driver speaks to generate, and
\* the workspaces are owned by one call at a time and left clean by every
\* exit: a later call of the process is never watched by mistake, and none
\* of a behavior plan is forced.
CallsDoNotLeak ==
    /\ EnvironmentOwned /\ WorkspaceRemoved /\ NeverOccupied
    /\ EnvironmentLeftClean /\ NothingForced /\ BindingsAreOwn

\* What a driver publishes is whole: every call and every member is in it,
\* even when a write fails, a step fails or the process is killed.
EvidenceIsWhole == FailureLeavesNothing /\ CapturesAreComplete /\ ArtifactIsWhole
=============================================================================
