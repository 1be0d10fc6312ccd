----------------------------- MODULE NvmlSession -----------------------------
(***************************************************************************)
(* The NVML session of crates/vllm-oxide-test/src/benchmark/nvml_ffi.rs:   *)
(* one dlopen'ed library, one reference taken by nvmlInit_v2, one device   *)
(* handle.  The session belongs to the sampling worker; every operator     *)
(* primes `session` and `driver`.  `driver` is what the process has done   *)
(* to the vendor library, which the code never reads back.                 *)
(***************************************************************************)
EXTENDS Naturals

VARIABLES
    session,    \* Session: library handle, initialized, device, closed
    driver      \* external: loads, unloads, inits, shutdowns of libnvidia-ml

sessionVars == <<session, driver>>

\* The outcomes of a call that can return, fail or unwind.
Outcomes == {"ok", "err", "panic"}

SessionInit ==
    /\ session = [library |-> "none", initialized |-> FALSE, device |-> FALSE, closed |-> FALSE]
    /\ driver = [loads |-> 0, unloads |-> 0, inits |-> 0, shutdowns |-> 0]

\* Where Session::open and initialize can stop, in the order of their calls.
OpenSteps == {"dlopen", "loaded_path", "file_identity", "symbol", "opened"}
InitSteps == {"nvmlInit", "handle", "null_handle", "version", "initialized"}

\* Session::open: a library that was loaded before a later step failed is
\* closed again by Library::drop; the soname that did not load leaves nothing.
SessionOpen(step) ==
    /\ session' = [session EXCEPT !.library =
         CASE step = "opened" -> "open" [] step = "dlopen" -> "none" [] OTHER -> "closed"]
    /\ driver' = [driver EXCEPT !.loads = IF step = "dlopen" THEN @ ELSE @ + 1,
                                !.unloads = IF step \in {"dlopen", "opened"} THEN @ ELSE @ + 1]

MutSessionInitialize(step) ==
    /\ session' = [session EXCEPT !.initialized = step = "initialized",
                                  !.device = step \in {"version", "initialized"}]
    /\ driver' = [driver EXCEPT !.inits = IF step = "nvmlInit" THEN @ ELSE @ + 1]

\* initialize: the reference taken by nvmlInit_v2 is remembered before any of
\* the later calls can fail.
SessionInitialize(step) ==
    /\ session' = [session EXCEPT !.initialized = step # "nvmlInit",
                                  !.device = step \in {"version", "initialized"}]
    /\ driver' = [driver EXCEPT !.inits = IF step = "nvmlInit" THEN @ ELSE @ + 1]

\* close: one shutdown for the one successful init, then one dlclose; both are
\* attempted whatever the other returns.  `shut` and `unload` say whether the
\* two calls succeed; the handle is given up before either is made.
SessionClose ==
    /\ session' = [session EXCEPT !.closed = TRUE, !.initialized = FALSE,
                                  !.library = IF @ = "open" THEN "closed" ELSE @]
    /\ driver' = [driver EXCEPT !.shutdowns = IF session.initialized THEN @ + 1 ELSE @,
                                !.unloads = IF session.library = "open" THEN @ + 1 ELSE @]

\* Drop for Session closes only what close() has not closed before.
SessionDrop ==
    IF session.library = "open" /\ ~session.closed THEN SessionClose ELSE UNCHANGED sessionVars
=============================================================================
