---------------------------- MODULE IsolatedCalls ----------------------------
(***************************************************************************)
(* The two modes in which LLM::generate, called with no prompt, runs a     *)
(* private plan: behavior verification, which calls generate again for     *)
(* every call of a scenario (golden_capture/behavior.rs), and operator     *)
(* verification (golden_capture/operators.rs).  Both end in                *)
(* write_atomic_json (golden_capture.rs), which is modelled system call by *)
(* system call; the process may be killed between any two of them.         *)
(***************************************************************************)
EXTENDS Naturals, Sequences

CONSTANT Calls      \* calls of the scenario, or profiles of the operator plan

ASSUME CallsPositive == Calls \in Nat \ {0}

VARIABLES
    isoPc,         \* where generate is
    isoEnv,        \* private variables set in the process
    next,       \* call of the scenario that runs
    admitted,   \* stable request ids given out so far
    bindings,   \* binding files: call -> ids and forcing flag, <<>> if absent
    records,    \* what is collected for the artifact
    stage,      \* staging file: "absent", "partial", "whole"
    dest,       \* destination: <<>> if absent, else its records
    result      \* what generate returned: "none", "ok" or "err"

isoVars == <<isoPc, isoEnv, next, admitted, bindings, records, stage, dest, result>>

Modes == {"behavior", "operator", "fixed", "capture", "benchmark"}

IsoInit ==
    /\ isoPc = "dispatch" /\ next = 1 /\ admitted = 0
    /\ isoEnv \in {e \in SUBSET Modes : e \cap {"behavior", "operator"} # {}}
    /\ bindings = [k \in 1..Calls |-> <<>>]
    /\ records = <<>> /\ stage = "absent" /\ dest = <<>> /\ result = "none"

Return(how) == isoPc' = "returned" /\ result' = how

\* A plan runs alone: no session, no other plan, no forcing.
Isolated(what) == isoEnv = {what}

\* generate's dispatch: behavior first, then operators; each needs isolation,
\* a plan that can be read and a fresh destination.  Behavior removes its
\* variable so that the nested calls take the ordinary path.
Dispatch ==
    /\ isoPc = "dispatch"
    /\ LET what == IF "behavior" \in isoEnv THEN "behavior" ELSE "operator"
       IN \/ /\ Isolated(what)
             /\ isoEnv' = isoEnv \ {"behavior"}
             /\ isoPc' = IF what = "behavior" THEN "call" ELSE "operator"
             /\ UNCHANGED result
          \/ Return("err") /\ UNCHANGED isoEnv
    /\ UNCHANGED <<next, admitted, bindings, records, stage, dest>>

-----------------------------------------------------------------------------
\* The variable names this call's binding file and generate is called again.
EnterCall ==
    /\ isoPc = "call" /\ next <= Calls
    /\ IF bindings[next] = <<>>
       THEN isoEnv' = isoEnv \cup {"binding"} /\ isoPc' = "nested" /\ UNCHANGED result
       ELSE Return("err") /\ UNCHANGED isoEnv
    /\ UNCHANGED <<next, admitted, bindings, records, stage, dest>>

\* The evidence a call records once its requests are admitted.
Binding == [ids |-> admitted + 1, forced |-> "fixed" \in isoEnv]

\* The nested call is refused before admission, fails in the engine or while
\* it records its binding, or returns outputs; the binding is written after
\* admission.  A call with no prompt returns before both.
NestedCall ==
    /\ isoPc = "nested"
    /\ \/ isoPc' = "after_err" /\ UNCHANGED <<admitted, bindings>>
       \/ isoPc' = "after_ok" /\ UNCHANGED <<admitted, bindings>>
       \/ /\ admitted' = admitted + 1
          /\ \/ bindings' = [bindings EXCEPT ![next] = Binding] /\ isoPc' \in {"after_err", "after_ok"}
             \/ isoPc' = "after_err" /\ UNCHANGED bindings
    /\ UNCHANGED <<isoEnv, next, records, stage, dest, result>>

\* The binding variable is removed whether the call succeeded or not.
AfterEnv(outcome) == isoEnv \ {"binding"}

\* An error of the nested call is recorded and the scenario goes on; a binding
\* file that cannot be read back ends it.
AfterCall ==
    /\ \E outcome \in {"ok", "err"} :
         /\ isoPc = IF outcome = "ok" THEN "after_ok" ELSE "after_err"
         /\ isoEnv' = AfterEnv(outcome)
         /\ \/ /\ records' = Append(records,
                     [call |-> next, outcome |-> outcome, binding |-> bindings[next]])
               /\ next' = next + 1
               /\ isoPc' = IF next = Calls THEN "stage" ELSE "call"
               /\ UNCHANGED result
            \/ bindings[next] # <<>> /\ Return("err") /\ UNCHANGED <<records, next>>
    /\ UNCHANGED <<admitted, bindings, stage, dest>>

\* Every profile is run; an unsupported rule or a non-finite value is an error.
RunOperators ==
    /\ isoPc = "operator"
    /\ \/ /\ records' = [k \in 1..Calls |-> [call |-> k, outcome |-> "ok", binding |-> <<>>]]
          /\ isoPc' = "stage" /\ UNCHANGED result
       \/ Return("err") /\ UNCHANGED records
    /\ UNCHANGED <<isoEnv, next, admitted, bindings, stage, dest>>

-----------------------------------------------------------------------------
(* write_atomic_json *)

CreateStage ==
    /\ isoPc = "stage"
    /\ \/ stage' = "partial" /\ isoPc' = "write" /\ UNCHANGED result
       \/ Return("err") /\ UNCHANGED stage
    /\ UNCHANGED <<isoEnv, next, admitted, bindings, records, dest>>

MutWriteStage ==
    /\ isoPc = "write"
    /\ stage' \in {"whole", "partial"} /\ isoPc' = "link"
    /\ UNCHANGED <<isoEnv, next, admitted, bindings, records, dest, result>>

\* Serialized and synchronized, or left partial by an error.
WriteStage ==
    /\ isoPc = "write"
    /\ \/ stage' = "whole" /\ isoPc' = "link"
       \/ isoPc' = "clean_err" /\ UNCHANGED stage
    /\ UNCHANGED <<isoEnv, next, admitted, bindings, records, dest, result>>

\* What the destination holds once the staged inode is linked to it.
Linked == IF stage = "whole" THEN records ELSE SubSeq(records, 1, 1)

\* hard_link refuses an existing name; then the directory is synchronized.
LinkStage ==
    /\ isoPc = "link"
    /\ \/ dest = <<>> /\ dest' = Linked /\ isoPc' \in {"clean_ok", "clean_err"}
       \/ isoPc' = "clean_err" /\ UNCHANGED dest
    /\ UNCHANGED <<isoEnv, next, admitted, bindings, records, stage, result>>

\* The staging name is removed on both outcomes.
CleanStage ==
    /\ isoPc \in {"clean_ok", "clean_err"}
    /\ \/ stage' = "absent" /\ Return(IF isoPc = "clean_ok" THEN "ok" ELSE "err")
       \/ UNCHANGED stage /\ Return("err")
    /\ UNCHANGED <<isoEnv, next, admitted, bindings, records, dest>>

Kill ==
    /\ isoPc \notin {"returned", "killed"}
    /\ isoPc' = "killed" /\ isoEnv' = {}
    /\ UNCHANGED <<next, admitted, bindings, records, stage, dest, result>>

IsoNext == Dispatch \/ EnterCall \/ NestedCall \/ AfterCall \/ RunOperators
           \/ CreateStage \/ WriteStage \/ LinkStage \/ CleanStage \/ Kill

-----------------------------------------------------------------------------
(* Properties *)

\* The artifact appears whole: one record per call, in order, even when the
\* process is killed or a write fails.
ArtifactIsWhole ==
    dest # <<>> => /\ Len(dest) = Calls
                   /\ \A k \in 1..Calls : dest[k].call = k

\* Behavior evidence is of free generation: no binding says a call was forced.
NothingForced == \A k \in 1..Calls : bindings[k] # <<>> => ~bindings[k].forced

\* However the nested calls end, a later generate of the process is an
\* ordinary one: no plan and no binding variable is left set.
EnvironmentLeftClean ==
    isoPc \in {"call", "stage"} \/ (isoPc = "returned" /\ next > 1) => isoEnv \cap {"behavior", "binding"} = {}

\* A record carries the binding of its own call: bindings of two calls name
\* different requests.
BindingsAreOwn ==
    \A i, j \in DOMAIN records :
      i # j /\ records[i].binding # <<>> /\ records[j].binding # <<>>
        => records[i].binding.ids # records[j].binding.ids
=============================================================================
