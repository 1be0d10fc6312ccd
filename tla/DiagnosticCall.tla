--------------------------- MODULE DiagnosticCall ---------------------------
(***************************************************************************)
(* The generate call that a diagnostic session watches: its prompts, and   *)
(* the tokens that each request generates (max_tokens with ignore_eos).    *)
(***************************************************************************)
EXTENDS Naturals, Sequences, FiniteSets, SequencesExt, FiniteSetsExt

CONSTANTS
    Requests,   \* number of prompts of a call
    Tokens      \* tokens each request generates

ASSUME CallShape == {Requests, Tokens} \subseteq Nat \ {0}

Inputs == 1..Requests
=============================================================================
