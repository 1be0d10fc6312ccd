---------------------------- MODULE MCEngineCore ----------------------------
(***************************************************************************)
(* Instances of EngineCore for TLC: small blocks whose hashes collide.     *)
(***************************************************************************)
EXTENDS EngineCore

CollidingHash(prefix, ts) == 0

(* One prompt short of a block and one that fills it: decoders of the      *)
(* second reach a block boundary with their first token.                   *)
MCPrompt == {<<0>>, <<0, 0, 0>>}

(* One full block to share and a token more.                               *)
LongPrompt == {<<0, 0, 0>>}

=============================================================================
