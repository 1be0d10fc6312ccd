---------------------------- MODULE MCScheduler ----------------------------
(***************************************************************************)
(* Instances of Scheduler for TLC: two-token blocks whose hashes collide.  *)
(***************************************************************************)
EXTENDS Scheduler

CollidingHash(prefix, ts) == 0

(* Requests that need one block and two.                                   *)
MixedPrompt == {<<0>>, <<0, 0, 0>>}

=============================================================================
