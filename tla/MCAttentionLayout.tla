------------------------ MODULE MCAttentionLayout ------------------------
(* Three requests whose blocks interleave in the pool.                     *)
EXTENDS AttentionLayout

MCTables == <<<<1, 4>>, <<3, 0>>, <<2, 5>>>>

=============================================================================
