----------------------------- MODULE MCStartup -----------------------------
(***************************************************************************)
(* Releases, options and configurations for Startup: sound ones, and       *)
(* others with one defect each.                                            *)
(***************************************************************************)
EXTENDS Startup

None == [has |-> FALSE, ids |-> {}]
Ids(S) == [has |-> TRUE, ids |-> S]

Special(eos, bos, pad) == [kind \in {"eos", "bos", "pad"} |->
  CASE kind = "eos" -> eos [] kind = "bos" -> bos [] OTHER -> pad]

MCShards == <<"a", "b", "model">>

MCUnsafe == {"outside"}

(* A sharded release beside a stray single file, a newer release as one    *)
(* file, and releases broken in one way each.                              *)
Sharded ==
  [files |-> {"config", "tokenizer", "generation", "index", "a", "b", "model"},
   shards |-> <<"b", "a", "b">>, arch |-> "Qwen3ForCausalLM", dtype |-> "BF16",
   model |-> Special(Ids({1}), Ids({3}), None), generation |-> Special(Ids({1, 2}), None, None),
   vocab |-> 0 .. 3]

Single ==
  [Sharded EXCEPT !.files = {"config", "tokenizer", "model"}, !.shards = <<>>,
                  !.generation = Special(None, None, None)]

Releases ==
  <<Sharded, Single,
    [Sharded EXCEPT !.files = @ \ {"b"}], [Sharded EXCEPT !.shards = <<"a", "outside">>],
    [Sharded EXCEPT !.shards = <<>>], [Sharded EXCEPT !.files = @ \ {"tokenizer"}],
    [Sharded EXCEPT !.dtype = "F32"], [Sharded EXCEPT !.arch = "Other"],
    [Sharded EXCEPT !.vocab = {0, 1, 3}],
    [Sharded EXCEPT !.generation = Special(Ids({}), None, None)],
    [Sharded EXCEPT !.files = {"config", "tokenizer", "a", "b"}],
    [Single EXCEPT !.model = Special(None, None, None)]>>

Commits == <<"c1", "c2", "c3", "c4", "c5", "c6", "c7", "c8", "c9", "c10", "c11", "c12">>

MCSnapshot ==
  [s \in Range(Commits) |-> Releases[CHOOSE i \in DOMAIN Commits : Commits[i] = s]]

MCPublished == {"c1", "c2"}

MCSources ==
  [mode : {"local", "online", "offline"}, revision : {"main", "c1"},
   dtype : {"none", "F16", "F32"}]

(* Valid options, and options that validate refuses.                       *)
Opts(batched, len, u, d) ==
  [eager |-> TRUE, maxBatched |-> batched, maxSeqs |-> 1, maxModelLen |-> len,
   util |-> u, dtype |-> d]

MCOptions ==
  {Opts(9, 3, <<3, 4>>, "none"), Opts(1, 5, <<1, 1>>, "F16"), Opts(2, 2, <<2, 4>>, "none"),
   Opts(0, 3, <<3, 4>>, "none"), Opts(9, 1, <<3, 4>>, "none"), Opts(9, 3, <<5, 4>>, "none"),
   Opts(9, 3, <<0, 4>>, "none"), Opts(9, 3, <<3, 4>>, "F32"),
   [Opts(9, 3, <<3, 4>>, "none") EXCEPT !.eager = FALSE],
   [Opts(9, 3, <<3, 4>>, "none") EXCEPT !.maxSeqs = 0]}

Shape(layers, heads, kv, hidden, dim, pos) ==
  [layers |-> layers, heads |-> heads, kvHeads |-> kv, hidden |-> hidden, headDim |-> dim,
   inter |-> 4, vocab |-> 8, maxPos |-> pos, plain |-> TRUE]

(* One block is 16 or 32 bytes; the others are refused.                    *)
MCConfigs ==
  {Shape(1, 2, 1, 4, -1, 4), Shape(2, 2, 1, 4, 2, 8),
   Shape(1, 2, 1, 4, 3, 8), Shape(1, 3, 1, 4, -1, 8), Shape(9, 2, 1, 4, 2, 8),
   [Shape(1, 2, 1, 4, 2, 8) EXCEPT !.plain = FALSE],
   [Shape(1, 2, 1, 4, 2, 8) EXCEPT !.inter = 64]}

MCPrivateBlocks == {-1, 0, 2}

=============================================================================
