-------------------------- MODULE ModelResolution --------------------------
(***************************************************************************)
(* One model source resolved to one artifact set                           *)
(* (crates/vllm-oxide/src/loader/model_identity.rs, loader.rs, config.rs,  *)
(* models/registry.rs).  A name (a Hub branch or tag, a cached ref, a      *)
(* local link) designates a snapshot: an immutable directory of files.     *)
(* Names move and cached files disappear while a resolution is under way;  *)
(* a cache may hold what an interrupted download left; the directory of a  *)
(* local checkpoint is read-only, as the mmap boundary of loader.rs asks.  *)
(* An artifact is the pair <<snapshot, file>> it is read from; the         *)
(* contents of files are the fields of the snapshot.                       *)
(***************************************************************************)
EXTENDS SeqOrder, SequencesExt

CONSTANTS
  Snapshot,           \* snapshot -> [files, shards, arch, dtype, model, generation, vocab]
  Published,          \* the snapshots "main" may move to
  Sources,            \* [mode : {"local", "online", "offline"}, revision, dtype]
  Unsafe,             \* names with a component that is not a plain one
  Shards              \* file names that end in .safetensors, in path order

Snapshots == DOMAIN Snapshot

(* An index names safetensors files, or leaves the directory.              *)
ASSUME ResolutionShape ==
  /\ Published \subseteq Snapshots /\ Snapshots # {}
  /\ \A r \in Sources : /\ r.mode \in {"local", "online", "offline"}
                       /\ r.revision \in Snapshots \cup {"main"}
  /\ Shards \in Seq(STRING) /\ NoDuplicates(Shards) /\ "model" \in Range(Shards)
  /\ Range(Shards) \cap (Unsafe \cup {"config", "tokenizer", "generation", "index"}) = {}
  /\ \A s \in Snapshots :
       /\ Snapshot[s].shards \in Seq(Range(Shards) \cup Unsafe)
       /\ IsFiniteSet(Snapshot[s].model["eos"].ids) /\ IsFiniteSet(Snapshot[s].generation["eos"].ids)

VARIABLES
  source,             \* Source and the requested dtype
  ref,                \* the snapshot "main" designates now
  cached,             \* snapshot -> its files in the local Hub cache
  pc,                 \* next call of resolve and of LLM::new
  pinned,             \* snapshot of the identity, "none" before it is known
  listing,            \* HubRevision.files
  todo,               \* shards still to get
  configFile, tokenizer, generation,\* artifacts taken, <<>> for none
  weights,            \* weight_paths
  dtype,              \* the resolved dtype
  stops,              \* SpecialTokenIds.eos
  named,              \* history: what the requested name designated meanwhile
  disturbed           \* history: a call failed for a reason outside the model

hubVars == <<ref, cached>>
takenVars == <<configFile, tokenizer, generation, weights>>
resVars == <<source, hubVars, pc, pinned, listing, todo, takenVars, dtype, stops, named, disturbed>>

(* What the requested revision designates now.                             *)
Designated == IF source.revision = "main" THEN ref ELSE source.revision

(* What an online resolution of s leaves in the cache when it is cut short *)
(* after its first n downloads.                                            *)
FetchOrder(s) ==
  LET files == Snapshot[s].files IN
  Retain(<<"config", "tokenizer", "generation", "index">>, files)
    \o Retain(Shards, files \cap Range(Snapshot[s].shards))
    \o (IF "index" \in files THEN <<>> ELSE Retain(<<"model">>, files))

CutShort(n) ==
  [s \in Snapshots |-> {FetchOrder(s)[i] : i \in {j \in DOMAIN FetchOrder(s) : j <= n}}]

ResInit ==
  /\ source \in Sources
  /\ ref \in Snapshots
  /\ cached \in {CutShort(n) : n \in 0 .. Len(Shards) + 4}
  /\ pc = "dtype"
  /\ pinned = "none" /\ listing = {} /\ todo = <<>>
  /\ configFile = <<>> /\ tokenizer = <<>> /\ generation = <<>> /\ weights = <<>>
  /\ dtype = "none"
  /\ stops = <<>>
  /\ named = {Designated}
  /\ disturbed = FALSE

Hub == source.mode # "local"

To(next) == pc' = next /\ UNCHANGED <<source, hubVars, named>>

(* A refusal leaves what was taken; only the pc matters.                   *)
Refuse ==
  /\ To("failed")
  /\ UNCHANGED <<pinned, listing, todo, takenVars, dtype, stops, disturbed>>

Disturbed ==
  /\ To("failed")
  /\ disturbed' = TRUE
  /\ UNCHANGED <<pinned, listing, todo, takenVars, dtype, stops>>

Same == UNCHANGED <<pinned, listing, todo, takenVars, dtype, stops, disturbed>>

-----------------------------------------------------------------------------
Supported(d) == d \in {"BF16", "F16"}

(* validate_requested_dtype.                                               *)
CheckDtype ==
  /\ pc = "dtype"
  /\ IF source.dtype = "none" \/ Supported(source.dtype)
       THEN To(IF Hub THEN "revision" ELSE "root") /\ Same
       ELSE Refuse

(* select_dtype; "none" stands for a refusal.                              *)
SelectDtype(s) ==
  IF source.dtype # "none" THEN source.dtype
  ELSE IF Supported(Snapshot[s].dtype) THEN Snapshot[s].dtype ELSE "none"

-----------------------------------------------------------------------------
(* resolve_with_hub.                                                       *)

(* resolve_revision: the Hub's metadata for a revision, or the cached      *)
(* snapshot behind it; from here on the snapshot is fixed.                 *)
ResolveRevision ==
  /\ pc = "revision"
  /\ \/ /\ source.mode = "online"
        /\ Disturbed
     \/ LET s == Designated
            files == IF source.mode = "online" THEN Snapshot[s].files ELSE cached[s]
        IN IF source.mode = "offline" /\ "config" \notin files
             THEN Disturbed
             ELSE /\ pinned' = s
                  /\ listing' = files
                  /\ To("required")
                  /\ UNCHANGED <<todo, takenVars, dtype, stops, disturbed>>

CheckRequired ==
  /\ pc = "required"
  /\ IF {"config", "tokenizer"} \subseteq listing THEN To("config") /\ Same ELSE Refuse

(* Mutant of Got: fetches by the requested revision, not by the commit.    *)
MutGot(file) == <<Designated, file>>

(* HubAccess::get: a file of the pinned snapshot.                          *)
Got(file) == <<pinned, file>>

(* An online get may fail, an offline one needs the file still cached.     *)
Available(file) ==
  source.mode = "online" \/ file \in cached[Got(file)[1]]

Downloads(file) ==
  cached' = IF source.mode = "online"
              THEN [cached EXCEPT ![Got(file)[1]] = @ \cup {file}] ELSE cached

Fetch(from, file, next) ==
  /\ pc = from
  /\ \/ Disturbed
     \/ /\ Available(file)
        /\ Downloads(file)
        /\ pc' = next
        /\ configFile' = IF file = "config" THEN Got(file) ELSE configFile
        /\ tokenizer' = IF file = "tokenizer" THEN Got(file) ELSE tokenizer
        /\ generation' = IF file = "generation" THEN Got(file) ELSE generation
        /\ weights' = IF file \in Range(Shards) THEN Append(weights, Got(file)) ELSE weights
        /\ UNCHANGED <<source, ref, named, pinned, listing, todo, dtype, stops, disturbed>>

GetConfig == Fetch("config", "config", "tokenizer")

GetTokenizer ==
  Fetch("tokenizer", "tokenizer", IF "generation" \in listing THEN "generation" ELSE "weights")

GetGeneration == Fetch("generation", "generation", "weights")

(* parse_index_shard_names: the distinct shard names, sorted; <<>> for a   *)
(* refusal (an empty map, a name outside the directory).                   *)
ShardNames(s) ==
  IF Range(Snapshot[s].shards) \cap Unsafe # {} THEN <<>>
  ELSE Retain(Shards, Range(Snapshot[s].shards))

WeightRoute(files) ==
  IF "index" \in files THEN "index" ELSE IF "model" \in files THEN "single" ELSE "bare"

ChooseWeights ==
  /\ pc = "weights"
  /\ IF WeightRoute(listing) = "bare" THEN Refuse
     ELSE To(WeightRoute(listing)) /\ Same

GetSingle == Fetch("single", "model", "select")

GetIndex ==
  /\ pc = "index"
  /\ \/ Disturbed
     \/ /\ Available("index")
        /\ Downloads("index")
        /\ LET names == ShardNames(Got("index")[1]) IN
           /\ todo' = names
           /\ pc' = IF names # <<>> THEN "shards" ELSE "failed"
        /\ UNCHANGED <<source, ref, named, pinned, listing, takenVars, dtype, stops, disturbed>>

(* One shard: it must be listed, then it is fetched.                       *)
GetShard ==
  /\ pc = "shards"
  /\ IF todo = <<>> THEN To("select") /\ Same
     ELSE IF Head(todo) \notin listing THEN Refuse
     ELSE \/ Disturbed
          \/ /\ Available(Head(todo))
             /\ Downloads(Head(todo))
             /\ weights' = Append(weights, Got(Head(todo)))
             /\ todo' = Tail(todo)
             /\ UNCHANGED <<source, ref, named, pc, pinned, listing, configFile, tokenizer,
                            generation, dtype, stops, disturbed>>

(* The configuration is read from its path, and the dtype chosen.          *)
SelectHubDtype ==
  /\ pc = "select"
  /\ IF source.mode = "offline" /\ "config" \notin cached[configFile[1]] THEN Disturbed
     ELSE IF SelectDtype(configFile[1]) = "none" THEN Refuse
     ELSE /\ dtype' = SelectDtype(configFile[1])
          /\ To("load")
          /\ UNCHANGED <<pinned, listing, todo, takenVars, stops, disturbed>>

-----------------------------------------------------------------------------
(* resolve_local: the root is made canonical once.                         *)

Canonicalize ==
  /\ pc = "root"
  /\ pinned' = Designated
  /\ listing' = Snapshot[Designated].files
  /\ To("local")
  /\ UNCHANGED <<todo, takenVars, dtype, stops, disturbed>>

(* resolve_local_shards: the index, else the single file, else every       *)
(* safetensors file in path order.                                         *)
LocalShards(s) ==
  LET files == Snapshot[s].files
      names == CASE WeightRoute(files) = "index" -> ShardNames(s)
                 [] WeightRoute(files) = "single" -> <<"model">>
                 [] OTHER -> Retain(Shards, files)
  IN IF Range(names) \subseteq files THEN names ELSE <<>>

ReadLocal ==
  /\ pc = "local"
  /\ IF \/ ~({"config", "tokenizer"} \subseteq listing)
        \/ LocalShards(pinned) = <<>>
        \/ SelectDtype(pinned) = "none"
       THEN Refuse
       ELSE /\ configFile' = <<pinned, "config">>
            /\ tokenizer' = <<pinned, "tokenizer">>
            /\ generation' = IF "generation" \in listing THEN <<pinned, "generation">> ELSE <<>>
            /\ weights' = [i \in DOMAIN LocalShards(pinned) |-> <<pinned, LocalShards(pinned)[i]>>]
            /\ dtype' = SelectDtype(pinned)
            /\ To("load")
            /\ UNCHANGED <<pinned, listing, todo, stops, disturbed>>

-----------------------------------------------------------------------------
(* LLM::new: load_tokenizer, special_token_ids, the factory of the         *)
(* architecture, the mapping of the weights.  Every file is opened by the  *)
(* path that was resolved.                                                 *)

Present(artifact) ==
  IF Hub THEN artifact[2] \in cached[artifact[1]] ELSE artifact[2] \in Snapshot[artifact[1]].files

(* A field of generation_config.json, else of config.json.                 *)
Declared(kind) ==
  IF generation # <<>> /\ Snapshot[generation[1]].generation[kind].has
    THEN Snapshot[generation[1]].generation[kind]
    ELSE Snapshot[configFile[1]].model[kind]

(* special_token_ids: an end token, and every declared id maps to a token  *)
(* of the tokenizer and back.                                              *)
SpecialOK ==
  /\ Declared("eos").has /\ Declared("eos").ids # {}
  /\ \A kind \in {"eos", "bos", "pad"} : Declared(kind).ids \subseteq Snapshot[tokenizer[1]].vocab

LoadTokenizer ==
  /\ pc = "load"
  /\ IF ~Present(tokenizer) THEN Disturbed
     ELSE IF ~SpecialOK THEN Refuse
     ELSE /\ stops' = SetToSeq(Declared("eos").ids)
          /\ To("factory")
          /\ UNCHANGED <<pinned, listing, todo, takenVars, dtype, disturbed>>

(* resolved_factory: the first architecture must be registered.            *)
FindFactory ==
  /\ pc = "factory"
  /\ IF Snapshot[configFile[1]].arch = "Qwen3ForCausalLM" THEN To("map") /\ Same ELSE Refuse

(* load_resolved_weights_vb.                                               *)
MapWeights ==
  /\ pc = "map"
  /\ IF \A i \in DOMAIN weights : Present(weights[i]) THEN To("loaded") /\ Same ELSE Disturbed

-----------------------------------------------------------------------------
(* External: a push moves the branch (or the cached ref, or the link), and *)
(* the Hub cache is cleaned.                                               *)
Running == pc \notin {"loaded", "failed"}

MoveRef(s) ==
  /\ Running /\ ref # s
  /\ ref' = s
  /\ named' = named \cup (IF source.revision = "main" /\ pinned = "none" THEN {s} ELSE {})
  /\ UNCHANGED <<source, cached, pc, pinned, listing, todo, takenVars, dtype, stops, disturbed>>

Prune ==
  /\ Running /\ Hub
  /\ cached' = [s \in Snapshots |-> {}]
  /\ UNCHANGED <<source, ref, named, pc, pinned, listing, todo, takenVars, dtype, stops, disturbed>>

ResolveStep ==
  \/ CheckDtype \/ ResolveRevision \/ CheckRequired \/ GetConfig \/ GetTokenizer
  \/ GetGeneration \/ ChooseWeights \/ GetSingle \/ GetIndex \/ GetShard \/ SelectHubDtype
  \/ Canonicalize \/ ReadLocal \/ LoadTokenizer \/ FindFactory \/ MapWeights

-----------------------------------------------------------------------------
Artifacts == {configFile, tokenizer, generation} \cup Range(weights)

(* Every artifact an engine is built from, whichever file it is and        *)
(* whenever it was fetched, comes from the one snapshot the identity       *)
(* names; the requested name designated that snapshot before the first     *)
(* artifact was taken, however often it moved afterwards.                  *)
OneIdentity ==
  pc = "loaded" =>
    /\ \A a \in Artifacts \ {<<>>} : a[1] = pinned
    /\ pinned \in named

(* The weights of a loaded model are those its snapshot publishes: exactly *)
(* the shards of its index when it has one, each once, all present; a      *)
(* stray file beside an index is never mixed in.                           *)
WeightsAreComplete ==
  pc = "loaded" =>
    LET s == Snapshot[pinned]
        taken == {weights[i][2] : i \in DOMAIN weights}
    IN /\ Cardinality(taken) = Len(weights)
       /\ taken # {} /\ taken \subseteq s.files \ Unsafe
       /\ "index" \in s.files => taken = Range(s.shards)
       /\ ("index" \notin s.files /\ "model" \in s.files) => taken = {"model"}

(* What the engine relies on: a dtype the kernels support, and at least    *)
(* one stop token, every stop token one the tokenizer knows, taken from    *)
(* the generation configuration whenever that declares one.                *)
ContractHolds ==
  pc = "loaded" =>
    LET s == Snapshot[pinned] IN
    /\ Supported(dtype)
    /\ Range(stops) # {} /\ Range(stops) \subseteq s.vocab
    /\ ("generation" \in s.files /\ s.generation["eos"].has)
         => Range(stops) = s.generation["eos"].ids

(* A checkpoint is turned down only for something wrong with it: a missing *)
(* artifact, an unsupported dtype or architecture, an unusable stop token. *)
Sound(s) ==
  LET r == Snapshot[s]
      eos == IF "generation" \in r.files /\ r.generation["eos"].has
               THEN r.generation["eos"] ELSE r.model["eos"]
  IN /\ {"config", "tokenizer"} \subseteq r.files
     /\ IF "index" \in r.files
          THEN r.shards # <<>> /\ Range(r.shards) \subseteq r.files \ Unsafe
          ELSE "model" \in r.files \/ (~Hub /\ r.files \cap Range(Shards) # {})
     /\ source.dtype # "none" \/ r.dtype \in {"BF16", "F16"}
     /\ r.arch = "Qwen3ForCausalLM"
     /\ eos.has /\ eos.ids # {}
     /\ \A kind \in {"eos", "bos", "pad"} :
          (r.model[kind].ids \cup r.generation[kind].ids) \subseteq r.vocab

RefusalHasCause ==
  pc = "failed" /\ ~disturbed =>
    \/ source.dtype \notin {"none", "BF16", "F16"}
    \/ ~Sound(pinned)
    \/ source.mode = "offline" /\ listing # Snapshot[pinned].files

=============================================================================
