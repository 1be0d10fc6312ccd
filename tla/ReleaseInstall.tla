--------------------------- MODULE ReleaseInstall ---------------------------
(***************************************************************************)
(* How a golden release reaches the cache.  download_release_with          *)
(* (download.rs) fetches two assets from a release that may be republished *)
(* meanwhile; install_transport (release_transport.rs) reads them from a   *)
(* local bundle that may be rewritten meanwhile.  Both extract into a      *)
(* staging directory of their own and publish it under the archive's       *)
(* digest by one rename that never replaces, so that any number of         *)
(* installers, of both kinds, may run on one cache.                        *)
(*                                                                         *)
(* A file's content stands for its SHA-256; file names are numbers, in     *)
(* their byte order, and logical paths are sequences of parts of which     *)
(* none is a prefix of another.                                            *)
(***************************************************************************)
EXTENDS Naturals, Sequences, FiniteSets, SequencesExt

CONSTANTS
    Installers,     \* running installers, each in a process of its own
    Releases,       \* what the release or bundle may hold
    Priors,         \* what the cache may hold at first: digest -> tree
    Digests,        \* digests of the archives
    Tag,            \* the release tag asked for
    FileLimit, TotalLimit, HeaderLimit, MaxU64,
    MaxRepublish    \* bound: how often the release changes

ASSUME InstallBounds ==
    {FileLimit, TotalLimit, HeaderLimit, MaxU64, MaxRepublish} \subseteq Nat

NoTree == [kind |-> "none", manifest |-> 0, files |-> {}]

\* What may stand under a name of the cache: nothing, or something with one
\* file at each path.
IsTree(tree) ==
    /\ tree = [kind |-> tree.kind, manifest |-> tree.manifest, files |-> tree.files]
    /\ tree.kind = "none" => tree = NoTree
    /\ \A f, g \in tree.files :
           f = [path |-> f.path, data |-> f.data] /\ (f.path = g.path => f = g)

\* Two manifests of the same bytes are one manifest; a damaged archive has
\* no declared digest.
ASSUME ReleaseShape ==
    /\ "none" \notin Digests
    /\ \A r \in Releases :
           /\ r.manifest.digest \in Digests
           /\ r.manifest.artifacts \in Seq(ToSet(r.manifest.artifacts))
           /\ r.archive.entries \in Seq(ToSet(r.archive.entries))
           /\ \A q \in Releases : q.manifest.bytes = r.manifest.bytes => q.manifest = r.manifest
    /\ \A p \in Priors : DOMAIN p = Digests /\ \A d \in Digests : IsTree(p[d])

VARIABLES
    remote,     \* the release (or bundle) as it is now
    changes,    \* times it was republished
    installed,  \* cache/goldens-v0.2: digest -> tree
    kind,       \* installer -> "download" or "transport"
    run         \* installer -> its program counter and locals

instVars == <<remote, changes, installed, kind, run>>

Dir(bytes, files) == [kind |-> "dir", manifest |-> bytes, files |-> files]
NoArchive == [digest |-> "none", gzip |-> FALSE, entries |-> <<>>, zeros |-> 0, rest |-> "clean"]
NoManifest == [bytes |-> 0]

Idle == [pc |-> "begin", manifest |-> NoManifest, archive |-> NoArchive,
         at |-> 0, stage |-> NoTree, disturbed |-> FALSE]

InstInit ==
    /\ remote \in Releases /\ changes = 0
    /\ installed \in Priors
    /\ kind \in [Installers -> {"download", "transport"}]
    /\ run = [i \in Installers |-> Idle]

-----------------------------------------------------------------------------
(* What a manifest must say before anything is extracted. *)

AssetNames(names) == Len(names) = 2 /\ ToSet(names) = {"manifest", "archive"}

Distinct(s) == Cardinality(ToSet(s)) = Len(s)

\* validate_release_manifest: every and only the expected fixtures, and all
\* the expected baselines calibrated.
ReleaseManifestOK(m) ==
    /\ m.schema = "fixtures" /\ m.golden = Tag
    /\ LET expected == [k \in DOMAIN m.expected |-> m.expected[k].id]
           generated == [k \in DOMAIN m.artifacts |-> m.artifacts[k].name]
       IN Distinct(expected) /\ Distinct(generated) /\ ToSet(expected) = ToSet(generated)
    /\ {x.id : x \in {y \in ToSet(m.expected) : y.role = "baseline"}} = ToSet(m.calibrated)

\* Byte order of logical paths.
PathLess(p, q) ==
    \/ IsStrictPrefix(p, q)
    \/ \E k \in DOMAIN p \cap DOMAIN q :
           p[k] < q[k] /\ \A j \in 1..(k - 1) : p[j] = q[j]

TotalSize(m) == FoldLeft(LAMBDA n, a : n + a.size, 0, m.artifacts)

\* parse_manifest: paths in order, members numbered, sizes bounded, no path
\* under another, the entrypoints listed.
InventoryOK(m) ==
    /\ m.schema = "layered" /\ m.golden = Tag /\ m.artifacts # <<>>
    /\ \A k \in DOMAIN m.artifacts :
           LET a == m.artifacts[k]
           IN /\ a.name = k - 1 /\ a.size <= FileLimit
              /\ k > 1 => PathLess(m.artifacts[k - 1].logical, a.logical)
              /\ \A j \in 1..(k - 1) : ~IsStrictPrefix(m.artifacts[j].logical, a.logical)
    /\ TotalSize(m) <= MaxU64 /\ TotalSize(m) <= TotalLimit
    /\ ToSet(m.entrypoints) \subseteq {a.logical : a \in ToSet(m.artifacts)}

ManifestOK(i, m) == IF kind[i] = "download" THEN ReleaseManifestOK(m) ELSE InventoryOK(m)

\* fixture_size_limit, in checked 64-bit arithmetic: 0 when it overflows.
FixtureSizeLimit(m, a) ==
    LET payload == IF a.category = "canonical"
                   THEN a.tokens * m.vocab * 4 + a.tokens * 8 + 8
                   ELSE a.tokens * (8 + 5 * 8 + 5 * 4) + 8
    IN IF payload + HeaderLimit > MaxU64 THEN 0 ELSE payload + HeaderLimit

-----------------------------------------------------------------------------
(* Trees. *)

\* Where an artifact lies in the tree an installer builds.
Place(i, a) == IF kind[i] = "download" THEN <<a.name>> ELSE a.logical

Declared(i, m) == Dir(m.bytes, {[path |-> Place(i, a), data |-> a.data] : a \in ToSet(m.artifacts)})

\* verify_install, verify_tree: a real directory with exactly the declared
\* files, this manifest byte for byte, and every declared content.
VerifyTree(i, tree, m) ==
    /\ tree.kind = "dir" /\ tree.manifest = m.bytes
    /\ {f.path : f \in tree.files} = {Place(i, a) : a \in ToSet(m.artifacts)}
    /\ \A a \in ToSet(m.artifacts) : [path |-> Place(i, a), data |-> a.data] \in tree.files

\* Drop of the staging guard: whatever stands under its own name is removed.
\* Dropping runs on every return, the successful ones after a rename included.
Leave(i, pc) == run' = [run EXCEPT ![i].pc = pc, ![i].stage = NoTree]

Refuse(i) == Leave(i, "err") /\ UNCHANGED <<remote, changes, installed, kind>>

Accept(i) == Leave(i, "ok") /\ UNCHANGED <<remote, changes, installed, kind>>

Move(i, pc, r) == run' = [run EXCEPT ![i] = [r EXCEPT !.pc = pc]]
                  /\ UNCHANGED <<remote, changes, installed, kind>>

-----------------------------------------------------------------------------
(* Fetching. *)

\* The names are read first; the downloader stages before it fetches.
Begin(i) ==
    /\ run[i].pc = "begin"
    /\ IF ~AssetNames(remote.names) THEN Refuse(i)
       ELSE Move(i, "manifest", [run[i] EXCEPT !.stage = IF kind[i] = "download" THEN Dir(0, {}) ELSE NoTree])

\* The manifest's bytes are kept; they are what the tree is verified against.
\* A fetched manifest lies in the staging directory, where it stays.
FetchManifest(i) ==
    /\ run[i].pc = "manifest"
    /\ LET m == remote.manifest
       IN IF "manifest" \notin ToSet(remote.names) \/ ~ManifestOK(i, m) THEN Refuse(i)
          ELSE Move(i, "archive",
                    [run[i] EXCEPT !.manifest = m,
                                   !.stage = IF kind[i] = "download" THEN Dir(m.bytes, {}) ELSE NoTree])

\* The archive is copied, the names are read again, and the digest of the
\* copy is compared; the transport digests the bundle's file in place.
\* Delivery may damage it.
FetchArchive(i) ==
    /\ run[i].pc = "archive"
    /\ \E damaged \in {FALSE, kind[i] = "download"} :
           LET archive == IF damaged THEN NoArchive ELSE remote.archive
           IN IF \/ "archive" \notin ToSet(remote.names)
                 \/ archive.digest # run[i].manifest.digest
              THEN /\ run' = [run EXCEPT ![i].pc = "err", ![i].stage = NoTree, ![i].disturbed = @ \/ damaged]
                   /\ UNCHANGED <<remote, changes, installed, kind>>
              ELSE Move(i, IF kind[i] = "download" THEN "recheck" ELSE "lookup",
                        [run[i] EXCEPT !.archive = archive, !.at = 1])

RecheckNames(i) ==
    /\ run[i].pc = "recheck"
    /\ IF AssetNames(remote.names) THEN Move(i, "extract", run[i]) ELSE Refuse(i)

\* The transport looks for an install before it stages: a match is returned,
\* anything else in its place is an error.
LookUp(i) ==
    /\ run[i].pc = "lookup"
    /\ LET found == installed[run[i].manifest.digest]
       IN IF found.kind = "none" THEN Move(i, "stage", run[i])
          ELSE IF VerifyTree(i, found, run[i].manifest) THEN Accept(i) ELSE Refuse(i)

\* A staging directory of its own, and the bundle's archive opened again: it
\* is read now, not the file that was digested.
Stage(i) ==
    /\ run[i].pc = "stage"
    /\ Move(i, "extract", [run[i] EXCEPT !.stage = Dir(0, {}), !.archive = remote.archive])

-----------------------------------------------------------------------------
(* Extraction, one member at a time. *)

\* download.rs: the member is a plain USTAR file with normalised metadata, in
\* order, declared, within its limit, whole, and of the declared content.
\* release_transport.rs: the member's header is the one the artifact must have,
\* so that name, order and size follow from the manifest.
MemberOK(i) ==
    LET r == run[i]
        e == r.archive.entries[r.at]
    IN IF kind[i] = "download"
       THEN /\ e.plain
            /\ r.at > 1 => r.archive.entries[r.at - 1].name < e.name
            /\ \E a \in ToSet(r.manifest.artifacts) :
                   /\ a.name = e.name
                   /\ e.size <= FixtureSizeLimit(r.manifest, a)
                   /\ e.held = e.size /\ e.data = a.data
       ELSE /\ r.at <= Len(r.archive.entries)
            /\ LET a == r.manifest.artifacts[r.at]
               IN e.plain /\ e.name = a.name /\ e.size = a.size /\ e.held = e.size /\ e.data = a.data

Members(i) == IF kind[i] = "download" THEN Len(run[i].archive.entries)
              ELSE Len(run[i].manifest.artifacts)

MemberFile(i) ==
    LET r == run[i]
        e == r.archive.entries[r.at]
    IN [path |-> IF kind[i] = "download" THEN <<e.name>> ELSE r.manifest.artifacts[r.at].logical,
        data |-> e.data]

ExtractMember(i) ==
    /\ run[i].pc = "extract" /\ run[i].at <= Members(i)
    /\ IF run[i].archive.gzip /\ MemberOK(i)
       THEN Move(i, "extract", [run[i] EXCEPT !.at = @ + 1, !.stage.files = @ \cup {MemberFile(i)}])
       ELSE Refuse(i)

\* At least two zero blocks end the archive, nothing but zeros follows, nothing
\* follows the compressed member; the transport has no member left over.
EndOK(i) ==
    LET archive == run[i].archive
    IN /\ archive.gzip /\ archive.zeros >= 2 /\ archive.rest = "clean"
       /\ kind[i] = "transport" => Len(archive.entries) = Len(run[i].manifest.artifacts)

MutFinishExtract(i) ==
    /\ run[i].pc = "extract" /\ run[i].at > Members(i)
    /\ LET stage == [run[i].stage EXCEPT !.manifest = run[i].manifest.bytes]
       IN IF EndOK(i)
          THEN Move(i, IF kind[i] = "download" THEN "exists" ELSE "rename", [run[i] EXCEPT !.stage = stage])
          ELSE Refuse(i)

\* The end of the archive, then the whole staged tree is verified (with the
\* manifest written last by the transport), declared files that no member
\* brought included.
FinishExtract(i) ==
    /\ run[i].pc = "extract" /\ run[i].at > Members(i)
    /\ LET stage == [run[i].stage EXCEPT !.manifest = run[i].manifest.bytes]
       IN IF EndOK(i) /\ VerifyTree(i, stage, run[i].manifest)
          THEN Move(i, IF kind[i] = "download" THEN "exists" ELSE "rename", [run[i] EXCEPT !.stage = stage])
          ELSE Refuse(i)

-----------------------------------------------------------------------------
(* Publication. *)

Final(i) == run[i].manifest.digest

CheckExists(i) ==
    /\ run[i].pc = "exists"
    /\ IF installed[Final(i)].kind = "none" THEN Move(i, "rename", run[i])
       ELSE IF VerifyTree(i, installed[Final(i)], run[i].manifest) THEN Accept(i) ELSE Refuse(i)

MutRename(i) ==
    /\ run[i].pc = "rename"
    /\ installed' = [installed EXCEPT ![Final(i)] = run[i].stage]
    /\ Leave(i, "ok")
    /\ UNCHANGED <<remote, changes, kind>>

\* renameat2 with NOREPLACE: the directory appears whole or EXIST is
\* returned, and then the winner's tree is verified instead.
Rename(i) ==
    /\ run[i].pc = "rename"
    /\ IF installed[Final(i)].kind = "none"
       THEN /\ installed' = [installed EXCEPT ![Final(i)] = run[i].stage]
            /\ Leave(i, "ok")
            /\ UNCHANGED <<remote, changes, kind>>
       ELSE IF VerifyTree(i, installed[Final(i)], run[i].manifest) THEN Accept(i) ELSE Refuse(i)

-----------------------------------------------------------------------------
(* Faults and the next-state relation. *)

Running(i) == run[i].pc \notin {"ok", "err", "killed"}

\* A file system or network call fails (no room included): the guard is dropped.
IoFails(i) ==
    /\ Running(i)
    /\ run' = [run EXCEPT ![i].pc = "err", ![i].stage = NoTree, ![i].disturbed = TRUE]
    /\ UNCHANGED <<remote, changes, installed, kind>>

\* The process is killed: nothing is dropped.
Kill(i) ==
    /\ Running(i)
    /\ run' = [run EXCEPT ![i].pc = "killed", ![i].disturbed = TRUE]
    /\ UNCHANGED <<remote, changes, installed, kind>>

\* The release is republished, or the bundle rewritten.
Republish ==
    /\ changes < MaxRepublish
    /\ \E r \in Releases \ {remote} : remote' = r
    /\ changes' = changes + 1
    /\ UNCHANGED <<installed, kind, run>>

InstallStep(i) ==
    \/ Begin(i) \/ FetchManifest(i) \/ FetchArchive(i) \/ RecheckNames(i)
    \/ LookUp(i) \/ Stage(i) \/ ExtractMember(i) \/ FinishExtract(i)
    \/ CheckExists(i) \/ Rename(i)

InstNext == Republish \/ \E i \in Installers : InstallStep(i) \/ IoFails(i) \/ Kill(i)

InstSpec == InstInit /\ [][InstNext]_instVars

-----------------------------------------------------------------------------
(* Properties. *)

\* What an installer returned stays usable: the directory it names holds
\* exactly the tree its own manifest declares, at the return and for ever
\* after, although the release or bundle changed under it, another installer
\* won the rename, or the cache held something before.
AcceptedIsDeclared ==
    \A i \in Installers :
        run[i].pc = "ok" => installed[Final(i)] = Declared(i, run[i].manifest)

\* A reader of the cache never sees a partial install: whatever stands under a
\* digest was there at first or is the whole tree of a manifest that an
\* installer accepted.
NothingPartialInstalled ==
    \A d \in Digests :
        \/ installed[d].kind = "none" \/ \E p \in Priors : p[d] = installed[d]
        \/ \E i \in Installers, m \in {r.manifest : r \in Releases} :
               m.digest = d /\ ManifestOK(i, m) /\ installed[d] = Declared(i, m)

\* Only a killed process leaves its staging directory behind: every return,
\* also the one of the loser of the rename, removes it.
StagingRemoved ==
    \A i \in Installers : run[i].pc \in {"ok", "err"} => run[i].stage = NoTree

\* What a canonical release is: the manifest is accepted and the archive is
\* the one that the manifest describes.
Canonical(i, r) ==
    /\ AssetNames(r.names) /\ ManifestOK(i, r.manifest)
    /\ r.archive.digest = r.manifest.digest /\ r.archive.gzip
    /\ r.archive.zeros >= 2 /\ r.archive.rest = "clean"
    /\ Len(r.archive.entries) = Len(r.manifest.artifacts)
    /\ \A k \in DOMAIN r.archive.entries :
           LET e == r.archive.entries[k]
               a == r.manifest.artifacts[k]
           IN /\ e.plain /\ e.name = a.name /\ e.size = a.size /\ e.held = a.size /\ e.data = a.data
              /\ kind[i] = "download" => /\ e.size <= FixtureSizeLimit(r.manifest, a)
                                         /\ k > 1 => a.name > r.manifest.artifacts[k - 1].name

\* Concurrency alone never makes an install fail: an undisturbed installer of a
\* canonical, unchanged release, on a cache that held no other tree under its
\* digest, never returns an error, whoever wins the rename.
ConcurrentInstallsAgree ==
    \A i \in Installers :
        (/\ changes = 0 /\ Canonical(i, remote) /\ ~run[i].disturbed
         /\ installed[remote.manifest.digest] \in {NoTree, Declared(i, remote.manifest)})
        => run[i].pc # "err"

\* A published install is immutable: no installer replaces, repairs or removes it.
InstallsAreImmutable ==
    [][\A d \in Digests : installed[d].kind # "none" => installed'[d] = installed[d]]_instVars

\* Installs are whole for everyone: an installer returns the declared tree, a
\* reader never meets a partial one, returns leave no staging directory, and
\* two installers of one release both succeed.
InstallsAreWhole ==
    AcceptedIsDeclared /\ NothingPartialInstalled /\ StagingRemoved /\ ConcurrentInstallsAgree

=============================================================================
