-------------------------- MODULE MCReleaseInstall --------------------------
(***************************************************************************)
(* Two concurrent installers, each of either kind, on a cache that may     *)
(* already hold an install, and a set of releases that are canonical,      *)
(* mixed, badly packed or badly declared in one respect each.              *)
(***************************************************************************)
EXTENDS ReleaseInstall

MCDigests == {"d1", "d2"}

Both == <<"manifest", "archive">>

Fixture(name, data) ==
    [name |-> name, logical |-> <<name>>, size |-> 1, data |-> data, category |-> "regression", tokens |-> 1]
Artifact(name, path, data) ==
    [name |-> name, logical |-> path, size |-> 1, data |-> data, category |-> "canonical", tokens |-> 1]

Fixtures(bytes, digest) ==
    [bytes |-> bytes, schema |-> "fixtures", golden |-> "v2", digest |-> digest, vocab |-> 2,
     artifacts |-> <<Fixture(1, "x"), Fixture(2, "y")>>, entrypoints |-> <<>>,
     expected |-> <<[id |-> 1, role |-> "baseline"], [id |-> 2, role |-> "diagnostic"]>>, calibrated |-> <<1>>]
Layered(bytes, digest) ==
    [bytes |-> bytes, schema |-> "layered", golden |-> "v2", digest |-> digest, vocab |-> 2,
     artifacts |-> <<Artifact(0, <<1, 2>>, "x"), Artifact(1, <<2>>, "y")>>, entrypoints |-> <<<<2>>>>,
     expected |-> <<>>, calibrated |-> <<>>]

Entry(name, data) == [name |-> name, plain |-> TRUE, size |-> 1, held |-> 1, data |-> data]
Pack(digest, entries) ==
    [digest |-> digest, gzip |-> TRUE, entries |-> entries, zeros |-> 2, rest |-> "clean"]

Release(m, a) == [names |-> Both, manifest |-> m, archive |-> a]

GoodFixtures == Pack("d1", <<Entry(1, "x"), Entry(2, "y")>>)
GoodLayered == Pack("d2", <<Entry(0, "x"), Entry(1, "y")>>)

\* Archives that carry the declared digest but are badly packed.
BadPacks ==
    {Pack("d1", <<Entry(1, "x")>>), Pack("d1", <<Entry(2, "y"), Entry(1, "x")>>),
     Pack("d1", <<Entry(1, "x"), Entry(1, "x"), Entry(2, "y")>>),
     Pack("d1", <<Entry(1, "x"), Entry(2, "z")>>), Pack("d1", <<Entry(1, "x"), Entry(2, "y"), Entry(3, "z")>>),
     [GoodFixtures EXCEPT !.zeros = 1], [GoodFixtures EXCEPT !.rest = "more"], [GoodFixtures EXCEPT !.gzip = FALSE]}

MCReleases ==
    {Release(Fixtures(1, "d1"), GoodFixtures), Release(Layered(2, "d2"), GoodLayered),
     \* the same archive under another manifest, and an archive of another release
     Release([Fixtures(1, "d1") EXCEPT !.bytes = 3], GoodFixtures), Release(Fixtures(1, "d1"), GoodLayered),
     \* an asset too many, an incomplete calibration
     [Release(Fixtures(1, "d1"), GoodFixtures) EXCEPT !.names = <<"manifest", "archive", "extra">>],
     Release([Fixtures(4, "d1") EXCEPT !.calibrated = <<>>], GoodFixtures),
     \* a path under another, an entrypoint that is not listed
     Release([Layered(5, "d2") EXCEPT !.artifacts[1].logical = <<2>>, !.artifacts[2].logical = <<2, 1>>], GoodLayered),
     Release([Layered(6, "d2") EXCEPT !.entrypoints = <<<<9>>>>], GoodLayered),
     \* a bundle whose archive holds other bytes, another order or one member more
     Release(Layered(2, "d2"), Pack("d2", <<Entry(0, "x"), Entry(1, "z")>>)),
     Release(Layered(2, "d2"), Pack("d2", <<Entry(0, "x"), Entry(1, "y"), Entry(2, "z")>>)),
     Release(Layered(2, "d2"), Pack("d2", <<Entry(0, "x")>>))}
    \cup {Release(Fixtures(1, "d1"), p) : p \in BadPacks}

Tree(manifest, files) == Dir(manifest, files)
MCPriors ==
    {[d \in MCDigests |-> NoTree],
     [d \in MCDigests |-> IF d = "d1" THEN Tree(1, {[path |-> <<1>>, data |-> "x"], [path |-> <<2>>, data |-> "y"]})
                          ELSE Tree(2, {[path |-> <<1, 2>>, data |-> "x"], [path |-> <<2>>, data |-> "y"]})],
     [d \in MCDigests |-> IF d = "d1" THEN Tree(1, {[path |-> <<1>>, data |-> "x"]})
                          ELSE [kind |-> "other", manifest |-> 0, files |-> {}]]}
=============================================================================
