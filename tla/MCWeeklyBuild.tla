---------------------------- MODULE MCWeeklyBuild ---------------------------
(* WeeklyBuild for TLC: a release of schema 2, three Debian states, base    *)
(* images that come, lose their digest or are withdrawn for one codename,    *)
(* kernels replaced in place or withdrawn.                                   *)
EXTENDS WeeklyBuild

InRelease(v, c, d, s) == [signed |-> s, origin |-> "Debian", suite |-> "stable",
                          version |-> v, codename |-> c, date |-> d]
MCInReleases == {InRelease(<<12>>, "old", 1, TRUE), InRelease(<<13, 1>>, "new", 2, TRUE),
                 InRelease(<<13, 2>>, "new", 3, TRUE), InRelease(<<13, 2>>, "new", 3, FALSE)}

BaseAsset(c, a, k, d) == [codename |-> c, armbian |-> a, kernel |-> k, digest |-> d]
Release(c, assets) == [draft |-> FALSE, prerelease |-> FALSE, codename |-> c, assets |-> assets]
Draft(c, assets) == [Release(c, assets) EXCEPT !.draft = TRUE]
OldBase == Release("old", {BaseAsset("old", <<26>>, <<1>>, 9)})
FirstBase == {OldBase, Release("new", {BaseAsset("new", <<25>>, <<1>>, 1)})}
MCBaseLists ==
    {FirstBase,
     {OldBase, Release("new", {BaseAsset("new", <<25>>, <<1>>, 1), BaseAsset("new", <<26>>, <<1>>, 2),
                               BaseAsset("new", <<26>>, <<2>>, 3), BaseAsset("old", <<29>>, <<1>>, 5)}),
               Draft("new", {BaseAsset("new", <<28>>, <<1>>, 4)})},
     {OldBase, Release("new", {BaseAsset("new", <<25>>, <<1>>, 1), BaseAsset("new", <<27>>, <<1>>, 0)})},
     {OldBase}}

MCPinnedKernel == [name |-> "5.10.268.tar.gz", version |-> <<5, 10, 268>>, digest |-> 1]
Kernel(n, d) == [name |-> n, digest |-> d]
MCKernelLists == {{Kernel("5.10.268.tar.gz", 1)},
                  {Kernel("5.10.268.tar.gz", 3), Kernel("5.10.269.tar.gz", 2)},
                  {Kernel("5.10.269.tar.gz", 2)}}
MCFirstUpstream ==
    [inrelease |-> InRelease(<<13, 1>>, "new", 2, TRUE),
     base |-> FirstBase,
     kernel |-> {Kernel("5.10.268.tar.gz", 1)}, builder |-> 1]
MCOldRelease == [schema |-> 2, armbian |-> <<25>>, base |-> 1,
                 kernelVersion |-> <<5, 10, 200>>, kernelDigest |-> 0,
                 debian |-> [major |-> <<12>>, codename |-> "old"]]
=============================================================================
