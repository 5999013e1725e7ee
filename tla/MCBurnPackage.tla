---------------------------- MODULE MCBurnPackage ---------------------------
(* BurnPackage for TLC: file systems of up to five blocks with UUID 1, a    *)
(* later build with UUID 2 and one of another length, two device trees.     *)
EXTENDS BurnPackage

MCUuidOf == [s \in {11, 12} |-> s - 10]
MCFirstRoots == {<<11>> \o t : t \in UNION {[1..n -> {0, 1}] : n \in 0..4}}
MCLaterRoots == {<<12, 0, 1>>, <<11, 1, 0, 0>>}
=============================================================================
