-------------------------- MODULE ChangeDetection ---------------------------
(***************************************************************************)
(* The decisions of the weekly build, as pure operators: what a Debian     *)
(* InRelease file is accepted for (src/src/debian-release.mjs), which      *)
(* upstream assets are chosen (src/src/upstream.mjs and                    *)
(* scripts/resolve-sources.mjs) and whether the outcome may follow the     *)
(* previous release (compareFingerprints in src/src/change-detection.mjs). *)
(*                                                                         *)
(* Versions are non-empty sequences of numbers.  A manifest keeps the      *)
(* fields the decisions read; its fingerprint is the manifest itself.      *)
(***************************************************************************)
EXTENDS Integers, Sequences, FiniteSets

CONSTANTS
    PinnedKernel,   \* [name, version, digest] of config/sources.json
    NoManifest      \* no previous release, or nothing resolved

ASSUME KernelAssumption == {"name", "version", "digest"} \subseteq DOMAIN PinnedKernel

-----------------------------------------------------------------------------
(* Versions, compared part by part, a missing part counting as 0.          *)

Versions == Seq(Nat) \ {<<>>}

Part(v, i) == IF i <= Len(v) THEN v[i] ELSE 0

VersionLess(a, b) ==
    \E i \in 1..(Len(a) + Len(b)) :
        /\ Part(a, i) < Part(b, i)
        /\ \A j \in 1..(i - 1) : Part(a, j) = Part(b, j)

VersionSame(a, b) == ~VersionLess(a, b) /\ ~VersionLess(b, a)

Major(v) == <<v[1]>>

-----------------------------------------------------------------------------
(* Debian stable.                                                          *)

\* parseDebianInRelease and requireGpgvValidSignature; the name stable moves
\* from one codename to the next with the major version.
InReleaseAccepted(file) ==
    /\ file.signed
    /\ file.origin = "Debian" /\ file.suite = "stable"

DebianRecord(file) ==
    [version |-> file.version, major |-> Major(file.version),
     codename |-> file.codename, date |-> file.date]

-----------------------------------------------------------------------------
(* Upstream assets.  A GitHub release is [draft, prerelease, codename,      *)
(* assets]; the tag pattern names exactly one tag per Debian codename, so   *)
(* the newest-first order among matching releases never decides.  An asset  *)
(* is [codename, armbian, kernel, digest], read off its name, which those   *)
(* determine; a digest of 0 is missing or malformed.                        *)

PublishedMatching(releases, codename) ==
    {r \in releases : ~r.draft /\ ~r.prerelease /\ r.codename = codename}

Candidates(releases, codename) ==
    {a \in UNION {r.assets : r \in PublishedMatching(releases, codename)} :
        a.codename = codename}

\* selectLatestReleaseAsset: the highest version, Armbian's before the kernel's.
AssetVersion(asset) == asset.armbian \o asset.kernel

BestBase(releases, codename) ==
    {a \in Candidates(releases, codename) :
        \A b \in Candidates(releases, codename) : ~VersionLess(AssetVersion(a), AssetVersion(b))}

\* projectAsset throws on an asset without a digest.
BaseFound(releases, codename) ==
    /\ BestBase(releases, codename) # {}
    /\ \A a \in BestBase(releases, codename) : a.digest # 0

\* mutant: any bytes under the pinned name will do.
KernelFoundByName(assets) ==
    Cardinality({a \in assets : a.name = PinnedKernel.name}) = 1
\* selectPinnedKernel: exactly one asset fits the pinned name, and its bytes are
\* the ones the project has tested.
KernelFound(assets) ==
    LET fit == {a \in assets : a.name = PinnedKernel.name}
    IN  Cardinality(fit) = 1 /\ \A a \in fit : a.digest = PinnedKernel.digest

\* resolveManifest: the manifests the upstream state can give, none when it
\* throws.
ManifestFrom(debian, up, base) ==
    [schema |-> 5, armbian |-> base.armbian, base |-> base.digest,
     debian |-> debian, builder |-> up.builder, kernelVersion |-> PinnedKernel.version,
     kernelDigest |-> (CHOOSE a \in up.kernel : a.name = PinnedKernel.name).digest]

Manifests(debian, up) ==
    IF BaseFound(up.base, debian.codename) /\ KernelFound(up.kernel)
    THEN {ManifestFrom(debian, up, base) : base \in BestBase(up.base, debian.codename)}
    ELSE {}

-----------------------------------------------------------------------------
(* compareFingerprints.                                                    *)

RejectUpstream(current, previous) ==
    \/ VersionLess(current.armbian, previous.armbian)
    \/ VersionLess(current.kernelVersion, previous.kernelVersion)

RejectSignedDebian(current, previous) ==
    \/ current.schema < 3
    \/ VersionLess(current.debian.version, previous.debian.version)
    \/ current.debian.date < previous.debian.date
    \/ /\ current.debian.major = previous.debian.major
       /\ current.debian.codename # previous.debian.codename

RejectSchema2(current, previous) ==
    \/ VersionLess(current.debian.major, previous.debian.major)
    \/ /\ VersionSame(current.debian.major, previous.debian.major)
       /\ current.debian.codename # previous.debian.codename

\* mutant: only the base image is compared.
RollbackUpstreamOnly(current, previous) ==
    previous # NoManifest /\ RejectUpstream(current, previous)
Rollback(current, previous) ==
    /\ previous # NoManifest
    /\ \/ RejectUpstream(current, previous)
       \/ previous.schema >= 3 /\ RejectSignedDebian(current, previous)
       \/ previous.schema = 2 /\ RejectSchema2(current, previous)

\* mutant: only the base image makes a change.
ChangedUpstreamOnly(current, previous, force) ==
    \/ force \/ previous = NoManifest
    \/ current.base # previous.base \/ current.kernelDigest # previous.kernelDigest
Changed(current, previous, force) ==
    force \/ previous = NoManifest \/ current # previous
=============================================================================
