--------------------------- MODULE ReleasePolicy ---------------------------
(***************************************************************************)
(* What src/src/change-detection.mjs demands of a release before it is     *)
(* published and before it is believed: the checks on its metadata, its    *)
(* assets, the assets the validation report vouches for, and the local     *)
(* files it was made from.  Pure operators; a release, a report and a list *)
(* of local files are records and functions:                               *)
(*                                                                         *)
(*   asset    [name, state, bytes, digested]  digested = the service       *)
(*            already shows the SHA-256 of the bytes                       *)
(*   release  [draft, prerelease, assets]     assets is a set of assets    *)
(*   manifest [schema, fingerprint, requires, pinned]  requires: optional  *)
(*            checks its recipe asks for; pinned: asset |-> bytes          *)
(*   report   [schema, fingerprint, passed, reported, clean, evidence,     *)
(*            image, imageBytes]  passed and reported are sets of checks;  *)
(*            evidence: asset |-> bytes whose digest the report records    *)
(*   local    [some names -> bytes]                                        *)
(*                                                                         *)
(* Bytes stand for themselves and for their SHA-256; SizeOf gives their    *)
(* length, so that a cut-off file, an empty one and a damaged one of the   *)
(* right length are told apart the way the code tells them apart.          *)
(***************************************************************************)
EXTENDS Naturals, FiniteSets

CONSTANTS
    AssetsSince,      \* report schema |-> names required from that schema on
    OptionalAssets,   \* names required exactly when the report has evidence
    ChecksOf,         \* report schema |-> the checks that must have passed
    OptionalChecks,   \* checks required when asked for or reported; an asset of
                      \* OptionalAssets and its check have the same name
    ImageNames,       \* names that end in .img.gz
    DeviceEvidence,   \* names the device evidence jobs attach later
    SizeOf            \* bytes |-> their length

CurrentSchema == 8

ASSUME PolicyAssumption ==
    /\ DOMAIN AssetsSince \subseteq 1..CurrentSchema
    /\ DOMAIN ChecksOf = 1..CurrentSchema
    /\ OptionalAssets \subseteq OptionalChecks
    /\ DeviceEvidence \cap ImageNames = {}
    /\ SizeOf \in [DOMAIN SizeOf -> Nat]

\* mutant: the evidence a device adds later is not an allowed name.
AllowedNamesAtBuild ==
    (UNION {AssetsSince[v] : v \in DOMAIN AssetsSince}) \cup OptionalAssets \cup ImageNames
AllowedNames ==
    (UNION {AssetsSince[v] : v \in DOMAIN AssetsSince})
        \cup OptionalAssets \cup ImageNames \cup DeviceEvidence

Named(assets, name) == {a \in assets : a.name = name}

\* releaseAssetMap does not throw: a published prerelease (or a draft where
\* one is allowed), no name twice, no name nobody expects.
AssetMapValid(release, allowDraft) ==
    /\ release.draft => allowDraft
    /\ release.prerelease
    /\ \A a \in release.assets :
           a.name \in AllowedNames /\ Cardinality(Named(release.assets, a.name)) = 1

\* validateAsset: present, fully uploaded, not empty, with a digest.
AssetValid(assets, name) ==
    \E a \in Named(assets, name) :
        a.state = "uploaded" /\ SizeOf[a.bytes] > 0 /\ a.digested

Since(versions) == UNION {AssetsSince[v] : v \in DOMAIN AssetsSince \cap versions}

\* requiredAssets of validateReleaseAssets.
RequiredAssets(report) ==
    Since(1..report.schema) \cup (OptionalAssets \cap DOMAIN report.evidence)

\* The required assets whose digest the report itself records: all that came
\* with schema 2 or later.
AttestedAssets(report) ==
    IF report.schema < 2 THEN {}
    ELSE Since(2..report.schema) \cup (OptionalAssets \cap DOMAIN report.evidence)

\* validateExpectedAssets: the release and the local files are the same set of
\* names, lengths and digests.
MatchesLocal(assets, local) ==
    /\ {a.name : a \in assets} = DOMAIN local
    /\ \A a \in assets : AssetValid(assets, a.name) /\ a.bytes = local[a.name]

\* validateReleaseAssets without the expectedAssets option.
ReleaseAssetsValid(report, release, allowDraft) ==
    /\ AssetMapValid(release, allowDraft)
    /\ \A n \in RequiredAssets(report) : AssetValid(release.assets, n)
    /\ \A n \in AttestedAssets(report) :
           /\ n \in DOMAIN report.evidence
           /\ \A a \in Named(release.assets, n) : a.bytes = report.evidence[n]
    /\ \E n \in ImageNames :
           /\ {a \in release.assets : a.name \in ImageNames} = Named(release.assets, n)
           /\ AssetValid(release.assets, n)
           /\ report.image = n
           /\ \A a \in Named(release.assets, n) : a.bytes = report.imageBytes

\* validatePublishedState: manifest and report belong together, and the report
\* says that everything its schema asks for has been checked.
Asked(manifest, report) == OptionalChecks \cap (manifest.requires \cup report.reported)

ChecksPassed(manifest, report) ==
    ChecksOf[report.schema] \cup Asked(manifest, report) \subseteq report.passed

EvidenceRecorded(manifest, report) ==
    /\ report.schema >= 2 =>
           AttestedAssets(report) \cup (OptionalAssets \cap Asked(manifest, report))
               \subseteq DOMAIN report.evidence
    /\ report.schema >= 7 =>
           \A n \in DOMAIN manifest.pinned : report.evidence[n] = manifest.pinned[n]

StateValid(manifest, report) ==
    /\ report.schema \in 1..CurrentSchema
    /\ IF manifest.schema >= 5 THEN report.schema = CurrentSchema ELSE report.schema < 7
    /\ report.fingerprint = manifest.fingerprint
    /\ ChecksPassed(manifest, report) /\ EvidenceRecorded(manifest, report)
    /\ report.schema >= 3 => report.clean

\* validateDraftReleaseForPublication; the tag comparisons are about files that
\* do not change while the job runs.
DraftValid(manifest, report, release, local) ==
    /\ StateValid(manifest, report)
    /\ release.draft
    /\ ReleaseAssetsValid(report, release, TRUE)
    /\ MatchesLocal(release.assets, local)
=============================================================================
