----------------------------- MODULE CnbRelease -----------------------------
(***************************************************************************)
(* src/src/cnb-release.mjs and what drives it: the weekly job that         *)
(* publishes a build under a tag (publishRelease, after the audit of       *)
(* scripts/cnb-release-audit.mjs) and the job that copies a GitHub release *)
(* (scripts/migrate-github-releases.mjs).                                  *)
(*                                                                         *)
(* No request is retried: one that fails, times out or is killed ends the  *)
(* job, whether or not it took effect.  A step of a job is one request     *)
(* that takes effect, with what the code does with the answer; Stop is a   *)
(* request, a download or a local check that did not.  The next run begins *)
(* from what the service holds.                                            *)
(*                                                                         *)
(* One tag is modelled.  cnb-run-identity.mjs numbers every retry of a     *)
(* build ".2", so that later retries publish under a tag that may already  *)
(* have a release, with files built anew: each run has a bundle of its     *)
(* own.  Bytes are the number of the bundle they come from; a file may     *)
(* arrive cut off, and its digest may show late.                           *)
(***************************************************************************)
EXTENDS ReleasePolicy, Sequences

CONSTANTS
    Kinds,        \* the kinds of job in this instance: "publish", "migrate"
    Bundles,      \* 1..number of runs that bring files of their own
    Fixed,        \* sequence of the names every bundle has, the image apart
    ImageOf,      \* bundle |-> name of its image, which carries the build date
    ReportName,   \* "validation-report.json"
    OldName,      \* names of an earlier migration |-> the name they stand for
    Cut,          \* the bytes of a file that arrived incomplete
    MaxRuns       \* bound: runs of the job

FilesOf(b) == Append(Fixed, ImageOf[b])
NamesOf(b) == {FilesOf(b)[i] : i \in DOMAIN FilesOf(b)}
Names == (UNION {NamesOf(b) : b \in Bundles}) \cup DOMAIN OldName

\* No two files of a bundle have the same name, and none has a prefixed one.
ASSUME CnbAssumption ==
    /\ Kinds \subseteq {"publish", "migrate"}
    /\ Bundles \subseteq Nat /\ \E b \in Bundles : \A c \in Bundles : b <= c
    /\ Fixed \in Seq(AllowedNames)
    /\ ImageOf \in [Bundles -> ImageNames]
    /\ \A b \in Bundles : \A i, j \in DOMAIN FilesOf(b) : FilesOf(b)[i] = FilesOf(b)[j] => i = j
    /\ \A b \in Bundles : DOMAIN OldName \cap NamesOf(b) = {}
    /\ Cut \notin Bundles
    /\ Bundles \cup {Cut} \subseteq DOMAIN SizeOf
    /\ MaxRuns \in Nat \ {0}

VARIABLES
    exists, release,   \* the release of the tag; meta: whose name and notes it has
    view,              \* the release as the job last read it
    kind, pc, k,       \* the job, its next request, the file it is at
    bundle,            \* whose files the job has
    used,              \* bundles of all runs so far
    forced,            \* FORCE of this run
    healthy,           \* nothing of this run fails
    right,             \* the release already was what this run would make it
    newest,            \* GitHub names this tag its latest release
    runs               \* runs so far

job  == <<kind, bundle, used, forced, healthy, right, newest, runs>>
vars == <<exists, release, view, kind, pc, k, bundle, used, forced, healthy, right, newest, runs>>

AssetsOf == [name : Names, state : {"uploaded"}, bytes : Bundles \cup {Cut}, digested : BOOLEAN]
Releases == [draft : BOOLEAN, prerelease : {TRUE}, meta : Bundles, latest : BOOLEAN,
             assets : SUBSET AssetsOf]
Asset(n, b, d) == [name |-> n, state |-> "uploaded", bytes |-> b, digested |-> d]

Running == {"detect", "get", "create", "patch", "asset", "upload", "check", "finish", "latest"}

TypeOK ==
    /\ exists \in BOOLEAN /\ release \in Releases /\ view \in Releases
    /\ kind \in Kinds /\ pc \in Running \cup {"done", "skipped", "failed"}
    /\ k \in 1..(Len(Fixed) + 1)
    /\ bundle \in Bundles /\ used \subseteq Bundles
    /\ forced \in BOOLEAN /\ healthy \in BOOLEAN /\ right \in BOOLEAN /\ newest \in BOOLEAN
    /\ runs \in 1..MaxRuns

Public == exists /\ ~release.draft

File == FilesOf(bundle)[k]

\* mutant: an asset is kept when its size is right.
SameSizeOnly(r, n) ==
    \E a \in Named(r.assets, n) :
        a.state = "uploaded" /\ SizeOf[a.bytes] = SizeOf[bundle]
\* The asset is there with the size and the digest of the local file and the
\* state 'uploaded': publishRelease before and after an upload, and the skip
\* of migrateRelease.
Same(r, n) ==
    \E a \in Named(r.assets, n) :
        a.state = "uploaded" /\ a.digested /\ a.bytes = bundle

\* What the release should become: nothing for the job to change.
Finished(r) ==
    /\ ~r.draft /\ r.meta = bundle
    /\ \A n \in NamesOf(bundle) : Same(r, n)
    /\ r.latest = (kind = "migrate" /\ newest)
    /\ kind = "migrate" => \A n \in DOMAIN OldName : Named(r.assets, n) = {}

-----------------------------------------------------------------------------
Fresh(b) == [draft |-> TRUE, prerelease |-> TRUE, meta |-> b, latest |-> FALSE, assets |-> {}]

\* A migration may meet what an earlier version of the script left: assets
\* under the prefixed names it used then.
Init ==
    /\ kind \in Kinds
    /\ bundle = CHOOSE b \in Bundles : \A c \in Bundles : b <= c
    /\ used = {bundle}
    /\ \/ exists = FALSE /\ release = Fresh(bundle)
       \/ /\ kind = "migrate" /\ exists = TRUE
          /\ release = [Fresh(bundle) EXCEPT !.draft = FALSE,
                          !.assets = {Asset(n, bundle, TRUE) : n \in DOMAIN OldName}]
    /\ view = release
    /\ pc = (IF kind = "publish" THEN "detect" ELSE "get") /\ k = 1
    /\ forced \in BOOLEAN /\ healthy \in BOOLEAN /\ right = FALSE /\ newest \in BOOLEAN
    /\ runs = 1

\* The request took effect; the job goes on, or never gets the answer.
Then(step) == pc' = step \/ (~healthy /\ pc' = "failed")

\* The next file of the loop, or what follows it.
AfterLoop == IF kind = "publish" THEN "finish" ELSE "latest"
\* mutant: the loop leaves out the last file.
NextFileNotLast ==
    IF k < Len(FilesOf(bundle)) - 1 THEN k' = k + 1 /\ pc' = "asset"
    ELSE k' = k /\ pc' = AfterLoop
\* mutant: the loop over the files has no end.
NextFileUnbounded == k' = k + 1 /\ pc' = "asset"
NextFile ==
    IF k < Len(FilesOf(bundle)) THEN k' = k + 1 /\ pc' = "asset"
    ELSE k' = k /\ pc' = AfterLoop

\* validation-report.json of a bundle, and the audit of a public release
\* against the report found in it.
Report(b) == [schema |-> CurrentSchema, evidence |-> [n \in NamesOf(b) |-> b],
              image |-> ImageOf[b], imageBytes |-> b]

\* A build has the files its report must vouch for, none of them empty, and one
\* image (the call at the end of publish in cnb-weekly-raw-build.sh).
ASSUME BuildAssumption ==
    \A b \in Bundles :
        /\ RequiredAssets(Report(b)) \subseteq NamesOf(b)
        /\ ReportName \in NamesOf(b)
        /\ NamesOf(b) \cap ImageNames = {ImageOf[b]}
        /\ SizeOf[b] > 0

AuditPasses ==
    Public => \E a \in Named(release.assets, ReportName) :
                 a.bytes \in Bundles /\ ReleaseAssetsValid(Report(a.bytes), release, FALSE)

\* detect of cnb-weekly-raw-build.sh: the audit, then compareFingerprints; a
\* retry resolves the same manifest, so only FORCE changes anything.
Detect ==
    /\ kind = "publish" /\ pc = "detect"
    /\ \/ ~AuditPasses /\ pc' = "failed"
       \/ AuditPasses /\ Public /\ ~forced /\ pc' = "skipped"
       \/ AuditPasses /\ (Public => forced) /\ pc' = "get"
    /\ UNCHANGED <<exists, release, view, k, job>>

\* mutant: a draft is not found under its tag.
FoundPublicOnly == Public
\* getReleaseByTag: drafts are found like public releases.
Found == exists

\* Whose name and notes are compared after the release has been found or made.
MetaDiffers(r) == r.meta # bundle \/ (kind = "migrate" /\ r.draft)

Get ==
    /\ pc = "get"
    /\ view' = IF Found THEN release ELSE view
    /\ pc' = IF ~Found THEN "create" ELSE IF MetaDiffers(release) THEN "patch" ELSE "asset"
    /\ UNCHANGED <<exists, release, k, job>>

\* createRelease: a draft for publishRelease, the flag of the GitHub release
\* (public: drafts are not listed without a token) for migrateRelease.
Created == [Fresh(bundle) EXCEPT !.draft = (kind = "publish")]

Create ==
    /\ pc = "create" /\ ~exists
    /\ exists' = TRUE /\ release' = Created /\ view' = Created
    /\ Then("asset")
    /\ UNCHANGED <<k, job>>

\* patchRelease with the metadata; only migrateRelease sends the draft flag.
Patch ==
    /\ pc = "patch"
    /\ release' = [release EXCEPT !.meta = bundle, !.latest = FALSE,
                     !.draft = @ /\ kind = "publish"]
    /\ view' = release'
    /\ Then("asset")
    /\ UNCHANGED <<exists, k, job>>

-----------------------------------------------------------------------------
(* One file.  publishRelease deletes an asset that differs, uploads, reads  *)
(* the release again and compares.  migrateRelease looks only at the assets *)
(* it read at the start: it deletes the prefixed name, leaves an asset that *)
(* is the same, deletes one that has no digest, uploads and compares.       *)

\* mutant: every file is uploaded again.
DifferingAlways(n) == TRUE
Differing(n) == ~Same(view, n)

Stale(n) ==
    IF kind = "publish" THEN Named(view.assets, n)
    ELSE {a \in Named(view.assets, n) : ~a.digested}
Prefixed(n) == {o \in DOMAIN OldName : OldName[o] = n /\ Named(view.assets, o) # {}}

DeletePrefixed ==
    /\ kind = "migrate" /\ pc = "asset" /\ Prefixed(File) # {}
    /\ LET Drop(assets) == {a \in assets : a.name \notin Prefixed(File)}
       IN  /\ release' = [release EXCEPT !.assets = Drop(@)]
           /\ view' = [view EXCEPT !.assets = Drop(@)]
    /\ Then("asset")
    /\ UNCHANGED <<exists, k, job>>

FileTurn == pc = "asset" /\ (kind = "migrate" => Prefixed(File) = {})

Skip ==
    /\ FileTurn /\ ~Differing(File)
    /\ IF kind = "publish" THEN pc' = "check" /\ k' = k ELSE NextFile
    /\ UNCHANGED <<exists, release, view, job>>

DeleteStale ==
    /\ FileTurn /\ Differing(File) /\ Stale(File) # {}
    /\ release' = [release EXCEPT !.assets = @ \ Named(@, File)]
    /\ Then("upload")
    /\ UNCHANGED <<exists, view, k, job>>

\* uploadAsset with overwrite: nothing shows before the confirmation request.
Upload ==
    /\ \/ FileTurn /\ Differing(File) /\ Stale(File) = {}
       \/ pc = "upload"
    /\ \E b \in {bundle, Cut}, d \in BOOLEAN :
         /\ healthy => b = bundle /\ d
         /\ release' = [release EXCEPT !.assets =
                          (@ \ Named(@, File)) \cup {Asset(File, b, d)}]
    /\ Then("check")
    /\ UNCHANGED <<exists, view, k, job>>

\* mutant: the final audit of the assets is dropped.
CheckNothing ==
    /\ pc = "check"
    /\ view' = (IF kind = "publish" THEN release ELSE view) /\ NextFile
    /\ UNCHANGED <<exists, release, job>>
\* The release is read again and compared; verifyAsset in migrateRelease,
\* which keeps the asset map of the start.
Check ==
    /\ pc = "check"
    /\ view' = IF kind = "publish" THEN release ELSE view
    /\ IF Same(release, File) THEN NextFile ELSE pc' = "failed" /\ k' = k
    /\ UNCHANGED <<exists, release, job>>

\* The end of publishRelease: public, and not the latest.
Finish ==
    /\ pc = "finish"
    /\ release' = IF view.draft \/ view.latest
                  THEN [release EXCEPT !.draft = FALSE, !.latest = FALSE] ELSE release
    /\ Then("done")
    /\ UNCHANGED <<exists, view, k, job>>

\* The end of main in migrate-github-releases.mjs: if GitHub calls it the latest.
Latest ==
    /\ pc = "latest"
    /\ release' = [release EXCEPT !.latest = @ \/ newest]
    /\ Then("done")
    /\ UNCHANGED <<exists, view, k, job>>

JobStep == Detect \/ Get \/ Create \/ Patch \/ DeletePrefixed \/ Skip \/ DeleteStale
             \/ Upload \/ Check \/ Finish \/ Latest

-----------------------------------------------------------------------------
Stop ==
    /\ pc \in Running /\ ~healthy /\ pc' = "failed"
    /\ UNCHANGED <<exists, release, view, k, job>>

\* A retry builds new files, or the same ones where the build is reproducible;
\* the migration starts over.  By a healthy run the service has caught up with
\* the digests.
Again ==
    /\ pc \notin Running /\ runs < MaxRuns /\ runs' = runs + 1
    /\ bundle' \in IF kind = "publish" THEN Bundles ELSE {bundle}
    /\ used' = used \cup {bundle'}
    /\ pc' = (IF kind = "publish" THEN "detect" ELSE "get") /\ k' = 1
    /\ forced' \in BOOLEAN /\ healthy' \in BOOLEAN
    /\ healthy' => \A a \in release.assets : a.digested
    /\ UNCHANGED <<exists, release, view, kind, newest>>
    /\ right' = (exists /\ Finished(release)')

DigestReady ==
    \E a \in release.assets :
       /\ ~a.digested
       /\ release' = [release EXCEPT !.assets = (@ \ {a}) \cup {[a EXCEPT !.digested = TRUE]}]
       /\ UNCHANGED <<exists, view, pc, k, job>>

Next == JobStep \/ Stop \/ Again \/ DigestReady

Spec == Init /\ [][Next]_vars /\ WF_vars(JobStep)
-----------------------------------------------------------------------------
(* Properties.                                                             *)

Whole ==
    \A n \in NamesOf(bundle) :
        \E a \in Named(release.assets, n) : a.state = "uploaded" /\ a.bytes = bundle

\* publishRelease makes a draft public only when every file of the job is in
\* it with its digest, although it checks each file by itself and the draft may
\* come from a run that was killed, with files of another build.
ExposesWhole == [][kind = "publish" /\ ~Public /\ Public' => Whole']_vars

\* A job that ends well leaves a public release with its own notes and exactly
\* its own bytes under each of its names, whatever runs before it left.
DoneIsWhole == pc = "done" => Public /\ release.meta = bundle /\ Whole

\* Publishing or migrating what is already there changes nothing: no asset is
\* deleted, replaced or hidden for a moment ("publishes a release idempotently",
\* tests/cnb-release.test.mjs).
Idempotent == [][right /\ JobStep => UNCHANGED <<exists, release>>]_vars

\* From whatever the runs before it left, a run in which nothing fails and
\* which gets past the audit ends with its release published.
RunRecovers == (healthy /\ pc = "get") ~> pc = "done"

\* The audit that opens the next weekly run accepts what a job has published,
\* unless a run for the same tag left an image under another name.
DoneIsAuditable ==
    pc = "done" /\ kind = "publish" /\ (\A b \in used : ImageOf[b] = ImageOf[bundle])
        => AuditPasses
=============================================================================
