---------------------------- MODULE GithubPublish ---------------------------
(***************************************************************************)
(* The publish job of .github/workflows/weekly-build.yml: one draft        *)
(* release under a tag, its assets uploaded and compared one by one, the   *)
(* whole validated (ReleasePolicy) and only then made public.  Every gh    *)
(* call may fail, before or after it took effect; the job may die between  *)
(* any two calls, and any run of it may be run again with the same files.  *)
(* Beside it the device evidence job attaches a file of its own.           *)
(*                                                                         *)
(* gh addresses the newest release of the tag.  A create that failed after *)
(* it took effect is tried again and leaves an older draft nobody looks at *)
(* again: orphans counts those.  A view answers with the present state or  *)
(* fails; answers that lag behind are not modelled, except for the digest  *)
(* of an asset, which the service shows some time after the upload.        *)
(***************************************************************************)
EXTENDS ReleasePolicy, Sequences

CONSTANTS
    LocalAssets,    \* the names of the local files, in the order of asset_paths
    Manifest,       \* resolved-sources.json of the build
    Report,         \* and its validation-report.json
    Proof,          \* the name of the device evidence file
    Attempts,       \* tries per step (5 in the workflow)
    MaxRuns,        \* bound: runs of the job
    MaxOrphans      \* bound: drafts left behind

LocalNames == {LocalAssets[i] : i \in DOMAIN LocalAssets}

ASSUME PublishAssumption ==
    /\ LocalAssets \in Seq(AllowedNames) /\ LocalAssets # <<>>
    /\ Proof \in DeviceEvidence \ LocalNames
    /\ Attempts \in Nat \ {0}
    /\ MaxRuns \in Nat \ {0}
    /\ MaxOrphans \in Nat

VARIABLES
    exists,      \* the tag has a release
    release,     \* the release gh addresses (meaningless unless exists)
    orphans,     \* number of older drafts of the tag
    pc,          \* the next call of the job
    attempt,     \* attempt of the loop the job is in; Attempts + 1: the check after it
    k,           \* index in LocalAssets
    accepted,    \* release_create_accepted
    runs,        \* runs started
    healthy,     \* no call of this run fails and it is not killed
    evidence     \* the device evidence job: "none", "checked", "attached"

store == <<exists, release, orphans>>
job   == <<pc, attempt, k, accepted>>
vars  == <<exists, release, orphans, pc, attempt, k, accepted, runs, healthy, evidence>>

Local == [n \in LocalNames |-> "whole"]
\* mutant: gh release create without --draft.
NoAssetsPublic == [draft |-> FALSE, prerelease |-> TRUE, assets |-> {}]
NoAssets == [draft |-> TRUE, prerelease |-> TRUE, assets |-> {}]
Asset(n, s, b, d) == [name |-> n, state |-> s, bytes |-> b, digested |-> d]

\* What gh release upload may leave of an asset.
Uploads(n) == {Asset(n, "starter", "empty", FALSE)}
    \cup [name : {n}, state : {"uploaded"}, bytes : {"whole", "cut", "damaged"},
          digested : BOOLEAN]

Steps == {"withdraw", "viewDraft", "create", "viewAsset", "upload",
          "verify", "publish", "confirm", "done", "failed"}

TypeOK ==
    /\ exists \in BOOLEAN
    /\ release \in [draft : BOOLEAN, prerelease : {TRUE},
                    assets : SUBSET UNION {Uploads(n) : n \in LocalNames \cup {Proof}}]
    /\ orphans \in 0..MaxOrphans
    /\ pc \in Steps
    /\ attempt \in 1..(Attempts + 1)
    /\ k \in DOMAIN LocalAssets
    /\ accepted \in BOOLEAN
    /\ runs \in 1..MaxRuns
    /\ healthy \in BOOLEAN
    /\ evidence \in {"none", "checked", "attached"}

Init ==
    /\ exists = FALSE /\ release = NoAssets /\ orphans = 0
    /\ pc = "withdraw" /\ attempt = 1 /\ k = 1 /\ accepted = FALSE
    /\ runs = 1 /\ healthy \in BOOLEAN
    /\ evidence = "none"

-----------------------------------------------------------------------------
(* A call: whether it takes effect and whether it reports success.         *)

Call == {c \in [effect : BOOLEAN, ok : BOOLEAN] :
            IF healthy THEN c.effect /\ c.ok ELSE c.ok => c.effect}
ViewAnswers == IF healthy THEN {TRUE} ELSE BOOLEAN

\* mutant: attempts are counted from two.
GotoOneLater(step, att) == pc' = step /\ attempt' = att + 1
Goto(step, att) == pc' = step /\ attempt' = att
Fail == Goto("failed", 1)

Public == exists /\ ~release.draft

\* mutant: a release that is public stays public while it is checked again.
WithdrawNever ==
    /\ pc = "withdraw" /\ Goto("viewDraft", attempt)
    /\ UNCHANGED <<store, k, accepted, runs, healthy, evidence>>

\* gh release edit --draft || true
Withdraw ==
    /\ pc = "withdraw"
    /\ \E c \in Call : release' = IF c.effect /\ exists THEN [release EXCEPT !.draft = TRUE]
                                  ELSE release
    /\ Goto("viewDraft", attempt)
    /\ UNCHANGED <<exists, orphans, k, accepted, runs, healthy, evidence>>

\* mutant: draft_release_ready does not look at isDraft.
DraftReadyUnchecked == exists /\ release.prerelease
\* The rest of draft_release_ready and what the loop around it does then.
DraftReady == exists /\ release.draft /\ release.prerelease

ViewDraft ==
    /\ pc = "viewDraft"
    /\ \E answered \in ViewAnswers :
         \/ answered /\ DraftReady /\ Goto("viewAsset", 1)
         \/ /\ ~(answered /\ DraftReady)
            /\ \/ attempt > Attempts /\ Fail
               \/ attempt <= Attempts /\ accepted /\ Goto("withdraw", attempt + 1)
               \/ attempt <= Attempts /\ ~accepted /\ Goto("create", attempt)
    /\ k' = 1
    /\ UNCHANGED <<store, accepted, runs, healthy, evidence>>

\* gh release create --draft: refused when the tag has a public release,
\* otherwise it makes one more draft.
Create ==
    /\ pc = "create"
    /\ \E c \in Call :
         LET made == c.effect /\ ~Public IN
         /\ made /\ exists => orphans < MaxOrphans
         /\ exists' = (exists \/ made)
         /\ release' = IF made THEN NoAssets ELSE release
         /\ orphans' = IF made /\ exists THEN orphans + 1 ELSE orphans
         /\ accepted' = (made /\ c.ok)
    /\ Goto("withdraw", attempt + 1)
    /\ UNCHANGED <<k, runs, healthy, evidence>>

-----------------------------------------------------------------------------
(* The loop over asset_paths.                                              *)

\* remote_asset_matches: 0 the same, 1 different or not there, 2 unknown.
Matches(n, answered) ==
    LET remote == {a \in Named(release.assets, n) :
                     a.state = "uploaded" /\ SizeOf[a.bytes] = SizeOf[Local[n]]}
    IN  IF ~answered \/ ~exists THEN 2
        ELSE IF remote = {} THEN 1
        ELSE IF \A a \in remote : ~a.digested THEN 2
        ELSE IF \A a \in remote : a.bytes = Local[n] THEN 0
        ELSE 1

ViewAsset ==
    /\ pc = "viewAsset"
    /\ \E answered \in ViewAnswers :
         LET status == Matches(LocalAssets[k], answered) IN
         \/ status = 0 /\ k < Len(LocalAssets) /\ k' = k + 1 /\ Goto("viewAsset", 1)
         \/ status = 0 /\ k = Len(LocalAssets) /\ k' = k /\ Goto("verify", 1)
         \/ status # 0 /\ attempt > Attempts /\ k' = k /\ Fail
         \/ status = 1 /\ attempt <= Attempts /\ k' = k /\ Goto("upload", attempt)
         \/ status = 2 /\ attempt <= Attempts /\ k' = k /\ Goto("viewAsset", attempt + 1)
    /\ UNCHANGED <<store, accepted, runs, healthy, evidence>>

\* gh release upload --clobber || true: deletes the asset of that name, then
\* uploads; it may stop in between.
Upload ==
    /\ pc = "upload"
    /\ LET n == LocalAssets[k]
           rest == release.assets \ Named(release.assets, n)
           good == rest \cup {Asset(n, "uploaded", "whole", TRUE)}
       IN  \E assets \in IF healthy THEN {good}
                         ELSE {rest \cup {u} : u \in Uploads(n)} \cup {rest, release.assets} :
             release' = IF exists THEN [release EXCEPT !.assets = assets] ELSE release
    /\ Goto("viewAsset", attempt + 1)
    /\ UNCHANGED <<exists, orphans, k, accepted, runs, healthy, evidence>>

-----------------------------------------------------------------------------
(* Verification and publication.                                           *)

Verify ==
    /\ pc = "verify"
    /\ \E answered \in ViewAnswers :
         IF answered /\ exists /\ DraftValid(Manifest, Report, release, Local) THEN Goto("publish", 1)
         ELSE IF attempt < Attempts THEN Goto("verify", attempt + 1)
         ELSE Fail
    /\ UNCHANGED <<store, k, accepted, runs, healthy, evidence>>

\* gh release edit --prerelease --draft=false || true
Publish ==
    /\ pc = "publish"
    /\ \E c \in Call : release' = IF c.effect /\ exists
                                  THEN [release EXCEPT !.draft = FALSE, !.prerelease = TRUE]
                                  ELSE release
    /\ Goto("confirm", attempt)
    /\ UNCHANGED <<exists, orphans, k, accepted, runs, healthy, evidence>>

\* published_release_ready and the loop around it.
Confirm ==
    /\ pc = "confirm"
    /\ \E answered \in ViewAnswers :
         IF answered /\ Public /\ release.prerelease THEN Goto("done", 1)
         ELSE IF attempt < Attempts THEN Goto("publish", attempt + 1)
         ELSE IF attempt = Attempts THEN Goto("confirm", attempt + 1)
         ELSE Fail
    /\ UNCHANGED <<store, k, accepted, runs, healthy, evidence>>

JobStep == Withdraw \/ ViewDraft \/ Create \/ ViewAsset \/ Upload
             \/ Verify \/ Publish \/ Confirm

-----------------------------------------------------------------------------
(* Around the job.                                                         *)

Crash ==
    /\ pc \notin {"done", "failed"} /\ ~healthy
    /\ Fail
    /\ UNCHANGED <<store, k, accepted, runs, healthy, evidence>>

\* The job is run again, from the start and with the same candidate files.
\* By a healthy run the service has caught up with the digests.
Rerun ==
    /\ pc \in {"done", "failed"} /\ runs < MaxRuns
    /\ runs' = runs + 1
    /\ healthy' \in BOOLEAN
    /\ healthy' => \A a \in release.assets : a.state = "uploaded" => a.digested
    /\ Goto("withdraw", 1) /\ k' = 1 /\ accepted' = FALSE
    /\ UNCHANGED <<store, evidence>>

DigestReady ==
    \E a \in release.assets :
       /\ a.state = "uploaded" /\ ~a.digested
       /\ release' = [release EXCEPT !.assets = (@ \ {a}) \cup {[a EXCEPT !.digested = TRUE]}]
    /\ UNCHANGED <<exists, orphans, job, runs, healthy, evidence>>

\* verify-device.yml checks a public release ...
CheckEvidence ==
    /\ evidence = "none" /\ Public /\ evidence' = "checked"
    /\ UNCHANGED <<store, job, runs, healthy>>

\* ... and uploads its file later, without looking at the release again.
AttachEvidence ==
    /\ evidence = "checked" /\ evidence' = "attached"
    /\ release' = [release EXCEPT !.assets =
                     @ \cup {Asset(Proof, "uploaded", "whole", TRUE)}]
    /\ UNCHANGED <<exists, orphans, job, runs, healthy>>

Next == JobStep \/ Crash \/ Rerun \/ DigestReady \/ CheckEvidence \/ AttachEvidence

Fairness == WF_vars(JobStep) /\ WF_vars(DigestReady)

Spec == Init /\ [][Next]_vars /\ Fairness
-----------------------------------------------------------------------------
(* Properties.                                                             *)

\* A local file is in the release, complete and as it is on the disk.
Arrived(n) ==
    \E a \in Named(release.assets, n) : a.state = "uploaded" /\ a.bytes = Local[n]

Whole ==
    /\ {a.name : a \in release.assets} \subseteq LocalNames \cup {Proof}
    /\ \A n \in LocalNames : Arrived(n)

Visible == IF ~Public THEN "nothing" ELSE IF Whole THEN "whole" ELSE "broken"

Promise == INSTANCE PublishedRelease WITH visible <- Visible, reported <- pc = "done"

\* Whatever fails, is killed or is run again, a reader finds no release or a
\* whole one, and a job that ends well leaves a whole one: the workflow keeps
\* the promise of PublishedRelease (draft first, verified before --draft=false).
Implements == Promise!Spec

\* As long as the job still compares, replaces or verifies assets nobody else
\* can see them, although a run on a release that is already public starts
\* with an edit whose failure it ignores (draft_release_ready).
UploadsHidden == pc \in {"viewAsset", "upload", "verify"} => exists /\ ~Public

\* Whatever readers can see, device evidence included, is a release that the
\* detect job of the next run accepts as the previous one (validatePublishedState
\* and validateReleaseAssets without the draft exception): no run publishes
\* something that stops the runs after it.
NextDetectAccepts ==
    Public => StateValid(Manifest, Report) /\ ReleaseAssetsValid(Report, release, FALSE)

\* Wherever earlier runs stopped - no release, an empty or half filled draft,
\* cut-off or damaged assets, a draft shadowed by a newer one, already public -
\* a run in which no call fails ends with a published release, unless device
\* evidence is attached to it.
RerunRecovers ==
    (healthy /\ pc = "withdraw" /\ attempt = 1) ~> (pc = "done" \/ evidence # "none")
=============================================================================
