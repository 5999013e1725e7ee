------------------------ MODULE GithubPublish_proofs ------------------------
(***************************************************************************)
(* Proofs about module GithubPublish, for every list of local files,       *)
(* manifest, report, number of tries, of runs and of abandoned drafts:     *)
(* assets change hands in a draft only, what the public can see is whole   *)
(* and accepted by the next run, and the job implements PublishedRelease.  *)
(***************************************************************************)
EXTENDS GithubPublish, FiniteSetTheorems, TLAPS

(* The job is past its verification, or an earlier run was.                 *)
Final == pc \in {"publish", "confirm"} \/ Public

(* What the verification has established and nothing may undo.              *)
Settled ==
  /\ exists
  /\ StateValid(Manifest, Report)
  /\ ReleaseAssetsValid(Report, release, TRUE)
  /\ Whole
  /\ \A a \in release.assets : a.digested

(* The device evidence job has not uploaded yet.                            *)
NoProofYet == evidence # "attached" => Named(release.assets, Proof) = {}

-----------------------------------------------------------------------------
(* The policy.                                                              *)

LEMMA NameFacts ==
  /\ LocalNames \subseteq AllowedNames
  /\ Proof \in AllowedNames \ (LocalNames \cup ImageNames)
  BY PublishAssumption, PolicyAssumption DEF LocalNames, AllowedNames

(* Setting or removing the draft flag leaves the assets as valid as before. *)
LEMMA FlagsIrrelevant ==
  ASSUME NEW report, NEW r1, NEW r2,
         r1.assets = r2.assets, r2.prerelease,
         ReleaseAssetsValid(report, r1, TRUE)
  PROVE  /\ ReleaseAssetsValid(report, r2, TRUE)
         /\ ~r2.draft => ReleaseAssetsValid(report, r2, FALSE)
  BY DEF ReleaseAssetsValid, AssetMapValid

LEMMA AttestedRequired ==
  ASSUME NEW report, report.schema \in 1..CurrentSchema
  PROVE  AttestedAssets(report) \subseteq RequiredAssets(report)
  BY DEF AttestedAssets, RequiredAssets, Since, CurrentSchema

(* Nor does an evidence file beside them change that.                       *)
LEMMA ProofAdded ==
  ASSUME NEW report, NEW r1, NEW r2, NEW p,
         report.schema \in 1..CurrentSchema,
         r2.assets = r1.assets \cup {p}, p.name = Proof,
         r2.prerelease = r1.prerelease,
         Named(r1.assets, Proof) = {},
         ReleaseAssetsValid(report, r1, TRUE)
  PROVE  ReleaseAssetsValid(report, r2, TRUE)
<1>1. \A n : n # Proof => Named(r2.assets, n) = Named(r1.assets, n)
  BY DEF Named
<1>2. Named(r2.assets, Proof) = {p}
  BY DEF Named
<1>3. \A n \in RequiredAssets(report) : n # Proof /\ AssetValid(r1.assets, n)
  BY DEF ReleaseAssetsValid, AssetValid
<1>4. \A n : n # Proof => (AssetValid(r2.assets, n) <=> AssetValid(r1.assets, n))
  BY <1>1 DEF AssetValid
<1>5. AssetMapValid(r2, TRUE)
  <2>1. Cardinality(Named(r2.assets, Proof)) = 1
    BY <1>2, FS_Singleton
  <2>2. QED
    BY <1>1, <2>1, NameFacts DEF ReleaseAssetsValid, AssetMapValid
<1>6. \A n \in AttestedAssets(report) : n # Proof
  BY <1>3, AttestedRequired
<1>7. PICK n \in ImageNames :
           /\ {a \in r1.assets : a.name \in ImageNames} = Named(r1.assets, n)
           /\ AssetValid(r1.assets, n)
           /\ report.image = n
           /\ \A a \in Named(r1.assets, n) : a.bytes = report.imageBytes
  BY DEF ReleaseAssetsValid
<1>8. /\ n # Proof
      /\ {a \in r2.assets : a.name \in ImageNames} = {a \in r1.assets : a.name \in ImageNames}
  BY <1>7, NameFacts
<1>9. QED
  BY <1>1, <1>3, <1>4, <1>5, <1>6, <1>7, <1>8 DEF ReleaseAssetsValid

(* A draft the workflow is willing to publish is whole.                     *)
LEMMA ValidDraftSettled ==
  ASSUME exists, IsFiniteSet(release.assets),
         DraftValid(Manifest, Report, release, Local)
  PROVE  Settled
<1>1. /\ {a.name : a \in release.assets} = LocalNames
      /\ \A a \in release.assets : AssetValid(release.assets, a.name) /\ a.bytes = Local[a.name]
  BY DEF DraftValid, MatchesLocal, Local
<1>2. \A n \in LocalNames : Arrived(n)
  <2>1. SUFFICES ASSUME NEW n \in LocalNames PROVE Arrived(n)
    OBVIOUS
  <2>2. PICK a \in release.assets : a.name = n
    BY <1>1
  <2>3. PICK b \in Named(release.assets, n) : b.state = "uploaded"
    BY <1>1, <2>2 DEF AssetValid
  <2>4. b \in release.assets /\ b.name = n
    BY <2>3 DEF Named
  <2>5. QED
    BY <1>1, <2>3, <2>4 DEF Arrived
<1>3. \A a \in release.assets : a.digested
  <2>1. SUFFICES ASSUME NEW a \in release.assets PROVE a.digested
    OBVIOUS
  <2>2. PICK b \in Named(release.assets, a.name) : b.digested
    BY <1>1 DEF AssetValid
  <2>3. Cardinality(Named(release.assets, a.name)) = 1
    BY DEF DraftValid, ReleaseAssetsValid, AssetMapValid
  <2>4. IsFiniteSet(Named(release.assets, a.name))
    BY FS_Subset DEF Named
  <2>5. PICK x : Named(release.assets, a.name) = {x}
    BY <2>3, <2>4, FS_Singleton
  <2>6. a \in Named(release.assets, a.name)
    BY DEF Named
  <2>7. QED
    BY <2>2, <2>5, <2>6
<1>4. QED
  BY <1>1, <1>2, <1>3 DEF Settled, DraftValid, Whole

-----------------------------------------------------------------------------
(* Types.                                                                  *)

AssetType == UNION {Uploads(n) : n \in LocalNames \cup {Proof}}
ReleaseType == [draft : BOOLEAN, prerelease : {TRUE}, assets : SUBSET AssetType]

StoreOK ==
  /\ exists \in BOOLEAN
  /\ release \in ReleaseType /\ IsFiniteSet(release.assets)
  /\ orphans \in 0..MaxOrphans

JobOK ==
  /\ pc \in Steps
  /\ attempt \in 1..(Attempts + 1)
  /\ k \in DOMAIN LocalAssets
  /\ accepted \in BOOLEAN
  /\ pc \in {"create", "upload"} => attempt <= Attempts

RunOK ==
  /\ runs \in 1..MaxRuns
  /\ healthy \in BOOLEAN
  /\ evidence \in {"none", "checked", "attached"}

(* TypeOK, strengthened: the store is finite, and a try is left wherever one *)
(* is about to be used up.                                                   *)
TypeInv ==
  /\ TypeOK
  /\ IsFiniteSet(release.assets)
  /\ pc \in {"create", "upload"} => attempt <= Attempts

LEMMA TypeParts == TypeInv <=> StoreOK /\ JobOK /\ RunOK
  BY DEF TypeInv, TypeOK, StoreOK, JobOK, RunOK, ReleaseType, AssetType

LEMMA UploadsTyped ==
  /\ \A n \in LocalNames : Uploads(n) \subseteq AssetType
  /\ Asset(Proof, "uploaded", "whole", TRUE) \in AssetType
<1>1. \A n \in LocalNames \cup {Proof} : Uploads(n) \subseteq AssetType
  BY DEF AssetType
<1>2. \A n : Asset(n, "uploaded", "whole", TRUE) \in Uploads(n)
  BY DEF Uploads, Asset
<1>3. QED
  BY <1>1, <1>2

LEMMA DigestTyped ==
  ASSUME NEW a \in AssetType, a.state = "uploaded"
  PROVE  [a EXCEPT !.digested = TRUE] \in AssetType
<1>1. PICK n \in LocalNames \cup {Proof} : a \in Uploads(n)
  BY DEF AssetType
<1>2. a # Asset(n, "starter", "empty", FALSE)
  BY DEF Asset
<1>3. a \in [name : {n}, state : {"uploaded"}, bytes : {"whole", "cut", "damaged"},
              digested : BOOLEAN]
  BY <1>1, <1>2 DEF Uploads
<1>4. [a EXCEPT !.digested = TRUE] \in
         [name : {n}, state : {"uploaded"}, bytes : {"whole", "cut", "damaged"},
          digested : BOOLEAN]
  <2>1. \A b \in BOOLEAN : [a EXCEPT !.digested = b] \in
          [name : {n}, state : {"uploaded"}, bytes : {"whole", "cut", "damaged"},
           digested : BOOLEAN]
    BY <1>3
  <2>2. QED
    BY <2>1
<1>5. [a EXCEPT !.digested = TRUE] \in Uploads(n)
  BY <1>4 DEF Uploads
<1>6. QED
  BY <1>5 DEF AssetType

LEMMA IndexTyped ==
  /\ 1 \in DOMAIN LocalAssets
  /\ Len(LocalAssets) \in Nat
  /\ DOMAIN LocalAssets = 1..Len(LocalAssets)
  /\ \A i \in DOMAIN LocalAssets : LocalAssets[i] \in LocalNames
<1>1. LocalAssets \in Seq(AllowedNames) /\ LocalAssets # <<>>
  BY PublishAssumption
<1>2. QED
  BY <1>1 DEF LocalNames

LEMMA Bounds == Attempts \in Nat \ {0} /\ MaxRuns \in Nat \ {0} /\ MaxOrphans \in Nat
  BY PublishAssumption

LEMMA NoAssetsTyped == NoAssets \in ReleaseType /\ IsFiniteSet(NoAssets.assets)
  BY FS_EmptySet DEF NoAssets, ReleaseType

LEMMA InitTyped == Init => TypeInv
<1> SUFFICES ASSUME Init PROVE StoreOK /\ JobOK /\ RunOK
  BY TypeParts
<1>1. exists \in BOOLEAN /\ accepted \in BOOLEAN /\ healthy \in BOOLEAN
  BY DEF Init
<1>2. orphans \in 0..MaxOrphans /\ attempt \in 1..(Attempts + 1) /\ runs \in 1..MaxRuns
  BY Bounds DEF Init
<1>3. release \in ReleaseType /\ IsFiniteSet(release.assets)
  BY NoAssetsTyped DEF Init
<1>4. pc = "withdraw" /\ pc \in Steps /\ k \in DOMAIN LocalAssets /\ evidence \in {"none", "checked", "attached"}
  BY IndexTyped DEF Init, Steps
<1>5. QED
  BY <1>1, <1>2, <1>3, <1>4 DEF StoreOK, JobOK, RunOK

(* Another set of assets, or another state of the flags.                    *)
LEMMA StoreEdited ==
  ASSUME StoreOK, exists' = exists, orphans' = orphans,
         NEW assets \in SUBSET AssetType, IsFiniteSet(assets), NEW draft \in BOOLEAN,
         release' = [release EXCEPT !.draft = draft]
           \/ release' = [release EXCEPT !.draft = draft, !.prerelease = TRUE]
           \/ release' = [release EXCEPT !.assets = assets]
           \/ release' = release
  PROVE  StoreOK'
  BY DEF StoreOK, ReleaseType

LEMMA StoreKept == StoreOK /\ UNCHANGED store => StoreOK'
  BY DEF StoreOK, store

LEMMA RunKept == RunOK /\ UNCHANGED <<runs, healthy, evidence>> => RunOK'
  BY DEF RunOK

(* Every step keeps the types. *)
LEMMA TypeStep ==
  ASSUME TypeInv, [Next]_vars
  PROVE  TypeInv'
<1> SUFFICES StoreOK' /\ JobOK' /\ RunOK'
  BY DEF TypeInv, TypeOK, StoreOK, JobOK, RunOK, ReleaseType, AssetType
<1>1. StoreOK /\ JobOK /\ RunOK
  BY TypeParts
<1>2. CASE Withdraw
  <2>1. exists' = exists /\ orphans' = orphans
         /\ (release' = [release EXCEPT !.draft = TRUE] \/ release' = release)
    BY <1>2 DEF Withdraw
  <2>2. StoreOK'
    BY <1>1, <2>1, StoreEdited, NoAssetsTyped DEF ReleaseType
  <2>3. JobOK'
    BY <1>1, <1>2 DEF Withdraw, Goto, JobOK, Steps
  <2>4. RunOK'
    BY <1>1, <1>2, RunKept DEF Withdraw
  <2>5. QED
    BY <2>2, <2>3, <2>4
<1>3. CASE ViewDraft
  <2>1. StoreOK' /\ RunOK'
    BY <1>1, <1>3, StoreKept, RunKept DEF ViewDraft
  <2>2. JobOK'
    BY <1>1, <1>3, Bounds, IndexTyped DEF ViewDraft, Goto, Fail, JobOK, Steps
  <2>3. QED
    BY <2>1, <2>2
<1>4. CASE Create
  <2>1. PICK c \in Call :
          LET made == c.effect /\ ~Public IN
          /\ made /\ exists => orphans < MaxOrphans
          /\ exists' = (exists \/ made)
          /\ release' = IF made THEN NoAssets ELSE release
          /\ orphans' = IF made /\ exists THEN orphans + 1 ELSE orphans
          /\ accepted' = (made /\ c.ok)
    BY <1>4 DEF Create
  <2>2. exists' \in BOOLEAN /\ accepted' \in BOOLEAN
    BY <2>1
  <2>3. release' \in ReleaseType /\ IsFiniteSet(release'.assets)
    BY <1>1, <2>1, NoAssetsTyped DEF StoreOK
  <2>4. orphans' \in 0..MaxOrphans
    BY <1>1, <2>1, Bounds DEF StoreOK
  <2>5. /\ pc' = "withdraw" /\ pc' \in Steps
        /\ attempt' \in 1..(Attempts + 1) /\ k' \in DOMAIN LocalAssets
    BY <1>1, <1>4, Bounds DEF Create, Goto, JobOK, Steps
  <2>6. RunOK'
    BY <1>1, <1>4, RunKept DEF Create
  <2>7. QED
    BY <2>2, <2>3, <2>4, <2>5, <2>6 DEF StoreOK, JobOK
<1>5. CASE ViewAsset
  <2>1. StoreOK' /\ RunOK'
    BY <1>1, <1>5, StoreKept, RunKept DEF ViewAsset
  <2>2. JobOK'
    BY <1>1, <1>5, Bounds, IndexTyped DEF ViewAsset, Goto, Fail, JobOK, Steps
  <2>3. QED
    BY <2>1, <2>2
<1>6. CASE Upload
  <2> DEFINE n == LocalAssets[k]
             rest == release.assets \ Named(release.assets, n)
  <2>1. PICK assets \in {rest \cup {u} : u \in Uploads(n)} \cup {rest, release.assets} :
          release' = IF exists THEN [release EXCEPT !.assets = assets] ELSE release
    <3>1. Asset(n, "uploaded", "whole", TRUE) \in Uploads(n)
      BY DEF Uploads, Asset
    <3>2. QED
      BY <1>6, <3>1 DEF Upload
  <2>2. n \in LocalNames
    BY <1>1, IndexTyped DEF JobOK
  <2>3. rest \subseteq AssetType /\ release.assets \subseteq AssetType
        /\ IsFiniteSet(rest) /\ IsFiniteSet(release.assets)
    BY <1>1, FS_Subset DEF StoreOK, ReleaseType
  <2>4. assets \in SUBSET AssetType /\ IsFiniteSet(assets)
    <3>1. CASE assets \in {rest, release.assets}
      BY <2>3, <3>1
    <3>2. CASE \E u \in Uploads(n) : assets = rest \cup {u}
      <4>1. PICK u \in Uploads(n) : assets = rest \cup {u}
        BY <3>2
      <4>2. u \in AssetType
        BY <2>2, UploadsTyped
      <4>3. QED
        BY <2>3, <4>1, <4>2, FS_AddElement
    <3>3. QED
      BY <3>1, <3>2
  <2>5. exists' = exists /\ orphans' = orphans
    BY <1>6 DEF Upload
  <2>6. release' = [release EXCEPT !.assets = assets] \/ release' = release
    BY <2>1
  <2>7. StoreOK'
    BY <1>1, <2>4, <2>5, <2>6, StoreEdited
  <2>8. JobOK'
    BY <1>1, <1>6, Bounds DEF Upload, Goto, JobOK, Steps
  <2>9. RunOK'
    BY <1>1, <1>6, RunKept DEF Upload
  <2>10. QED
    BY <2>7, <2>8, <2>9
<1>7. CASE Verify
  <2>1. StoreOK' /\ RunOK'
    BY <1>1, <1>7, StoreKept, RunKept DEF Verify
  <2>2. JobOK'
    BY <1>1, <1>7, Bounds DEF Verify, Goto, Fail, JobOK, Steps
  <2>3. QED
    BY <2>1, <2>2
<1>8. CASE Publish
  <2>1. exists' = exists /\ orphans' = orphans
         /\ (\/ release' = [release EXCEPT !.draft = FALSE, !.prerelease = TRUE]
             \/ release' = release)
    BY <1>8 DEF Publish
  <2>2. StoreOK'
    BY <1>1, <2>1, StoreEdited, NoAssetsTyped DEF ReleaseType
  <2>3. JobOK'
    BY <1>1, <1>8 DEF Publish, Goto, JobOK, Steps
  <2>4. RunOK'
    BY <1>1, <1>8, RunKept DEF Publish
  <2>5. QED
    BY <2>2, <2>3, <2>4
<1>9. CASE Confirm
  <2>1. StoreOK' /\ RunOK'
    BY <1>1, <1>9, StoreKept, RunKept DEF Confirm
  <2>2. JobOK'
    BY <1>1, <1>9, Bounds DEF Confirm, Goto, Fail, JobOK, Steps
  <2>3. QED
    BY <2>1, <2>2
<1>10. CASE Crash
  <2>1. StoreOK' /\ RunOK'
    BY <1>1, <1>10, StoreKept, RunKept DEF Crash
  <2>2. JobOK'
    BY <1>1, <1>10, Bounds DEF Crash, Goto, Fail, JobOK, Steps
  <2>3. QED
    BY <2>1, <2>2
<1>11. CASE Rerun
  <2>1. StoreOK'
    BY <1>1, <1>11, StoreKept DEF Rerun
  <2>2. JobOK'
    <3>1. pc' \in Steps /\ k' \in DOMAIN LocalAssets /\ attempt' \in 1..(Attempts + 1)
          /\ pc' = "withdraw"
      BY <1>11, Bounds, IndexTyped DEF Rerun, Goto, Steps
    <3>2. accepted' \in BOOLEAN
      BY <1>11 DEF Rerun
    <3>3. QED
      BY <3>1, <3>2 DEF JobOK
  <2>3. runs' \in 1..MaxRuns
    BY <1>1, <1>11, Bounds DEF Rerun, RunOK
  <2>4. healthy' \in BOOLEAN /\ evidence' = evidence
    BY <1>11 DEF Rerun
  <2>5. QED
    BY <1>1, <2>1, <2>2, <2>3, <2>4 DEF RunOK
<1>12. CASE DigestReady
  <2>1. PICK a \in release.assets :
          /\ a.state = "uploaded"
          /\ release' = [release EXCEPT !.assets = (@ \ {a}) \cup {[a EXCEPT !.digested = TRUE]}]
    BY <1>12 DEF DigestReady
  <2> DEFINE assets == (release.assets \ {a}) \cup {[a EXCEPT !.digested = TRUE]}
  <2>2. a \in AssetType /\ release.assets \subseteq AssetType /\ IsFiniteSet(release.assets)
    BY <1>1 DEF StoreOK, ReleaseType
  <2>3. [a EXCEPT !.digested = TRUE] \in AssetType
    BY <2>1, <2>2, DigestTyped
  <2>4. assets \in SUBSET AssetType
    BY <2>2, <2>3
  <2>5. IsFiniteSet(assets)
    BY <2>2, FS_AddElement, FS_Subset
  <2>6. release' = [release EXCEPT !.assets = assets]
    BY <2>1
  <2>7. exists' = exists /\ orphans' = orphans
    BY <1>12 DEF DigestReady
  <2>8. StoreOK'
    <3> HIDE DEF assets
    <3>1. QED
      BY <1>1, <2>4, <2>5, <2>6, <2>7, StoreEdited
  <2>9. QED
    BY <1>1, <1>12, <2>8, RunKept DEF DigestReady, job, JobOK
<1>13. CASE CheckEvidence
  <2>1. StoreOK'
    BY <1>1, <1>13, StoreKept DEF CheckEvidence
  <2>2. JobOK' /\ RunOK'
    BY <1>1, <1>13 DEF CheckEvidence, job, JobOK, RunOK
  <2>3. QED
    BY <2>1, <2>2
<1>14. CASE AttachEvidence
  <2> DEFINE assets == release.assets \cup {Asset(Proof, "uploaded", "whole", TRUE)}
  <2>1. assets \in SUBSET AssetType /\ IsFiniteSet(assets)
    BY <1>1, UploadsTyped, FS_AddElement DEF StoreOK, ReleaseType
  <2>2. release' = [release EXCEPT !.assets = assets] /\ exists' = exists /\ orphans' = orphans
    BY <1>14 DEF AttachEvidence
  <2>3. StoreOK'
    <3> HIDE DEF assets
    <3>1. QED
      BY <1>1, <2>1, <2>2, StoreEdited
  <2>4. JobOK' /\ RunOK'
    BY <1>1, <1>14 DEF AttachEvidence, job, JobOK, RunOK
  <2>5. QED
    BY <2>3, <2>4
<1>15. CASE UNCHANGED vars
  BY <1>1, <1>15 DEF vars, StoreOK, JobOK, RunOK
<1>16. QED
  BY <1>2, <1>3, <1>4, <1>5, <1>6, <1>7, <1>8, <1>9, <1>10, <1>11, <1>12,
     <1>13, <1>14, <1>15 DEF Next, JobStep
-----------------------------------------------------------------------------
(* The inductive invariant.                                                *)

IInv ==
  /\ TypeInv
  /\ UploadsHidden
  /\ NoProofYet
  /\ pc = "done" => Public
  /\ Final => Settled

LEMMA InitInv == Init => IInv
<1> SUFFICES ASSUME Init PROVE IInv
  OBVIOUS
<1>1. TypeInv
  BY InitTyped
<1>2. NoProofYet
  BY DEF Init, NoAssets, NoProofYet, Named
<1>3. QED
  BY <1>1, <1>2 DEF Init, IInv, UploadsHidden, Final, Public

LEMMA SettledKept ==
  ASSUME Settled, UNCHANGED store
  PROVE  Settled'
  BY DEF Settled, store, Whole, Arrived

LEMMA SettledEdited ==
  ASSUME Settled, exists' = exists, release'.assets = release.assets, release'.prerelease
  PROVE  Settled'
<1>1. ReleaseAssetsValid(Report, release', TRUE)
  BY FlagsIrrelevant DEF Settled
<1>2. QED
  BY <1>1 DEF Settled, Whole, Arrived, Named

LEMMA SettledAttached ==
  ASSUME TypeInv, Settled, NoProofYet, AttachEvidence
  PROVE  Settled'
<1> DEFINE p == Asset(Proof, "uploaded", "whole", TRUE)
<1>1. release' = [release EXCEPT !.assets = @ \cup {p}] /\ exists' = exists
  BY DEF AttachEvidence
<1>2. release \in ReleaseType
  BY TypeParts DEF StoreOK
<1>3. release'.assets = release.assets \cup {p} /\ release'.prerelease = release.prerelease
  BY <1>1, <1>2 DEF ReleaseType
<1>4. p.name = Proof /\ p.digested
  BY DEF Asset
<1>5. Named(release.assets, Proof) = {}
  BY DEF NoProofYet, AttachEvidence
<1>6. Report.schema \in 1..CurrentSchema
  BY DEF Settled, StateValid
<1>7. ReleaseAssetsValid(Report, release', TRUE)
  <2> HIDE DEF p
  <2>1. QED
    BY <1>3, <1>4, <1>5, <1>6, ProofAdded DEF Settled
<1>8. Whole'
  <2> HIDE DEF p
  <2>1. \A n : Named(release.assets, n) \subseteq Named(release'.assets, n)
    BY <1>3 DEF Named
  <2>2. \A n \in LocalNames : Arrived(n)'
    BY <2>1 DEF Settled, Whole, Arrived
  <2>3. {a.name : a \in release'.assets} \subseteq LocalNames \cup {Proof}
    BY <1>3, <1>4 DEF Settled, Whole
  <2>4. QED
    BY <2>2, <2>3 DEF Whole
<1>9. QED
  <2> HIDE DEF p
  <2>1. QED
    BY <1>1, <1>3, <1>4, <1>7, <1>8 DEF Settled

(* Every step keeps the inductive invariant; types are TypeStep's.          *)
LEMMA NextInv ==
  ASSUME IInv, [Next]_vars
  PROVE  IInv'
<1>1. TypeInv /\ TypeInv'
  BY TypeStep DEF IInv
<1>2. release \in ReleaseType
  BY <1>1, TypeParts DEF StoreOK
<1> SUFFICES UploadsHidden' /\ NoProofYet' /\ (pc' = "done" => Public') /\ (Final' => Settled')
  BY <1>1 DEF IInv
<1> USE DEF Goto, Fail
<1>3. ASSUME UNCHANGED store PROVE (Public' <=> Public) /\ (Settled => Settled')
  BY <1>3, SettledKept DEF store, Public
<1>4. ASSUME UNCHANGED <<release, evidence>> PROVE NoProofYet'
  BY <1>4 DEF IInv, NoProofYet, Named
<1>5. CASE Withdraw
  <2>1. \/ release' = [release EXCEPT !.draft = TRUE]
        \/ release' = release
    BY <1>5 DEF Withdraw
  <2>2. pc' = "viewDraft" /\ exists' = exists /\ orphans' = orphans /\ evidence' = evidence
    BY <1>5 DEF Withdraw
  <2>3. release'.assets = release.assets
    BY <1>2, <2>1 DEF ReleaseType
  <2>4. Public' => release' = release
    BY <1>2, <2>1 DEF ReleaseType, Public
  <2>5. Public' => Settled'
    BY <1>3, <2>2, <2>4 DEF IInv, Final, Public, store
  <2>6. QED
    BY <2>2, <2>3, <2>5 DEF IInv, UploadsHidden, NoProofYet, Named, Final
<1>6. CASE ViewDraft
  <2>1. UNCHANGED store /\ UNCHANGED <<release, evidence>>
    BY <1>6 DEF ViewDraft, store
  <2>2. /\ pc' \in {"viewAsset", "failed", "withdraw", "create"}
        /\ pc' = "viewAsset" => exists /\ ~Public
    BY <1>6 DEF ViewDraft, DraftReady, Public
  <2>3. QED
    BY <1>3, <1>4, <2>1, <2>2 DEF IInv, UploadsHidden, Final, store
<1>7. CASE Create
  <2>1. PICK c \in Call :
          LET made == c.effect /\ ~Public IN
          /\ exists' = (exists \/ made)
          /\ release' = IF made THEN NoAssets ELSE release
          /\ orphans' = IF made /\ exists THEN orphans + 1 ELSE orphans
    BY <1>7 DEF Create
  <2>2. pc' = "withdraw" /\ evidence' = evidence
    BY <1>7 DEF Create
  <2>3. CASE c.effect /\ ~Public
    <3>1. release' = NoAssets
      BY <2>1, <2>3
    <3>2. ~Public' /\ Named(release'.assets, Proof) = {}
      BY <3>1 DEF Public, NoAssets, Named
    <3>3. QED
      BY <2>2, <3>2 DEF UploadsHidden, NoProofYet, Final
  <2>4. CASE ~(c.effect /\ ~Public)
    <3>1. UNCHANGED store /\ release' = release
      BY <1>1, <2>1, <2>4, TypeParts DEF store, StoreOK
    <3>2. QED
      BY <1>3, <1>4, <2>2, <3>1 DEF IInv, UploadsHidden, Final
  <2>5. QED
    BY <2>3, <2>4
<1>8. CASE ViewAsset
  <2>1. UNCHANGED store /\ UNCHANGED <<release, evidence>>
    BY <1>8 DEF ViewAsset, store
  <2>2. pc = "viewAsset" /\ pc' \in {"viewAsset", "verify", "upload", "failed"}
    BY <1>8 DEF ViewAsset
  <2>3. QED
    BY <1>3, <1>4, <2>1, <2>2 DEF IInv, UploadsHidden, Final, store
<1>9. CASE Upload
  <2> DEFINE n == LocalAssets[k]
             rest == release.assets \ Named(release.assets, n)
  <2>1. PICK assets \in {rest \cup {u} : u \in Uploads(n)} \cup {rest, release.assets} :
          release' = IF exists THEN [release EXCEPT !.assets = assets] ELSE release
    <3>1. Asset(n, "uploaded", "whole", TRUE) \in Uploads(n)
      BY DEF Uploads, Asset
    <3>2. QED
      BY <1>9, <3>1 DEF Upload
  <2>2. n # Proof
    BY <1>1, TypeParts, IndexTyped, NameFacts DEF JobOK
  <2>3. Named(assets, Proof) \subseteq Named(release.assets, Proof)
    <3>1. \A u \in Uploads(n) : u.name = n
      BY DEF Uploads, Asset
    <3>2. QED
      BY <2>2, <3>1 DEF Named
  <2>4. NoProofYet'
    <3>1. release'.assets \in {assets, release.assets}
      BY <1>2, <2>1 DEF ReleaseType
    <3>2. evidence' = evidence
      BY <1>9 DEF Upload
    <3>3. QED
      BY <2>3, <3>1, <3>2 DEF IInv, NoProofYet
  <2>5. pc = "upload" /\ pc' = "viewAsset" /\ exists' = exists
    BY <1>9 DEF Upload
  <2>6. exists /\ ~Public
    BY <2>5 DEF IInv, UploadsHidden
  <2>7. release'.draft = release.draft
    BY <1>2, <2>1 DEF ReleaseType
  <2>8. QED
    BY <2>4, <2>5, <2>6, <2>7 DEF UploadsHidden, Public, Final
<1>10. CASE Verify
  <2>1. UNCHANGED store /\ UNCHANGED <<release, evidence>>
    BY <1>10 DEF Verify, store
  <2>2. /\ pc = "verify" /\ pc' \in {"publish", "verify", "failed"}
        /\ pc' = "publish" => exists /\ DraftValid(Manifest, Report, release, Local)
    BY <1>10 DEF Verify
  <2>3. pc' = "publish" => Settled
    BY <1>1, <2>2, TypeParts, ValidDraftSettled DEF StoreOK
  <2>4. QED
    BY <1>3, <1>4, <2>1, <2>2, <2>3 DEF IInv, UploadsHidden, Final, store
<1>11. CASE Publish
  <2>1. /\ pc = "publish" /\ pc' = "confirm" /\ exists' = exists /\ evidence' = evidence
        /\ \/ release' = [release EXCEPT !.draft = FALSE, !.prerelease = TRUE]
           \/ release' = release
    BY <1>11 DEF Publish
  <2>2. release'.assets = release.assets /\ release'.prerelease
    BY <1>2, <2>1 DEF ReleaseType
  <2>3. Settled
    BY <2>1 DEF IInv, Final
  <2>4. Settled'
    BY <2>1, <2>2, <2>3, SettledEdited
  <2>5. QED
    BY <2>1, <2>2, <2>4 DEF IInv, UploadsHidden, NoProofYet
<1>12. CASE Confirm
  <2>1. UNCHANGED store /\ UNCHANGED <<release, evidence>>
    BY <1>12 DEF Confirm, store
  <2>2. /\ pc = "confirm" /\ pc' \in {"done", "publish", "confirm", "failed"}
        /\ pc' = "done" => Public
    BY <1>12 DEF Confirm
  <2>3. QED
    BY <1>3, <1>4, <2>1, <2>2 DEF IInv, UploadsHidden, Final
<1>13. CASE Crash \/ Rerun
  <2>1. UNCHANGED store /\ UNCHANGED <<release, evidence>> /\ pc' \in {"withdraw", "failed"}
    BY <1>13 DEF Crash, Rerun, store
  <2>2. QED
    BY <1>3, <1>4, <2>1 DEF IInv, UploadsHidden, Final
<1>14. CASE DigestReady
  <2>1. PICK a \in release.assets :
          /\ a.state = "uploaded" /\ ~a.digested
          /\ release' = [release EXCEPT !.assets = (@ \ {a}) \cup {[a EXCEPT !.digested = TRUE]}]
    BY <1>14 DEF DigestReady
  <2>2. ~Final
    BY <2>1 DEF IInv, Settled
  <2>3. release'.draft = release.draft
    BY <1>2, <2>1 DEF ReleaseType
  <2>4. release'.assets = (release.assets \ {a}) \cup {[a EXCEPT !.digested = TRUE]}
    BY <1>2, <2>1 DEF ReleaseType
  <2>5. [a EXCEPT !.digested = TRUE].name = a.name
    <3>1. a \in AssetType
      BY <1>2 DEF ReleaseType
    <3>2. QED
      BY <3>1 DEF AssetType, Uploads, Asset
  <2>6. Named(release.assets, Proof) = {} => Named(release'.assets, Proof) = {}
    BY <2>4, <2>5 DEF Named
  <2>7. pc' = pc /\ exists' = exists /\ evidence' = evidence
    BY <1>14 DEF DigestReady, job
  <2>8. Public' <=> Public
    BY <2>3, <2>7 DEF Public
  <2>9. QED
    BY <2>2, <2>6, <2>7, <2>8 DEF IInv, UploadsHidden, NoProofYet, Final
<1>15. CASE CheckEvidence
  <2>1. UNCHANGED store /\ release' = release /\ pc' = pc /\ exists' = exists
        /\ evidence = "none" /\ evidence' = "checked"
    BY <1>15 DEF CheckEvidence, store, job
  <2>2. QED
    BY <1>3, <2>1 DEF IInv, UploadsHidden, NoProofYet, Final, Named
<1>16. CASE AttachEvidence
  <2>1. pc' = pc /\ exists' = exists /\ evidence' = "attached"
    BY <1>16 DEF AttachEvidence, job
  <2>2. release'.draft = release.draft
    BY <1>2, <1>16 DEF AttachEvidence, ReleaseType
  <2>3. Public' <=> Public
    BY <2>1, <2>2 DEF Public
  <2>4. Settled => Settled'
    BY <1>1, <1>16, SettledAttached DEF IInv
  <2>5. QED
    BY <2>1, <2>3, <2>4 DEF IInv, UploadsHidden, NoProofYet, Final
<1>17. CASE UNCHANGED vars
  <2>1. UNCHANGED store /\ UNCHANGED <<release, evidence>> /\ pc' = pc /\ exists' = exists
    BY <1>17 DEF vars, store
  <2>2. QED
    BY <1>3, <1>4, <2>1 DEF IInv, UploadsHidden, Final
<1>18. QED
  BY <1>5, <1>6, <1>7, <1>8, <1>9, <1>10, <1>11, <1>12, <1>13, <1>14, <1>15,
     <1>16, <1>17 DEF Next, JobStep

THEOREM Invariance == Spec => []IInv
<1>1. IInv /\ [Next]_vars => IInv'
  BY NextInv
<1>2. QED
  BY InitInv, <1>1, PTL DEF Spec

(* The state of the job and of the release keeps its types.                 *)
THEOREM TypeCorrect == Spec => []TypeOK
<1>1. IInv => TypeOK
  BY DEF IInv, TypeInv
<1>2. QED
  BY Invariance, <1>1, PTL

(* While the job compares, replaces or verifies assets the release is a     *)
(* draft, although the edit that makes it one may have failed unnoticed.    *)
THEOREM Hidden == Spec => []UploadsHidden
<1>1. IInv => UploadsHidden
  BY DEF IInv
<1>2. QED
  BY Invariance, <1>1, PTL

(* What the public can see the detect job of the next run accepts, with the *)
(* evidence the device jobs attach to it.                                   *)
THEOREM Accepted == Spec => []NextDetectAccepts
<1>1. IInv => NextDetectAccepts
  <2> SUFFICES ASSUME IInv, Public
               PROVE  StateValid(Manifest, Report) /\ ReleaseAssetsValid(Report, release, FALSE)
    BY DEF NextDetectAccepts
  <2>1. StateValid(Manifest, Report) /\ ReleaseAssetsValid(Report, release, TRUE)
    BY DEF IInv, Final, Settled
  <2>2. release.prerelease /\ ~release.draft
    BY <2>1 DEF Public, ReleaseAssetsValid, AssetMapValid
  <2>3. QED
    BY <2>1, <2>2, FlagsIrrelevant
<1>2. QED
  BY Invariance, <1>1, PTL

-----------------------------------------------------------------------------
(* The refinement.                                                         *)

LEMMA VisibleIs ==
  IInv => Visible = IF Public THEN "whole" ELSE "nothing"
  BY DEF IInv, Final, Settled, Visible

LEMMA InitImplements == Init => Promise!Init
  BY DEF Init, Visible, Public, Promise!Init

(* Every step of the job is one of the abstract specification or none.      *)
LEMMA NextImplements ==
  ASSUME IInv, IInv', [Next]_vars
  PROVE  [Promise!Next]_(Promise!vars)
<1> USE DEF Goto, Fail
<1>1. /\ Visible = IF Public THEN "whole" ELSE "nothing"
      /\ Visible' = IF Public' THEN "whole" ELSE "nothing"
  <2>1. Visible' = IF Public' THEN "whole" ELSE "nothing"
    BY DEF IInv, Final, Settled, Visible
  <2>2. QED
    BY <2>1, VisibleIs
<1>2. release \in ReleaseType
  BY TypeParts DEF IInv, StoreOK
<1>3. ASSUME Public' <=> Public, (pc' = "done") <=> (pc = "done")
      PROVE  UNCHANGED Promise!vars
  BY <1>1, <1>3 DEF Promise!vars
<1>4. ASSUME UNCHANGED store PROVE Public' <=> Public
  BY <1>4 DEF store, Public
<1>5. CASE Withdraw
  <2>1. /\ pc = "withdraw" /\ pc' = "viewDraft" /\ exists' = exists
        /\ \/ release' = [release EXCEPT !.draft = TRUE]
           \/ release' = release
    BY <1>5 DEF Withdraw
  <2>2. Public' => Public
    BY <1>2, <2>1 DEF ReleaseType, Public
  <2>3. CASE Public /\ ~Public'
    BY <1>1, <2>1, <2>3 DEF Promise!Next, Promise!Withdraw
  <2>4. CASE Public' <=> Public
    BY <1>3, <2>1, <2>4
  <2>5. QED
    BY <2>2, <2>3, <2>4
<1>6. CASE ViewDraft \/ ViewAsset \/ Verify \/ Crash
  <2>1. UNCHANGED store /\ pc # "done" /\ pc' # "done"
    BY <1>6 DEF ViewDraft, ViewAsset, Verify, Crash
  <2>2. QED
    BY <1>3, <1>4, <2>1
<1>7. CASE Create
  <2>1. PICK c \in Call :
          LET made == c.effect /\ ~Public IN
          /\ exists' = (exists \/ made)
          /\ release' = IF made THEN NoAssets ELSE release
    BY <1>7 DEF Create
  <2>2. pc = "create" /\ pc' = "withdraw"
    BY <1>7 DEF Create
  <2>3. Public' <=> Public
    <3>1. CASE c.effect /\ ~Public
      BY <2>1, <3>1 DEF Public, NoAssets
    <3>2. CASE ~(c.effect /\ ~Public)
      BY <2>1, <3>2 DEF Public
    <3>3. QED
      BY <3>1, <3>2
  <2>4. QED
    BY <1>3, <2>2, <2>3
<1>8. CASE Upload
  <2>1. pc = "upload" /\ pc' = "viewAsset"
    BY <1>8 DEF Upload
  <2>2. ~Public /\ ~Public'
    BY <2>1 DEF IInv, UploadsHidden
  <2>3. QED
    BY <1>3, <2>1, <2>2
<1>9. CASE Publish
  <2>1. pc = "publish" /\ pc' = "confirm"
    BY <1>9 DEF Publish
  <2>2. CASE Public <=> Public'
    BY <1>3, <2>1, <2>2
  <2>3. CASE ~Public /\ Public'
    BY <1>1, <2>1, <2>3 DEF Promise!Next, Promise!Publish
  <2>4. CASE Public /\ ~Public'
    <3>1. exists' = exists
          /\ (\/ release' = [release EXCEPT !.draft = FALSE, !.prerelease = TRUE]
              \/ release' = release)
      BY <1>9 DEF Publish
    <3>2. Public'
      BY <1>2, <2>4, <3>1 DEF Public, ReleaseType
    <3>3. QED
      BY <2>4, <3>2
  <2>5. QED
    BY <2>2, <2>3, <2>4
<1>10. CASE Confirm
  <2>1. UNCHANGED store /\ pc = "confirm"
    BY <1>10 DEF Confirm
  <2>2. CASE pc' = "done"
    <3>1. Public'
      BY <2>2 DEF IInv
    <3>2. QED
      BY <1>1, <1>4, <2>1, <2>2, <3>1 DEF Promise!Next, Promise!Succeed
  <2>3. CASE pc' # "done"
    BY <1>3, <1>4, <2>1, <2>3
  <2>4. QED
    BY <2>2, <2>3
<1>11. CASE Rerun
  <2>1. UNCHANGED store /\ pc' = "withdraw"
    BY <1>11 DEF Rerun
  <2>2. CASE pc = "done"
    BY <1>1, <1>4, <2>1, <2>2 DEF Promise!Next, Promise!StartOver
  <2>3. CASE pc # "done"
    BY <1>3, <1>4, <2>1, <2>3
  <2>4. QED
    BY <2>2, <2>3
<1>12. CASE DigestReady \/ AttachEvidence
  <2>1. pc' = pc /\ exists' = exists
    BY <1>12 DEF DigestReady, AttachEvidence, job
  <2>2. release'.draft = release.draft
    BY <1>2, <1>12 DEF DigestReady, AttachEvidence, ReleaseType
  <2>3. QED
    BY <1>3, <2>1, <2>2 DEF Public
<1>13. CASE CheckEvidence
  BY <1>3, <1>4, <1>13 DEF CheckEvidence, job
<1>14. CASE UNCHANGED vars
  BY <1>3, <1>4, <1>14 DEF vars, store
<1>15. QED
  BY <1>5, <1>6, <1>7, <1>8, <1>9, <1>10, <1>11, <1>12, <1>13, <1>14 DEF Next, JobStep

(* The job shows its readers nothing or the whole build, and reports        *)
(* success only over a whole one, in every order of failures, deaths and    *)
(* reruns.                                                                  *)
THEOREM Refines == Spec => Implements
<1>1. IInv /\ IInv' /\ [Next]_vars => [Promise!Next]_(Promise!vars)
  BY NextImplements
<1>2. QED
  BY InitImplements, Invariance, <1>1, PTL DEF Spec, Implements, Promise!Spec

-----------------------------------------------------------------------------
(* A run in which no call fails, and the end of every run.                  *)

(* A local file as the job wants it in the release.                         *)
Intact(n) == Asset(n, "uploaded", "whole", TRUE)
Stored(n) == Named(release.assets, n) = {Intact(n)}

(* The candidate is one that the workflow's own check lets pass once its    *)
(* files are in a draft: validate-candidate-artifacts.mjs has seen to that. *)
WellBuilt ==
  DraftValid(Manifest, Report,
             [draft |-> TRUE, prerelease |-> TRUE,
              assets |-> {Intact(n) : n \in LocalNames}],
             Local)

(* A run that nothing disturbs: no call fails, and no file is attached.     *)
Working     == pc \notin {"done", "failed"}
Undisturbed == healthy /\ evidence # "attached" /\ Working

OneEach == \A a, b \in release.assets : a.name = b.name => a = b

(* Such a run is waiting for no digest, has a draft once it has looked for  *)
(* one, has in it the files it has passed, and never repeats a call.        *)
Digests == \A a \in release.assets : a.state = "uploaded" => a.digested
Drafted ==
  /\ pc \in {"withdraw", "viewDraft"} => exists \/ (~accepted /\ attempt = 1)
  /\ pc = "viewDraft" /\ exists => release.draft
  /\ pc = "create" => ~exists
Passed ==
  /\ pc \in {"viewAsset", "upload"} => \A i \in 1..(k - 1) : Stored(LocalAssets[i])
  /\ pc = "viewAsset" => attempt = 1 \/ Stored(LocalAssets[k])
  /\ pc = "verify" => \A n \in LocalNames : Stored(n)
  /\ pc = "confirm" => Public
Mending == OneEach /\ (Undisturbed => Digests /\ Drafted /\ Passed)

LEMMA NamesKept ==
  ASSUME NEW n, NEW u \in Uploads(n)
  PROVE  u.name = n
  BY DEF Uploads, Asset

(* No name is in the release twice, whatever is uploaded, shown or attached. *)
LEMMA OneEachStep ==
  ASSUME IInv, OneEach, [Next]_vars
  PROVE  OneEach'
<1>1. release \in ReleaseType
  BY TypeParts DEF IInv, StoreOK
<1>2. CASE release'.assets = release.assets
  BY <1>2 DEF OneEach
<1>3. CASE Withdraw \/ Publish
  <2>1. release'.assets = release.assets
    BY <1>1, <1>3 DEF Withdraw, Publish, ReleaseType
  <2>2. QED
    BY <1>2, <2>1
<1>4. CASE Create
  <2>1. release'.assets \in {{}, release.assets}
    BY <1>4 DEF Create, NoAssets
  <2>2. QED
    BY <2>1 DEF OneEach
<1>5. CASE Upload
  <2> DEFINE n == LocalAssets[k]
             rest == release.assets \ Named(release.assets, n)
  <2>1. PICK assets \in {rest \cup {u} : u \in Uploads(n)} \cup {rest, release.assets} :
          release' = IF exists THEN [release EXCEPT !.assets = assets] ELSE release
    <3>1. Asset(n, "uploaded", "whole", TRUE) \in Uploads(n)
      BY DEF Uploads, Asset
    <3>2. QED
      BY <1>5, <3>1 DEF Upload
  <2>2. release'.assets \in {assets, release.assets}
    BY <1>1, <2>1 DEF ReleaseType
  <2>3. \A a, b \in assets : a.name = b.name => a = b
    <3>1. CASE assets \in {rest, release.assets}
      BY <3>1 DEF OneEach
    <3>2. CASE \E u \in Uploads(n) : assets = rest \cup {u}
      BY <3>2, NamesKept DEF OneEach, Named
    <3>3. QED
      BY <2>1, <3>1, <3>2
  <2>4. QED
    BY <2>2, <2>3 DEF OneEach
<1>6. CASE DigestReady
  <2>1. PICK a \in release.assets :
          release' = [release EXCEPT !.assets = (@ \ {a}) \cup {[a EXCEPT !.digested = TRUE]}]
    BY <1>6 DEF DigestReady
  <2>2. release'.assets = (release.assets \ {a}) \cup {[a EXCEPT !.digested = TRUE]}
    BY <1>1, <2>1 DEF ReleaseType
  <2>3. [a EXCEPT !.digested = TRUE].name = a.name
    <3>1. a \in AssetType
      BY <1>1 DEF ReleaseType
    <3>2. QED
      BY <3>1 DEF AssetType, Uploads, Asset
  <2>4. QED
    BY <2>2, <2>3 DEF OneEach
<1>7. CASE AttachEvidence
  <2>1. release'.assets = release.assets \cup {Asset(Proof, "uploaded", "whole", TRUE)}
    BY <1>1, <1>7 DEF AttachEvidence, ReleaseType
  <2>2. Named(release.assets, Proof) = {}
    BY <1>7 DEF AttachEvidence, IInv, NoProofYet
  <2>3. Asset(Proof, "uploaded", "whole", TRUE).name = Proof
    BY DEF Asset
  <2>4. QED
    BY <2>1, <2>2, <2>3 DEF OneEach, Named
<1>8. CASE ViewDraft \/ ViewAsset \/ Verify \/ Confirm \/ Crash \/ Rerun \/ CheckEvidence
             \/ UNCHANGED vars
  BY <1>2, <1>8 DEF ViewDraft, ViewAsset, Verify, Confirm, Crash, Rerun, CheckEvidence, store, vars
<1>9. QED
  BY <1>3, <1>4, <1>5, <1>6, <1>7, <1>8 DEF Next, JobStep

(* What remote_asset_matches answers when the digests are shown.            *)
LEMMA MatchIsStored ==
  ASSUME release \in ReleaseType, OneEach, Digests, NEW n \in LocalNames,
         exists, Matches(n, TRUE) = 0
  PROVE  Stored(n)
<1> DEFINE remote == {a \in Named(release.assets, n) :
                        a.state = "uploaded" /\ SizeOf[a.bytes] = SizeOf[Local[n]]}
<1>1. remote # {} /\ \A a \in remote : a.bytes = Local[n]
  BY DEF Matches
<1>2. PICK a \in remote : TRUE
  BY <1>1
<1>3. /\ a \in release.assets /\ a.name = n /\ a.state = "uploaded"
      /\ a.bytes = "whole" /\ a.digested
  BY <1>1, <1>2 DEF Named, Local, Digests
<1>4. a = Intact(n)
  <2>1. PICK m \in LocalNames \cup {Proof} : a \in Uploads(m)
    BY <1>3 DEF ReleaseType, AssetType
  <2>2. a \in [name : {m}, state : {"uploaded"}, bytes : {"whole", "cut", "damaged"},
                digested : BOOLEAN]
    BY <1>3, <2>1 DEF Uploads, Asset
  <2>3. a = [name |-> a.name, state |-> a.state, bytes |-> a.bytes, digested |-> a.digested]
    BY <2>2
  <2>4. QED
    BY <1>3, <2>3 DEF Intact, Asset
<1>5. QED
  BY <1>3, <1>4 DEF Stored, Named, OneEach

LEMMA StoredMatches ==
  ASSUME NEW n \in LocalNames, exists, Stored(n)
  PROVE  Matches(n, TRUE) = 0
<1> DEFINE remote == {a \in Named(release.assets, n) :
                        a.state = "uploaded" /\ SizeOf[a.bytes] = SizeOf[Local[n]]}
<1>1. /\ Intact(n).state = "uploaded" /\ Intact(n).bytes = Local[n] /\ Intact(n).digested
  BY DEF Intact, Asset, Local
<1>2. remote = {Intact(n)}
  BY <1>1 DEF Stored
<1>3. QED
  BY <1>1, <1>2 DEF Matches

(* A file may differ or be missing, but never stays undecided.              *)
LEMMA AnswerIsClear ==
  ASSUME release \in ReleaseType, Digests, NEW n, exists
  PROVE  Matches(n, TRUE) \in {0, 1}
  BY DEF Matches, Digests, Named

(* A draft that holds what the job has stored passes the verification.      *)
LEMMA StoredIsValid ==
  ASSUME IInv, WellBuilt, exists, pc = "verify", evidence # "attached",
         \A n \in LocalNames : Stored(n)
  PROVE  DraftValid(Manifest, Report, release, Local)
<1>1. release \in ReleaseType
  BY TypeParts DEF IInv, StoreOK
<1>2. release.draft = TRUE /\ release.prerelease = TRUE
  BY <1>1 DEF IInv, UploadsHidden, Public, ReleaseType
<1>3. \A a \in release.assets : a.name \in LocalNames
  <2>1. SUFFICES ASSUME NEW a \in release.assets PROVE a.name \in LocalNames
    OBVIOUS
  <2>2. PICK n \in LocalNames \cup {Proof} : a \in Uploads(n)
    BY <1>1 DEF ReleaseType, AssetType
  <2>3. a.name = n
    BY <2>2, NamesKept
  <2>4. n # Proof
    BY <2>3 DEF IInv, NoProofYet, Named
  <2>5. QED
    BY <2>2, <2>3, <2>4
<1>4. release.assets = {Intact(n) : n \in LocalNames}
  <2>1. \A n \in LocalNames : Intact(n) \in release.assets
    BY DEF Stored, Named
  <2>2. \A a \in release.assets : a = Intact(a.name)
    BY <1>3 DEF Stored, Named
  <2>3. QED
    BY <1>3, <2>1, <2>2
<1>5. release = [draft |-> TRUE, prerelease |-> TRUE,
                 assets |-> {Intact(n) : n \in LocalNames}]
  <2>1. release = [draft |-> release.draft, prerelease |-> release.prerelease,
                   assets |-> release.assets]
    BY <1>1 DEF ReleaseType
  <2>2. QED
    BY <1>2, <1>4, <2>1
<1>6. QED
  BY <1>5 DEF WellBuilt

(* An undisturbed run goes on as planned and does not fail.                 *)
LEMMA MendingStep ==
  ASSUME IInv, IInv', Mending, WellBuilt, [Next]_vars, Undisturbed
  PROVE  pc' # "failed" /\ (Undisturbed' => Digests' /\ Drafted' /\ Passed')
<1> USE DEF Goto, Fail
<1>1. /\ release \in ReleaseType /\ exists \in BOOLEAN
      /\ healthy /\ evidence # "attached" /\ Working
      /\ OneEach /\ Digests /\ Drafted /\ Passed
  BY TypeParts DEF IInv, StoreOK, Undisturbed, Mending
<1>2. /\ k \in 1..Len(LocalAssets) /\ Len(LocalAssets) \in Nat /\ attempt \in Nat
      /\ Attempts \in Nat \ {0}
      /\ LocalAssets[k] \in LocalNames
  BY TypeParts, IndexTyped, Bounds DEF IInv, JobOK
<1>3. (\A c \in Call : c.effect /\ c.ok) /\ ViewAnswers = {TRUE}
  BY <1>1 DEF Call, ViewAnswers
<1>4. ASSUME UNCHANGED release PROVE Digests' /\ \A n : Stored(n)' <=> Stored(n)
  BY <1>1, <1>4 DEF Digests, Stored
<1>5. CASE Withdraw
  <2>1. /\ pc = "withdraw" /\ pc' = "viewDraft" /\ UNCHANGED <<exists, accepted, attempt>>
        /\ exists => release' = [release EXCEPT !.draft = TRUE]
        /\ ~exists => release' = release
    BY <1>3, <1>5 DEF Withdraw
  <2>2. release'.assets = release.assets /\ (exists => release'.draft)
    BY <1>1, <2>1 DEF ReleaseType
  <2>3. QED
    BY <1>1, <2>1, <2>2 DEF Digests, Drafted, Passed
<1>6. CASE ViewDraft
  <2>1. /\ pc = "viewDraft" /\ k' = 1 /\ UNCHANGED <<exists, release, accepted>>
        /\ \/ DraftReady /\ pc' = "viewAsset" /\ attempt' = 1
           \/ /\ ~DraftReady
              /\ \/ attempt > Attempts /\ pc' = "failed"
                 \/ attempt <= Attempts /\ accepted /\ pc' = "withdraw"
                 \/ attempt <= Attempts /\ ~accepted /\ pc' = "create"
    BY <1>3, <1>6 DEF ViewDraft, store
  <2>2. exists => DraftReady
    BY <1>1, <2>1 DEF Drafted, DraftReady, ReleaseType
  <2>3. CASE exists
    BY <1>4, <2>1, <2>2, <2>3 DEF Drafted, Passed
  <2>4. CASE ~exists
    <3>1. ~accepted /\ attempt = 1
      BY <1>1, <2>1, <2>4 DEF Drafted
    <3>2. pc' = "create"
      BY <1>2, <2>1, <2>4, <3>1 DEF DraftReady
    <3>3. QED
      BY <1>4, <2>1, <2>4, <3>2 DEF Drafted, Passed
  <2>5. QED
    BY <2>3, <2>4
<1>7. CASE Create
  <2>1. ~exists /\ pc = "create"
    BY <1>1, <1>7 DEF Create, Drafted
  <2>2. pc' = "withdraw" /\ exists' /\ release' = NoAssets
    BY <1>3, <1>7, <2>1 DEF Create, Public
  <2>3. QED
    BY <2>2 DEF Digests, Drafted, Passed, NoAssets
<1>8. CASE ViewAsset
  <2>1. pc = "viewAsset" /\ UNCHANGED <<exists, release>> /\ exists
    BY <1>8 DEF ViewAsset, store, IInv, UploadsHidden
  <2> DEFINE status == Matches(LocalAssets[k], TRUE)
  <2>2. \/ status = 0 /\ k < Len(LocalAssets) /\ k' = k + 1 /\ pc' = "viewAsset" /\ attempt' = 1
        \/ status = 0 /\ k = Len(LocalAssets) /\ k' = k /\ pc' = "verify"
        \/ status # 0 /\ attempt > Attempts /\ k' = k /\ pc' = "failed"
        \/ status = 1 /\ attempt <= Attempts /\ k' = k /\ pc' = "upload"
        \/ status = 2 /\ attempt <= Attempts /\ k' = k /\ pc' = "viewAsset"
    BY <1>3, <1>8 DEF ViewAsset
  <2>3. status \in {0, 1} /\ (status = 0 => Stored(LocalAssets[k]))
    BY <1>1, <1>2, <2>1, MatchIsStored, AnswerIsClear
  <2>4. status # 0 => attempt = 1
    BY <1>1, <1>2, <2>1, StoredMatches DEF Passed
  <2> HIDE DEF status
  <2>5. \A i \in 1..(k - 1) : Stored(LocalAssets[i])
    BY <1>1, <2>1 DEF Passed
  <2>6. CASE status = 0
    <3>1. \A i \in 1..k : Stored(LocalAssets[i])
      BY <1>2, <2>3, <2>5, <2>6
    <3>2. CASE k < Len(LocalAssets)
      <4>1. pc' = "viewAsset" /\ attempt' = 1 /\ k' - 1 = k
        BY <1>2, <2>2, <2>6, <3>2
      <4>2. QED
        BY <1>4, <2>1, <3>1, <4>1 DEF Drafted, Passed
    <3>3. CASE k = Len(LocalAssets)
      <4>1. pc' = "verify"
        BY <1>2, <2>2, <2>6, <3>3
      <4>2. \A n \in LocalNames : Stored(n)
        BY <3>1, <3>3, IndexTyped DEF LocalNames
      <4>3. QED
        BY <1>4, <2>1, <4>1, <4>2 DEF Drafted, Passed
    <3>4. QED
      BY <1>2, <3>2, <3>3
  <2>7. CASE status = 1
    <3>1. pc' = "upload" /\ k' = k
      BY <1>2, <2>2, <2>4, <2>7
    <3>2. QED
      BY <1>4, <2>1, <2>5, <3>1 DEF Drafted, Passed
  <2>8. QED
    BY <2>3, <2>6, <2>7
<1>9. CASE Upload
  <2> DEFINE n == LocalAssets[k]
             rest == release.assets \ Named(release.assets, n)
  <2>1. /\ pc = "upload" /\ pc' = "viewAsset" /\ k' = k /\ exists
        /\ release' = [release EXCEPT !.assets = rest \cup {Intact(n)}]
    BY <1>1, <1>9 DEF Upload, IInv, UploadsHidden, Intact
  <2>2. release'.assets = rest \cup {Intact(n)}
    BY <1>1, <2>1 DEF ReleaseType
  <2>3. Intact(n).name = n /\ Intact(n).digested
    BY DEF Intact, Asset
  <2>4. Digests'
    BY <1>1, <2>2, <2>3 DEF Digests
  <2>5. Named(release'.assets, n) = {Intact(n)}
    BY <2>2, <2>3 DEF Named
  <2>6. ASSUME NEW m, Stored(m) PROVE Named(release'.assets, m) = {Intact(m)}
    <3>1. CASE m = n
      BY <2>5, <3>1
    <3>2. CASE m # n
      <4>1. Named(release'.assets, m) = Named(release.assets, m)
        BY <2>2, <2>3, <3>2 DEF Named
      <4>2. QED
        BY <2>6, <4>1 DEF Stored
    <3>3. QED
      BY <3>1, <3>2
  <2>7. Passed'
    <3> HIDE DEF n
    <3>1. \A i \in 1..(k - 1) :
             Named(release'.assets, LocalAssets[i]) = {Intact(LocalAssets[i])}
      BY <1>1, <2>1, <2>6 DEF Passed
    <3>2. Named(release'.assets, LocalAssets[k]) = {Intact(LocalAssets[k])}
      BY <2>5 DEF n
    <3>3. QED
      BY <2>1, <3>1, <3>2 DEF Passed, Stored
  <2>8. QED
    BY <2>1, <2>4, <2>7 DEF Drafted
<1>10. CASE Verify
  <2>1. DraftValid(Manifest, Report, release, Local) /\ exists /\ pc = "verify"
    BY <1>1, <1>10, StoredIsValid DEF Verify, Passed, IInv, UploadsHidden
  <2>2. pc' = "publish" /\ release' = release
    BY <1>3, <1>10, <2>1 DEF Verify, store
  <2>3. QED
    BY <1>4, <2>2 DEF Drafted, Passed
<1>11. CASE Publish
  <2>1. /\ pc = "publish" /\ pc' = "confirm" /\ exists /\ exists' = exists
        /\ release' = [release EXCEPT !.draft = FALSE, !.prerelease = TRUE]
    BY <1>3, <1>11 DEF Publish, IInv, Final, Settled
  <2>2. release'.assets = release.assets /\ ~release'.draft
    BY <1>1, <2>1 DEF ReleaseType
  <2>3. QED
    BY <1>1, <2>1, <2>2 DEF Digests, Drafted, Passed, Public
<1>12. CASE Confirm
  <2>1. Public /\ release.prerelease
    BY <1>1, <1>12 DEF Confirm, Passed, ReleaseType
  <2>2. pc' = "done"
    BY <1>3, <1>12, <2>1 DEF Confirm
  <2>3. QED
    BY <2>2 DEF Undisturbed, Working
<1>13. ~Crash /\ ~Rerun /\ ~DigestReady
  BY <1>1 DEF Crash, Rerun, DigestReady, Digests, Working
<1>14. CASE AttachEvidence
  BY <1>1, <1>14 DEF AttachEvidence, Undisturbed, job, Working
<1>15. CASE CheckEvidence \/ UNCHANGED vars
  <2>1. UNCHANGED <<store, job>> /\ UNCHANGED release
    BY <1>15 DEF CheckEvidence, vars, store, job
  <2>2. QED
    BY <1>1, <1>4, <2>1 DEF Drafted, Passed, Public, Working, store, job
<1>16. QED
  BY <1>5, <1>6, <1>7, <1>8, <1>9, <1>10, <1>11, <1>12, <1>13, <1>14, <1>15
     DEF Next, JobStep

(* A run becomes undisturbed only by being started.                         *)
LEMMA MendingBegins ==
  ASSUME [Next]_vars, ~Undisturbed, Undisturbed'
  PROVE  Digests' /\ Drafted' /\ Passed'
<1>1. CASE Rerun
  <2>1. /\ pc' = "withdraw" /\ attempt' = 1 /\ accepted' = FALSE /\ release' = release
        /\ \A a \in release.assets : a.state = "uploaded" => a.digested
    BY <1>1 DEF Rerun, Goto, store, Undisturbed
  <2>2. QED
    BY <2>1 DEF Digests, Drafted, Passed
<1>2. CASE ~Rerun
  BY <1>2 DEF Next, JobStep, Withdraw, ViewDraft, Create, ViewAsset, Upload, Verify, Publish,
              Confirm, Crash, DigestReady, CheckEvidence, AttachEvidence, Undisturbed, Working,
              Goto, Fail, job, vars
<1>3. QED
  BY <1>1, <1>2

(* What makes RerunRecovers hold: wherever earlier runs stopped, a run of a *)
(* well-built candidate in which no call fails does not fail, as long as    *)
(* device evidence is not attached to the release before it ends.           *)
THEOREM HealthyRunsSucceed ==
  ASSUME WellBuilt
  PROVE  Spec => [][Undisturbed => pc' # "failed"]_vars
<1>1. Init => Mending
  <2>1. ASSUME Init PROVE release.assets = {} /\ pc = "withdraw" /\ ~accepted /\ attempt = 1
    BY <2>1 DEF Init, NoAssets
  <2>2. QED
    BY <2>1 DEF Mending, OneEach, Digests, Drafted, Passed
<1>2. IInv /\ IInv' /\ Mending /\ [Next]_vars => Mending'
  <2>1. SUFFICES ASSUME IInv, IInv', Mending, [Next]_vars PROVE Mending'
    OBVIOUS
  <2>2. OneEach'
    BY <2>1, OneEachStep DEF Mending
  <2>3. Undisturbed' => Digests' /\ Drafted' /\ Passed'
    BY <2>1, MendingStep, MendingBegins
  <2>4. QED
    BY <2>2, <2>3 DEF Mending
<1>3. IInv /\ IInv' /\ Mending /\ [Next]_vars => [Undisturbed => pc' # "failed"]_vars
  BY MendingStep
<1>4. QED
  BY Invariance, <1>1, <1>2, <1>3, PTL DEF Spec

(* How far a run is from its end.  A loop makes two calls for each try and  *)
(* one look after the last, the one that makes the draft three; FilesCost   *)
(* is what the files after the present one may cost.                        *)
TriesLeft   == Attempts + 1 - attempt
LoopCost    == 2 * Attempts + 2
FilesCost   == (Len(LocalAssets) - k) * LoopCost
PublishCost == 3 * Attempts + 3
AssetsCost  == PublishCost + Len(LocalAssets) * LoopCost

CallsLeft ==
  IF pc = "withdraw" THEN AssetsCost + 3 * TriesLeft + 3
  ELSE IF pc = "viewDraft" THEN AssetsCost + 3 * TriesLeft + 2
  ELSE IF pc = "create" THEN AssetsCost + 3 * TriesLeft + 1
  ELSE IF pc = "viewAsset" THEN PublishCost + FilesCost + 2 * TriesLeft + 2
  ELSE IF pc = "upload" THEN PublishCost + FilesCost + 2 * TriesLeft + 1
  ELSE IF pc = "verify" THEN LoopCost + 1 + TriesLeft
  ELSE IF pc = "publish" THEN 2 * TriesLeft + 2
  ELSE IF pc = "confirm" THEN 2 * TriesLeft + 1
  ELSE 0

CallsBound == AssetsCost + 3 * Attempts + 3

LEMMA ProductFacts ==
  /\ \A x, y \in Nat : x * y \in Nat
  /\ \A x, y \in Int : x * y \in Int /\ (x - 1) * y = x * y - y
  /\ \A x, y, z \in Nat : x <= y => x * z <= y * z
  OBVIOUS

LEMMA CostTypes ==
  ASSUME JobOK
  PROVE  /\ Attempts \in Nat \ {0} /\ TriesLeft \in 0..Attempts
         /\ LoopCost \in Nat /\ PublishCost \in Nat /\ AssetsCost \in Nat
         /\ FilesCost \in Nat /\ FilesCost + LoopCost <= AssetsCost - PublishCost
<1> DEFINE left == Len(LocalAssets) - k
<1>1. /\ Attempts \in Nat \ {0} /\ attempt \in 1..(Attempts + 1)
      /\ Len(LocalAssets) \in Nat /\ k \in 1..Len(LocalAssets)
  BY Bounds, IndexTyped DEF JobOK
<1>2. /\ TriesLeft \in 0..Attempts
      /\ LoopCost \in Nat /\ PublishCost \in Nat
      /\ left \in Nat /\ left + 1 <= Len(LocalAssets)
  BY <1>1 DEF TriesLeft, LoopCost, PublishCost
<1>3. Len(LocalAssets) * LoopCost \in Nat /\ left * LoopCost \in Nat
  BY <1>1, <1>2, ProductFacts
<1>4. left * LoopCost + LoopCost <= Len(LocalAssets) * LoopCost
  <2>1. (left + 1) * LoopCost <= Len(LocalAssets) * LoopCost
    BY <1>1, <1>2, ProductFacts
  <2>2. (left + 1) * LoopCost - LoopCost = left * LoopCost
    <3>1. left + 1 \in Int /\ left + 1 - 1 = left
      BY <1>2
    <3>2. QED
      BY <1>2, <3>1, ProductFacts
  <2>3. (left + 1) * LoopCost \in Nat
    BY <1>2, ProductFacts
  <2>4. QED
    <3> DEFINE a == (left + 1) * LoopCost
               b == left * LoopCost
               c == Len(LocalAssets) * LoopCost
    <3>1. /\ a \in Nat /\ b \in Nat /\ c \in Nat /\ LoopCost \in Nat
          /\ a <= c /\ a - LoopCost = b
      BY <1>2, <1>3, <2>1, <2>2, <2>3
    <3> HIDE DEF a, b, c, left
    <3>2. b + LoopCost <= c
      BY <3>1
    <3>3. QED
      BY <3>2 DEF b, c
<1>5. FilesCost = left * LoopCost /\ AssetsCost - PublishCost = Len(LocalAssets) * LoopCost
      /\ AssetsCost \in Nat
  BY <1>2, <1>3 DEF FilesCost, AssetsCost
<1>6. QED
  <2> HIDE DEF left
  <2>1. QED
    BY <1>1, <1>2, <1>3, <1>4, <1>5

LEMMA CallsLeftType == JobOK => CallsLeft \in 0..CallsBound
<1> SUFFICES ASSUME JobOK PROVE CallsLeft \in 0..CallsBound
  OBVIOUS
<1>1. /\ Attempts \in Nat \ {0} /\ TriesLeft \in 0..Attempts
      /\ LoopCost \in Nat /\ PublishCost \in Nat /\ AssetsCost \in Nat
      /\ FilesCost \in Nat /\ FilesCost + LoopCost <= AssetsCost - PublishCost
  BY CostTypes
<1>2. LoopCost = 2 * Attempts + 2 /\ PublishCost = 3 * Attempts + 3
      /\ CallsBound = AssetsCost + 3 * Attempts + 3
  BY DEF LoopCost, PublishCost, CallsBound
<1>3. QED
  BY <1>1, <1>2 DEF CallsLeft

(* Every call takes the run nearer to its end.                              *)
LEMMA RunGoesOn ==
  ASSUME IInv, IInv', JobStep
  PROVE  CallsLeft' < CallsLeft
<1> USE DEF Goto, Fail
<1>1. /\ JobOK /\ JobOK' /\ attempt \in Int
      /\ pc \in {"create", "upload"} => attempt <= Attempts
  BY TypeParts DEF IInv, TypeInv, TypeOK, JobOK
<1>2. /\ Attempts \in Nat \ {0} /\ TriesLeft \in 0..Attempts
      /\ LoopCost \in Nat /\ PublishCost \in Nat /\ AssetsCost \in Nat
      /\ FilesCost \in Nat /\ FilesCost + LoopCost <= AssetsCost - PublishCost
      /\ LoopCost = 2 * Attempts + 2 /\ PublishCost = 3 * Attempts + 3
  BY <1>1, CostTypes DEF LoopCost, PublishCost
<1>3. /\ attempt' = attempt => TriesLeft' = TriesLeft
      /\ attempt' = attempt + 1 => TriesLeft' = TriesLeft - 1
      /\ attempt' = 1 => TriesLeft' = Attempts
      /\ attempt <= Attempts => TriesLeft >= 1
      /\ attempt < Attempts => TriesLeft >= 2
  BY <1>1, <1>2 DEF TriesLeft
<1>4. LoopCost' = LoopCost /\ PublishCost' = PublishCost /\ AssetsCost' = AssetsCost
  BY DEF LoopCost, PublishCost, AssetsCost
<1>5. ASSUME k' = k PROVE FilesCost' = FilesCost
  BY <1>5 DEF FilesCost, LoopCost
<1>5a. ASSUME k' = 1 PROVE FilesCost' = AssetsCost - PublishCost - LoopCost
  <2>1. Len(LocalAssets) \in Int /\ LoopCost \in Int
    BY <1>2, IndexTyped
  <2>2. (Len(LocalAssets) - 1) * LoopCost = Len(LocalAssets) * LoopCost - LoopCost
    BY <2>1, ProductFacts
  <2>3. FilesCost' = Len(LocalAssets) * LoopCost - LoopCost
    BY <1>5a, <2>2 DEF FilesCost, LoopCost
  <2>4. Len(LocalAssets) * LoopCost \in Int
    BY <2>1, ProductFacts
  <2>5. QED
    BY <1>2, <2>3, <2>4 DEF AssetsCost
<1>5b. ASSUME k' = k + 1 PROVE FilesCost' = FilesCost - LoopCost
  <2>1. Len(LocalAssets) - k \in Int /\ LoopCost \in Int
    BY <1>1, <1>2, IndexTyped DEF JobOK
  <2>2. Len(LocalAssets) - k' = (Len(LocalAssets) - k) - 1
    BY <1>1, <1>5b, IndexTyped DEF JobOK
  <2>3. QED
    BY <1>4, <2>1, <2>2, ProductFacts DEF FilesCost
<1>6. CASE Withdraw
  BY <1>2, <1>3, <1>4, <1>6 DEF Withdraw, CallsLeft
<1>7. CASE ViewDraft
  <2>1. /\ pc = "viewDraft" /\ k' = 1
        /\ \/ pc' = "viewAsset" /\ attempt' = 1
           \/ pc' = "failed"
           \/ pc' = "withdraw" /\ attempt' = attempt + 1
           \/ pc' = "create" /\ attempt' = attempt
    BY <1>7 DEF ViewDraft
  <2>2. QED
    BY <1>2, <1>3, <1>4, <1>5, <1>5a, <1>5b, <2>1 DEF CallsLeft
<1>8. CASE Create
  <2>1. pc = "create" /\ pc' = "withdraw" /\ attempt' = attempt + 1
    BY <1>8 DEF Create
  <2>2. QED
    BY <1>2, <1>3, <1>4, <2>1 DEF CallsLeft
<1>9. CASE ViewAsset
  <2>1. /\ pc = "viewAsset"
        /\ \/ k' = k + 1 /\ pc' = "viewAsset" /\ attempt' = 1
           \/ k' = k /\ pc' = "verify" /\ attempt' = 1
           \/ pc' = "failed"
           \/ k' = k /\ pc' = "upload" /\ attempt' = attempt
           \/ k' = k /\ pc' = "viewAsset" /\ attempt' = attempt + 1
    BY <1>9 DEF ViewAsset
  <2>2. QED
    BY <1>2, <1>3, <1>4, <1>5, <1>5a, <1>5b, <2>1 DEF CallsLeft
<1>10. CASE Upload
  <2>1. pc = "upload" /\ pc' = "viewAsset" /\ attempt' = attempt + 1 /\ k' = k
    BY <1>10 DEF Upload
  <2>2. QED
    BY <1>2, <1>3, <1>4, <1>5, <1>5a, <1>5b, <2>1 DEF CallsLeft
<1>11. CASE Verify
  <2>1. /\ pc = "verify"
        /\ \/ pc' = "publish" /\ attempt' = 1
           \/ pc' = "verify" /\ attempt' = attempt + 1
           \/ pc' = "failed"
    BY <1>11 DEF Verify
  <2>2. QED
    BY <1>2, <1>3, <1>4, <2>1 DEF CallsLeft
<1>12. CASE Publish
  <2>1. pc = "publish" /\ pc' = "confirm" /\ attempt' = attempt
    BY <1>12 DEF Publish
  <2>2. QED
    BY <1>2, <1>3, <1>4, <2>1 DEF CallsLeft
<1>13. CASE Confirm
  <2>1. /\ pc = "confirm"
        /\ \/ pc' \in {"done", "failed"}
           \/ pc' = "publish" /\ attempt' = attempt + 1 /\ attempt < Attempts
           \/ pc' = "confirm" /\ attempt' = attempt + 1
    BY <1>13 DEF Confirm
  <2>2. QED
    BY <1>2, <1>3, <1>4, <2>1 DEF CallsLeft
<1>14. QED
  BY <1>6, <1>7, <1>8, <1>9, <1>10, <1>11, <1>12, <1>13 DEF JobStep

(* Nothing else puts it back.                                               *)
LEMMA OthersKeepCalls ==
  ASSUME IInv, IInv', [Next]_vars, Working
  PROVE  CallsLeft' <= CallsLeft
<1>1. CallsLeft \in Nat /\ CallsLeft' \in Nat
  <2>1. JobOK /\ JobOK'
    BY TypeParts DEF IInv, TypeInv, TypeOK, JobOK
  <2>2. CallsBound \in Nat /\ CallsLeft \in 0..CallsBound
    <3>1. AssetsCost \in Nat /\ Attempts \in Nat
      BY <2>1, CostTypes
    <3>2. QED
      BY <2>1, <3>1, CallsLeftType DEF CallsBound
  <2>3. CallsLeft' \in 0..CallsBound'
    <3>1. (JobOK => CallsLeft \in 0..CallsBound)'
      BY CallsLeftType, PTL
    <3>2. QED
      BY <2>1, <3>1
  <2>4. CallsBound' = CallsBound
    BY DEF CallsBound, AssetsCost, PublishCost, LoopCost
  <2>5. QED
    BY <2>2, <2>3, <2>4
<1>2. CASE JobStep
  BY <1>1, <1>2, RunGoesOn
<1>3. CASE Crash
  BY <1>1, <1>3 DEF Crash, Fail, Goto, CallsLeft
<1>4. ~Rerun
  BY DEF Rerun, Working
<1>5. CASE DigestReady \/ CheckEvidence \/ AttachEvidence \/ UNCHANGED vars
  <2>1. UNCHANGED <<pc, attempt, k>>
    BY <1>5 DEF DigestReady, CheckEvidence, AttachEvidence, job, vars
  <2>2. CallsLeft' = CallsLeft
    BY <2>1 DEF CallsLeft, TriesLeft, FilesCost, AssetsCost, PublishCost, LoopCost
  <2>3. QED
    BY <1>1, <2>2
<1>6. QED
  BY <1>2, <1>3, <1>4, <1>5 DEF Next

(* However the calls of a run fail, it is a bounded number of calls away    *)
(* from its end, and every call brings it nearer: no loop of the workflow   *)
(* goes on for ever, whatever the service answers.                          *)
THEOREM RunsAreBounded ==
  Spec => /\ [](CallsLeft \in 0..CallsBound)
          /\ [][JobStep => CallsLeft' < CallsLeft]_vars
          /\ [][Working => CallsLeft' <= CallsLeft]_vars
<1>1. IInv => CallsLeft \in 0..CallsBound
  BY CallsLeftType, TypeParts DEF IInv
<1>2. IInv /\ IInv' /\ [Next]_vars => [JobStep => CallsLeft' < CallsLeft]_vars
  BY RunGoesOn
<1>3. IInv /\ IInv' /\ [Next]_vars => [Working => CallsLeft' <= CallsLeft]_vars
  BY OthersKeepCalls
<1>4. QED
  BY Invariance, <1>1, <1>2, <1>3, PTL DEF Spec
=============================================================================
