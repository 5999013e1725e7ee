-------------------------- MODULE CnbRelease_proofs --------------------------
(***************************************************************************)
(* Proofs about module CnbRelease, for every number of files, builds and   *)
(* runs: a draft becomes public with every file of the job in it, and a    *)
(* job that ends well leaves its release public, whole and as the next     *)
(* audit wants it.                                                         *)
(***************************************************************************)
EXTENDS CnbRelease, SequenceTheorems, FiniteSetTheorems, TLAPS

(* A file of the job is in the release, byte for byte, with its digest.    *)
Good(n) ==
  \E a \in Named(release.assets, n) :
    a.state = "uploaded" /\ a.digested /\ a.bytes = bundle

Filling == {"asset", "upload", "check"}
Filled  == {"finish", "latest", "done"}
Count   == Len(FilesOf(bundle))

(* The release the job works on is there and has its notes; the migration  *)
(* works on a public one, and publishRelease knows whether it is a draft.  *)
Placed ==
  /\ pc \in Filling \cup Filled => exists /\ release.meta = bundle
  /\ pc \in Filling \cup Filled /\ kind = "migrate" => ~release.draft
  /\ pc \in Filling \cup {"finish"} /\ kind = "publish" => view.draft = release.draft
  /\ pc = "patch" => exists
  /\ pc = "done" => ~release.draft
  /\ pc = "finish" => kind = "publish"
  /\ pc = "latest" => kind = "migrate"

(* The files the loop has passed are in the release.                       *)
PassedGood ==
  \A i \in 1..Count : (pc \in Filling /\ i < k) \/ pc \in Filled => Good(FilesOf(bundle)[i])

(* What the job believes of the files before it holds: publishRelease has  *)
(* just read the release, and nobody but the job itself removes an asset   *)
(* from the release a migration read at its start.                         *)
ViewHolds ==
  \A i \in 1..Count :
     \/ pc = "asset" /\ i >= k
     \/ pc \in {"upload", "check"} /\ i > k
     => (Same(view, FilesOf(bundle)[i]) => Good(FilesOf(bundle)[i]))

AtStart == pc \in {"detect", "get", "create", "patch"} => k = 1

IInv == TypeOK /\ Placed /\ PassedGood /\ ViewHolds /\ AtStart

-----------------------------------------------------------------------------
(* The files of a bundle.                                                  *)

LEMMA FilesFacts ==
  ASSUME NEW b \in Bundles
  PROVE  /\ Len(FilesOf(b)) = Len(Fixed) + 1
         /\ DOMAIN FilesOf(b) = 1..(Len(Fixed) + 1)
         /\ Len(Fixed) \in Nat
         /\ \A i \in 1..(Len(Fixed) + 1) : FilesOf(b)[i] \in Names \ DOMAIN OldName
         /\ \A i, j \in 1..(Len(Fixed) + 1) : FilesOf(b)[i] = FilesOf(b)[j] => i = j
<1>1. FilesOf(b) \in Seq(AllowedNames)
  BY CnbAssumption DEF FilesOf, AllowedNames
<1>2. Len(FilesOf(b)) = Len(Fixed) + 1 /\ DOMAIN FilesOf(b) = 1..(Len(Fixed) + 1) /\ Len(Fixed) \in Nat
  BY <1>1, CnbAssumption DEF FilesOf
<1>3. \A i \in 1..(Len(Fixed) + 1) : FilesOf(b)[i] \in NamesOf(b)
  BY <1>2 DEF NamesOf
<1>4. QED
  BY <1>2, <1>3, CnbAssumption DEF Names

LEMMA FileFacts ==
  ASSUME TypeOK
  PROVE  /\ bundle \in Bundles /\ k \in 1..Count /\ Count \in Nat
         /\ Count = Len(Fixed) + 1
         /\ \A i \in 1..Count : FilesOf(bundle)[i] \in Names \ DOMAIN OldName
         /\ \A i \in 1..Count : FilesOf(bundle)[i] = File => i = k
         /\ File \in Names
         /\ \A n \in NamesOf(bundle) : \E i \in 1..Count : n = FilesOf(bundle)[i]
<1>1. bundle \in Bundles /\ k \in 1..(Len(Fixed) + 1)
  BY DEF TypeOK
<1>2. QED
  BY <1>1, FilesFacts DEF Count, File, NamesOf

-----------------------------------------------------------------------------
(* Types.                                                                  *)

LEMMA AssetType ==
  ASSUME NEW n \in Names, NEW b \in Bundles \cup {Cut}, NEW d \in BOOLEAN
  PROVE  Asset(n, b, d) \in AssetsOf
  BY DEF Asset, AssetsOf

LEMMA FreshType ==
  ASSUME NEW b \in Bundles
  PROVE  Fresh(b) \in Releases
  BY DEF Fresh, Releases

LEMMA ReleaseType ==
  ASSUME NEW r \in Releases
  PROVE  /\ r.assets \subseteq AssetsOf /\ r.draft \in BOOLEAN /\ r.latest \in BOOLEAN
         /\ r.meta \in Bundles
         /\ \A assets \in SUBSET AssetsOf : [r EXCEPT !.assets = assets] \in Releases
         /\ \A d, l \in BOOLEAN : [r EXCEPT !.draft = d, !.latest = l] \in Releases
         /\ \A l \in BOOLEAN : [r EXCEPT !.latest = l] \in Releases
         /\ \A d, l \in BOOLEAN, b \in Bundles :
               [r EXCEPT !.meta = b, !.latest = l, !.draft = d] \in Releases
  BY DEF Releases

LEMMA InitType == Init => TypeOK
<1>1. SUFFICES ASSUME Init PROVE TypeOK
  OBVIOUS
<1>2. bundle \in Bundles
  BY <1>1, CnbAssumption DEF Init
<1>3. release \in Releases
  <2>1. {Asset(n, bundle, TRUE) : n \in DOMAIN OldName} \subseteq AssetsOf
    BY <1>2, AssetType DEF Names
  <2>2. Fresh(bundle) \in Releases
    BY <1>2, FreshType
  <2>3. ASSUME NEW assets \in SUBSET AssetsOf
        PROVE  [Fresh(bundle) EXCEPT !.draft = FALSE, !.assets = assets] \in Releases
    BY <2>2 DEF Releases
  <2>4. \/ release = Fresh(bundle)
        \/ release = [Fresh(bundle) EXCEPT
                         !.draft = FALSE,
                         !.assets = {Asset(n, bundle, TRUE) : n \in DOMAIN OldName}]
    BY <1>1 DEF Init
  <2>5. QED
    BY <2>1, <2>2, <2>3, <2>4
<1>4. k \in 1..(Len(Fixed) + 1) /\ runs \in 1..MaxRuns
  BY <1>1, <1>2, FilesFacts, CnbAssumption DEF Init
<1>5. QED
  BY <1>1, <1>2, <1>3, <1>4, CnbAssumption DEF Init, TypeOK, Running

LEMMA NextFileType ==
  ASSUME TypeOK, NextFile
  PROVE  k' \in 1..(Len(Fixed) + 1) /\ pc' \in {"asset", "finish", "latest"}
  BY FileFacts DEF NextFile, AfterLoop, Count

LEMMA NextType == TypeOK /\ [Next]_vars => TypeOK'
<1> SUFFICES ASSUME TypeOK, [Next]_vars PROVE TypeOK'
  OBVIOUS
<1> USE DEF TypeOK, Running, job
<1>0. /\ release.assets \subseteq AssetsOf /\ release.draft \in BOOLEAN /\ release.latest \in BOOLEAN
      /\ bundle \in Bundles /\ File \in Names
  BY FileFacts, ReleaseType
<1>1. CASE Detect
  BY <1>1 DEF Detect
<1>2. CASE Get
  BY <1>2 DEF Get
<1>3. CASE Create
  <2>1. Created \in Releases
    BY <1>0, FreshType DEF Created, Releases
  <2>2. QED
    BY <1>3, <2>1 DEF Create, Then
<1>4. CASE Patch
  <2>1. release' \in Releases /\ view' \in Releases
    BY <1>0, <1>4, ReleaseType DEF Patch
  <2>2. QED
    BY <1>4, <2>1 DEF Patch, Then
<1>5. CASE DeletePrefixed
  <2>1. release' \in Releases /\ view' \in Releases
    BY <1>0, <1>5 DEF DeletePrefixed, Releases
  <2>2. QED
    BY <1>5, <2>1 DEF DeletePrefixed, Then
<1>6. CASE Skip
  BY <1>6, NextFileType DEF Skip
<1>7. CASE DeleteStale
  <2>1. release' \in Releases
    BY <1>0, <1>7 DEF DeleteStale, Releases
  <2>2. QED
    BY <1>7, <2>1 DEF DeleteStale, Then
<1>8. CASE Upload
  <2>1. PICK b \in {bundle, Cut}, d \in BOOLEAN :
           release' = [release EXCEPT !.assets = (@ \ Named(@, File)) \cup {Asset(File, b, d)}]
    BY <1>8 DEF Upload
  <2>2. Asset(File, b, d) \in AssetsOf
    BY <1>0, AssetType
  <2>3. release' \in Releases
    BY <1>0, <2>1, <2>2 DEF Releases
  <2>4. QED
    BY <1>8, <2>3 DEF Upload, Then
<1>9. CASE Check
  BY <1>9, NextFileType DEF Check
<1>10. CASE Finish
  <2>1. release' \in Releases
    BY <1>10, ReleaseType DEF Finish
  <2>2. QED
    BY <1>10, <2>1 DEF Finish, Then
<1>11. CASE Latest
  <2>1. release' \in Releases
    BY <1>0, <1>11, ReleaseType DEF Latest
  <2>2. QED
    BY <1>11, <2>1 DEF Latest, Then
<1>12. CASE Stop
  BY <1>12 DEF Stop
<1>13. CASE Again
  <2>1. right' \in BOOLEAN
    BY <1>13 DEF Again
  <2>2. runs' \in 1..MaxRuns
    BY <1>13, CnbAssumption DEF Again
  <2>3. bundle' \in Bundles /\ used' \subseteq Bundles
    BY <1>0, <1>13 DEF Again
  <2>4. k' \in 1..(Len(Fixed) + 1)
    BY <1>0, <1>13, FilesFacts DEF Again
  <2>5. QED
    BY <1>13, <2>1, <2>2, <2>3, <2>4 DEF Again
<1>14. CASE DigestReady
  <2>1. PICK a \in release.assets :
           release' = [release EXCEPT !.assets = (@ \ {a}) \cup {[a EXCEPT !.digested = TRUE]}]
    BY <1>14 DEF DigestReady
  <2>2. [a EXCEPT !.digested = TRUE] \in AssetsOf
    BY <1>0, <2>1 DEF AssetsOf
  <2>3. release' \in Releases
    BY <1>0, <2>1, <2>2 DEF Releases
  <2>4. QED
    BY <1>14, <2>3 DEF DigestReady
<1>15. CASE UNCHANGED vars
  BY <1>15 DEF vars
<1>16. QED
  BY <1>1, <1>2, <1>3, <1>4, <1>5, <1>6, <1>7, <1>8, <1>9, <1>10, <1>11, <1>12, <1>13,
     <1>14, <1>15 DEF Next, JobStep

-----------------------------------------------------------------------------
(* The release fills up file by file.                                      *)

LEMMA KeepsGood ==
  ASSUME NEW n, bundle' = bundle, Good(n),
         \A a \in release.assets : a.name = n => a \in release'.assets
  PROVE  Good(n)'
  BY DEF Good, Named

LEMMA SameGood ==
  ASSUME NEW n, Same(release, n)
  PROVE  Good(n)
  BY DEF Same, Good

(* The loop goes on after a file that is in the release.                   *)
LEMMA NextFileKeeps ==
  ASSUME IInv, pc \in {"asset", "check"}, NextFile, Good(File),
         UNCHANGED <<exists, release, job>>,
         \/ kind = "publish" /\ view' = release
         \/ kind = "migrate" /\ view' = view
  PROVE  Placed' /\ PassedGood' /\ ViewHolds' /\ AtStart'
<1> USE DEF job, Filling, Filled, IInv
<1>1. /\ k \in 1..Count /\ Count \in Nat /\ Count' = Count /\ kind \in {"publish", "migrate"}
      /\ \A n : Good(n)' <=> Good(n)
  BY FileFacts, CnbAssumption DEF TypeOK, Count, Good
<1>2. \/ k < Count /\ k' = k + 1 /\ pc' = "asset"
      \/ k = Count /\ k' = k /\ pc' = AfterLoop
  BY <1>1 DEF NextFile, Count
<1>3. \A i \in 1..k : Good(FilesOf(bundle)[i])
  BY <1>1 DEF PassedGood, File
<1>4. Placed'
  BY <1>1, <1>2 DEF Placed, AfterLoop
<1>5. PassedGood'
  BY <1>1, <1>2, <1>3 DEF PassedGood, AfterLoop
<1>6. ViewHolds'
  <2>1. SUFFICES ASSUME NEW i \in 1..Count, k < i, k' = k + 1, pc' = "asset",
                        Same(view', FilesOf(bundle)[i])
                 PROVE  Good(FilesOf(bundle)[i])
    BY <1>1, <1>2 DEF ViewHolds, AfterLoop, Same
  <2>2. CASE view' = release
    BY <2>1, <2>2, SameGood
  <2>3. CASE view' = view
    BY <1>1, <2>1, <2>3 DEF ViewHolds
  <2>4. QED
    BY <2>2, <2>3
<1>7. QED
  BY <1>2, <1>4, <1>5, <1>6 DEF AtStart, AfterLoop

LEMMA InitInv == Init => IInv
<1>1. SUFFICES ASSUME Init PROVE IInv
  OBVIOUS
<1>2. QED
  BY <1>1, InitType DEF Init, IInv, Placed, PassedGood, ViewHolds, AtStart, Filling, Filled

LEMMA NextInv == IInv /\ [Next]_vars => IInv'
<1> SUFFICES ASSUME IInv, [Next]_vars PROVE Placed' /\ PassedGood' /\ ViewHolds' /\ AtStart'
  BY NextType DEF IInv
<1> USE DEF job, Filling, Filled
<1>0. /\ TypeOK /\ k \in 1..Count /\ Count \in Nat /\ kind \in {"publish", "migrate"}
      /\ release.draft \in BOOLEAN /\ view.draft \in BOOLEAN
      /\ \A i \in 1..Count : FilesOf(bundle)[i] \notin DOMAIN OldName
      /\ \A i \in 1..Count : FilesOf(bundle)[i] = File => i = k
  BY FileFacts, ReleaseType, CnbAssumption DEF IInv, TypeOK
<1>0a. bundle' = bundle => Count' = Count
  BY DEF Count
<1>1. CASE Detect \/ Stop
  BY <1>0, <1>1 DEF Detect, Stop, IInv, Placed, PassedGood, ViewHolds, AtStart
<1>2. CASE Get
  <2>1. /\ pc' \in {"create", "patch", "asset"} /\ k' = 1 /\ bundle' = bundle /\ kind' = kind
        /\ release' = release /\ exists' = exists
        /\ pc' # "create" => exists /\ view' = release
        /\ pc' = "asset" => ~MetaDiffers(release)
    BY <1>2 DEF Get, Found, IInv, AtStart
  <2>2. Placed'
    BY <2>1 DEF Placed, MetaDiffers
  <2>3. ViewHolds'
    BY <1>0a, <2>1, SameGood DEF ViewHolds, Same, Good
  <2>4. QED
    BY <1>0a, <2>1, <2>2, <2>3 DEF PassedGood, AtStart
<1>3. CASE Create \/ Patch
  <2>1. /\ pc' \in {"asset", "failed"} /\ k' = 1 /\ bundle' = bundle /\ kind' = kind
        /\ exists' /\ view' = release' /\ release'.meta = bundle
        /\ kind = "migrate" => ~release'.draft
    <3>1. CASE Create
      BY <3>1 DEF Create, Created, Fresh, Then, IInv, AtStart
    <3>2. CASE Patch
      <4>1. release'.meta = bundle /\ (kind = "migrate" => ~release'.draft)
        BY <1>0, <3>2 DEF Patch, Releases, TypeOK
      <4>2. QED
        BY <3>2, <4>1 DEF Patch, Then, IInv, Placed, AtStart
    <3>3. QED
      BY <1>3, <3>1, <3>2
  <2>2. ViewHolds'
    BY <1>0a, <2>1 DEF ViewHolds, Same, Good
  <2>3. QED
    BY <1>0a, <2>1, <2>2 DEF Placed, PassedGood, AtStart
<1>4. CASE DeletePrefixed
  <2>1. /\ pc = "asset" /\ kind = "migrate" /\ pc' \in {"asset", "failed"}
        /\ UNCHANGED <<exists, k, job>>
        /\ release' = [release EXCEPT !.assets = {a \in @ : a.name \notin Prefixed(File)}]
        /\ view' = [view EXCEPT !.assets = {a \in @ : a.name \notin Prefixed(File)}]
    BY <1>4 DEF DeletePrefixed, Then
  <2>2. /\ release'.assets = {a \in release.assets : a.name \notin Prefixed(File)}
        /\ view'.assets = {a \in view.assets : a.name \notin Prefixed(File)}
        /\ release'.draft = release.draft /\ release'.meta = release.meta
    BY <1>0, <2>1 DEF TypeOK, Releases
  <2>3. \A i \in 1..Count : Good(FilesOf(bundle)[i]) => Good(FilesOf(bundle)[i])'
    BY <1>0, <2>1, <2>2, KeepsGood DEF Prefixed, Good, Named
  <2>4. \A n : Same(view', n) => Same(view, n)
    BY <2>2 DEF Same, Named
  <2>5. Placed'
    BY <2>1, <2>2 DEF IInv, Placed
  <2>6. PassedGood'
    BY <1>0a, <2>1, <2>3 DEF IInv, PassedGood, Good
  <2>7. ViewHolds'
    BY <1>0a, <2>1, <2>3, <2>4 DEF IInv, ViewHolds, Good, Same
  <2>8. QED
    BY <2>1, <2>5, <2>6, <2>7 DEF AtStart
<1>5. CASE Skip
  <2>1. Good(File)
    BY <1>0, <1>5 DEF Skip, FileTurn, Differing, IInv, ViewHolds, File
  <2>2. CASE kind = "publish"
    <3>1. pc = "asset" /\ pc' = "check" /\ k' = k /\ UNCHANGED <<exists, release, view, job>>
      BY <1>5, <2>2 DEF Skip, FileTurn
    <3>2. QED
      BY <1>0, <1>0a, <3>1 DEF IInv, Placed, PassedGood, ViewHolds, AtStart, Good, Same
  <2>3. CASE kind = "migrate"
    BY <1>5, <2>1, <2>3, NextFileKeeps DEF Skip, FileTurn
  <2>4. QED
    BY <1>0, <2>2, <2>3
<1>6. CASE DeleteStale \/ Upload
  <2>1. /\ pc \in {"asset", "upload"} /\ pc' \in {"upload", "check", "failed"}
        /\ UNCHANGED <<exists, view, k, job>>
        /\ \E added : release' = [release EXCEPT !.assets = (@ \ Named(@, File)) \cup added]
    <3>1. CASE DeleteStale
      <4>1. release' = [release EXCEPT !.assets = (@ \ Named(@, File)) \cup {}]
        BY <3>1 DEF DeleteStale
      <4>2. QED
        BY <3>1, <4>1 DEF DeleteStale, FileTurn, Then
    <3>2. CASE Upload
      BY <3>2 DEF Upload, FileTurn, Then
    <3>3. QED
      BY <1>6, <3>1, <3>2
  <2>2. /\ release.assets \ Named(release.assets, File) \subseteq release'.assets
        /\ release'.draft = release.draft /\ release'.meta = release.meta
    BY <1>0, <2>1 DEF TypeOK, Releases
  <2>3. \A i \in 1..Count : i # k /\ Good(FilesOf(bundle)[i]) => Good(FilesOf(bundle)[i])'
    BY <1>0, <2>1, <2>2, KeepsGood DEF Named
  <2>4. Placed'
    BY <2>1, <2>2 DEF IInv, Placed
  <2>5. PassedGood'
    <3>1. SUFFICES ASSUME NEW i \in 1..Count, i < k PROVE Good(FilesOf(bundle)[i])'
      BY <1>0a, <2>1 DEF PassedGood, Good
    <3>2. Good(FilesOf(bundle)[i])
      BY <2>1, <3>1 DEF IInv, PassedGood
    <3>3. QED
      BY <1>0, <2>3, <3>1, <3>2
  <2>6. ViewHolds'
    <3>1. SUFFICES ASSUME NEW i \in 1..Count, i > k, Same(view, FilesOf(bundle)[i])
                   PROVE  Good(FilesOf(bundle)[i])'
      BY <1>0a, <2>1 DEF ViewHolds, Same, Good
    <3>2. Good(FilesOf(bundle)[i])
      BY <1>0, <2>1, <3>1 DEF IInv, ViewHolds
    <3>3. QED
      BY <1>0, <2>3, <3>1, <3>2
  <2>7. QED
    BY <2>1, <2>4, <2>5, <2>6 DEF AtStart
<1>7. CASE Check
  <2>1. CASE Same(release, File)
    BY <1>0, <1>7, <2>1, SameGood, NextFileKeeps DEF Check
  <2>2. CASE ~Same(release, File)
    BY <1>0a, <1>7, <2>2 DEF Check, Placed, PassedGood, ViewHolds, AtStart
  <2>3. QED
    BY <2>1, <2>2
<1>8. CASE Finish \/ Latest
  <2>1. /\ pc \in {"finish", "latest"} /\ pc' \in {"done", "failed"}
        /\ UNCHANGED <<exists, view, k, job>>
        /\ release'.assets = release.assets /\ release'.meta = release.meta /\ ~release'.draft
    <3>1. CASE Finish
      <4>1. view.draft = release.draft
        BY <3>1 DEF Finish, IInv, Placed
      <4>2. release'.assets = release.assets /\ release'.meta = release.meta /\ ~release'.draft
        BY <1>0, <3>1, <4>1 DEF Finish, TypeOK, Releases
      <4>3. QED
        BY <3>1, <4>2 DEF Finish, Then
    <3>2. CASE Latest
      <4>1. ~release.draft
        BY <3>2 DEF Latest, IInv, Placed
      <4>2. release'.assets = release.assets /\ release'.meta = release.meta /\ ~release'.draft
        BY <1>0, <3>2, <4>1 DEF Latest, TypeOK, Releases
      <4>3. QED
        BY <3>2, <4>2 DEF Latest, Then
    <3>3. QED
      BY <1>8, <3>1, <3>2
  <2>2. \A n : Good(n)' <=> Good(n)
    BY <2>1 DEF Good
  <2>3. QED
    BY <1>0a, <2>1, <2>2 DEF IInv, Placed, PassedGood, ViewHolds, AtStart, Good
<1>9. CASE Again
  <2>1. k' = 1 /\ pc' \in {"detect", "get"}
    BY <1>9 DEF Again
  <2>2. QED
    BY <2>1 DEF Placed, PassedGood, ViewHolds, AtStart
<1>10. CASE DigestReady
  <2>1. PICK a \in release.assets :
           /\ ~a.digested
           /\ release' = [release EXCEPT !.assets = (@ \ {a}) \cup {[a EXCEPT !.digested = TRUE]}]
           /\ UNCHANGED <<exists, view, pc, k, job>>
    BY <1>10 DEF DigestReady
  <2>2. /\ release'.assets = (release.assets \ {a}) \cup {[a EXCEPT !.digested = TRUE]}
        /\ release'.draft = release.draft /\ release'.meta = release.meta
    BY <1>0, <2>1 DEF TypeOK, Releases
  <2>3. \A n : Good(n) => Good(n)'
    BY <2>1, <2>2 DEF Good, Named
  <2>4. QED
    BY <1>0a, <2>1, <2>2, <2>3 DEF IInv, Placed, PassedGood, ViewHolds, AtStart, Good, Same
<1>11. CASE UNCHANGED vars
  BY <1>0a, <1>11 DEF vars, IInv, Placed, PassedGood, ViewHolds, AtStart, Good, Same
<1>12. QED
  BY <1>1, <1>2, <1>3, <1>4, <1>5, <1>6, <1>7, <1>8, <1>9, <1>10, <1>11 DEF Next, JobStep

LEMMA Invariance == Spec => []IInv
  BY InitInv, NextInv, PTL DEF Spec

(* Every variable keeps its type, whatever fails and however often the job *)
(* is started again.                                                       *)
THEOREM TypeCorrect == Spec => []TypeOK
<1>1. IInv => TypeOK
  BY DEF IInv
<1>2. QED
  BY Invariance, <1>1, PTL

LEMMA AllGoodWhole ==
  ASSUME TypeOK, \A i \in 1..Count : Good(FilesOf(bundle)[i])
  PROVE  Whole
  BY FileFacts DEF Whole, Good

(* A job that ends well leaves a public release with its notes and its     *)
(* bytes under each of its names, whatever earlier runs left behind.       *)
THEOREM JobLeavesWhole == Spec => []DoneIsWhole
<1>1. IInv => DoneIsWhole
  BY AllGoodWhole DEF IInv, Placed, PassedGood, DoneIsWhole, Public, Filled
<1>2. QED
  BY Invariance, <1>1, PTL

(* publishRelease makes a draft public only with all files in it.          *)
THEOREM DraftsComeOutWhole == Spec => ExposesWhole
<1>1. IInv /\ [Next]_vars => [kind = "publish" /\ ~Public /\ Public' => Whole']_vars
  <2>1. SUFFICES ASSUME IInv, [Next]_vars, kind = "publish", ~Public, Public'
                 PROVE  Whole'
    OBVIOUS
  <2>2. TypeOK /\ release.draft \in BOOLEAN
    BY <2>1, ReleaseType DEF IInv, TypeOK
  <2>3. CASE Finish
    <3>1. Whole
      BY <2>1, <2>2, <2>3, AllGoodWhole DEF Finish, IInv, PassedGood, Filled
    <3>2. release'.assets = release.assets /\ bundle' = bundle
      BY <2>2, <2>3 DEF Finish, job, TypeOK, Releases
    <3>3. QED
      BY <3>1, <3>2 DEF Whole
  <2>4. CASE Create
    BY <2>1, <2>4 DEF Create, Created, Fresh, Public
  <2>5. CASE Patch
    <3>1. exists
      BY <2>1, <2>5 DEF Patch, IInv, Placed
    <3>2. release'.draft = release.draft
      BY <2>1, <2>2, <2>5 DEF Patch, TypeOK, Releases
    <3>3. QED
      BY <2>1, <2>2, <2>5, <3>1, <3>2 DEF Patch, Public
  <2>6. CASE DeleteStale \/ Upload \/ DigestReady
    <3>1. exists' = exists /\ release'.draft = release.draft
      BY <2>2, <2>6 DEF DeleteStale, Upload, DigestReady, TypeOK, Releases
    <3>2. QED
      BY <2>1, <3>1 DEF Public
  <2>7. CASE Detect \/ Get \/ Skip \/ Check \/ Stop \/ Again
    BY <2>1, <2>7 DEF Detect, Get, Skip, Check, Stop, Again, Public
  <2>8. CASE DeletePrefixed \/ Latest
    BY <2>1, <2>8 DEF DeletePrefixed, Latest, IInv, Placed
  <2>9. CASE UNCHANGED vars
    BY <2>1, <2>9 DEF vars, Public
  <2>10. QED
    BY <2>1, <2>3, <2>4, <2>5, <2>6, <2>7, <2>8, <2>9 DEF Next, JobStep
<1>2. QED
  BY Invariance, <1>1, PTL DEF Spec, ExposesWhole

-----------------------------------------------------------------------------
(* What a weekly release holds besides: one asset per name, and no name    *)
(* that a run of this tag did not bring.                                   *)

NamesUsed == UNION {NamesOf(b) : b \in used}

Tidy ==
  kind = "publish" =>
    /\ bundle \in used
    /\ \A a \in release.assets : a.name \in NamesUsed
    /\ \A a, b \in release.assets : a.name = b.name => a = b

LEMMA TidyStep ==
  ASSUME IInv, Tidy, [Next]_vars
  PROVE  Tidy'
<1> SUFFICES ASSUME kind' = "publish" PROVE Tidy'
  BY DEF Tidy
<1> USE DEF job
<1>0. /\ TypeOK /\ kind = "publish" /\ release.assets \subseteq AssetsOf
      /\ File \in NamesOf(bundle)
  <2>1. TypeOK
    BY DEF IInv
  <2>2. kind = "publish"
    BY DEF Next, JobStep, Detect, Get, Create, Patch, DeletePrefixed, Skip, DeleteStale,
           Upload, Check, Finish, Latest, Stop, Again, DigestReady, vars
  <2>3. File \in NamesOf(bundle)
    BY <2>1, FileFacts, FilesFacts DEF File, NamesOf, Count
  <2>4. QED
    BY <2>1, <2>2, <2>3, ReleaseType DEF TypeOK
<1>1. ASSUME UNCHANGED <<bundle, used>>, release'.assets \subseteq release.assets
      PROVE  Tidy'
  BY <1>0, <1>1 DEF Tidy, NamesUsed
<1>2. CASE Detect \/ Get \/ Skip \/ Check \/ Stop \/ UNCHANGED vars
  BY <1>1, <1>2 DEF Detect, Get, Skip, Check, Stop, vars
<1>3. CASE Create
  <2>1. release'.assets = {}
    BY <1>3 DEF Create, Created, Fresh
  <2>2. QED
    BY <1>1, <1>3, <2>1 DEF Create
<1>4. CASE Patch \/ Finish \/ Latest
  <2>1. release'.assets = release.assets
    BY <1>0, <1>4 DEF Patch, Finish, Latest, TypeOK, Releases
  <2>2. QED
    BY <1>1, <1>4, <2>1 DEF Patch, Finish, Latest
<1>5. CASE DeletePrefixed
  BY <1>0, <1>5 DEF DeletePrefixed
<1>6. CASE DeleteStale
  <2>1. release'.assets = release.assets \ Named(release.assets, File)
    BY <1>0, <1>6 DEF DeleteStale, TypeOK, Releases
  <2>2. QED
    BY <1>1, <1>6, <2>1 DEF DeleteStale
<1>7. CASE Upload
  <2>1. PICK b \in {bundle, Cut}, d \in BOOLEAN :
          release' = [release EXCEPT !.assets =
                        (@ \ Named(@, File)) \cup {Asset(File, b, d)}]
    BY <1>7 DEF Upload
  <2>2. release'.assets = (release.assets \ Named(release.assets, File))
                            \cup {Asset(File, b, d)}
    BY <1>0, <2>1 DEF TypeOK, Releases
  <2>3. Asset(File, b, d).name = File
    BY DEF Asset
  <2>4. UNCHANGED <<bundle, used>>
    BY <1>7 DEF Upload
  <2>5. File \in NamesUsed
    BY <1>0 DEF Tidy, NamesUsed
  <2>6. QED
    BY <1>0, <2>2, <2>3, <2>4, <2>5 DEF Tidy, NamesUsed, Named
<1>8. CASE Again
  <2>1. release' = release /\ used' = used \cup {bundle'}
    BY <1>8 DEF Again
  <2>2. QED
    BY <1>0, <2>1 DEF Tidy, NamesUsed
<1>9. CASE DigestReady
  <2>1. PICK a \in release.assets :
           /\ release' = [release EXCEPT !.assets = (@ \ {a}) \cup {[a EXCEPT !.digested = TRUE]}]
           /\ UNCHANGED <<bundle, used>>
    BY <1>9 DEF DigestReady
  <2>2. release'.assets = (release.assets \ {a}) \cup {[a EXCEPT !.digested = TRUE]}
    BY <1>0, <2>1 DEF TypeOK, Releases
  <2>3. [a EXCEPT !.digested = TRUE].name = a.name
    <3>1. a \in [name : Names, state : {"uploaded"}, bytes : Bundles \cup {Cut},
                 digested : BOOLEAN]
      BY <1>0 DEF AssetsOf
    <3>2. QED
      BY <3>1
  <2>4. QED
    BY <1>0, <2>1, <2>2, <2>3 DEF Tidy, NamesUsed
<1>10. QED
  BY <1>2, <1>3, <1>4, <1>5, <1>6, <1>7, <1>8, <1>9 DEF Next, JobStep

LEMMA TidyInv == Spec => []Tidy
<1>1. Init => Tidy
  <2>1. ASSUME Init, kind = "publish" PROVE release.assets = {} /\ bundle \in used
    BY <2>1 DEF Init, Fresh
  <2>2. QED
    BY <2>1 DEF Tidy
<1>2. IInv /\ Tidy /\ [Next]_vars => Tidy'
  BY TidyStep
<1>3. QED
  BY Invariance, <1>1, <1>2, PTL DEF Spec

(* The audit accepts a whole and tidy release.                             *)
LEMMA WholePasses ==
  ASSUME IInv, Tidy, pc = "done", kind = "publish",
         \A b \in used : ImageOf[b] = ImageOf[bundle]
  PROVE  AuditPasses
<1> DEFINE r == Report(bundle)
           assets == release.assets
<1>1. /\ TypeOK /\ bundle \in Bundles /\ used \subseteq Bundles
      /\ ~release.draft /\ release.prerelease
      /\ assets \subseteq AssetsOf
  BY ReleaseType DEF IInv, TypeOK, Placed, Filled, Releases
<1>2. \A n \in NamesOf(bundle) : Good(n)
  BY <1>1, FileFacts DEF IInv, PassedGood, Filled
<1>3. \A b \in used : NamesOf(b) = NamesOf(bundle)
  <2>1. \A b \in used : FilesOf(b) = FilesOf(bundle)
    BY DEF FilesOf
  <2>2. QED
    BY <2>1 DEF NamesOf
<1>4. \A a \in assets : a.name \in NamesOf(bundle)
  BY <1>3 DEF Tidy, NamesUsed
<1>5. \A n \in NamesOf(bundle) : \E a \in assets :
         /\ Named(assets, n) = {a} /\ a.name = n
         /\ a.state = "uploaded" /\ a.digested /\ a.bytes = bundle
  <2>1. SUFFICES ASSUME NEW n \in NamesOf(bundle)
                 PROVE  \E a \in assets :
                          /\ Named(assets, n) = {a} /\ a.name = n
                          /\ a.state = "uploaded" /\ a.digested /\ a.bytes = bundle
    OBVIOUS
  <2>2. PICK a \in Named(assets, n) : a.state = "uploaded" /\ a.digested /\ a.bytes = bundle
    BY <1>2 DEF Good
  <2>3. a \in assets /\ a.name = n
    BY <2>2 DEF Named
  <2>4. Named(assets, n) = {a}
    BY <2>3 DEF Tidy, Named
  <2>5. QED
    BY <2>2, <2>3, <2>4
<1>6. \A n \in NamesOf(bundle) :
         /\ AssetValid(assets, n)
         /\ Cardinality(Named(assets, n)) = 1
         /\ \A a \in Named(assets, n) : a.bytes = bundle
  <2>1. SizeOf[bundle] > 0
    BY <1>1, BuildAssumption
  <2>2. SUFFICES ASSUME NEW n \in NamesOf(bundle)
                 PROVE  /\ AssetValid(assets, n)
                        /\ Cardinality(Named(assets, n)) = 1
                        /\ \A a \in Named(assets, n) : a.bytes = bundle
    OBVIOUS
  <2>3. PICK a \in assets : /\ Named(assets, n) = {a}
                            /\ a.state = "uploaded" /\ a.digested /\ a.bytes = bundle
    BY <1>5
  <2>4. AssetValid(assets, n)
    BY <2>1, <2>3 DEF AssetValid
  <2>5. Cardinality(Named(assets, n)) = 1
    BY <2>3, FS_Singleton
  <2>6. QED
    BY <2>3, <2>4, <2>5
<1>7. /\ r.schema = CurrentSchema /\ r.image = ImageOf[bundle] /\ r.imageBytes = bundle
      /\ r.evidence = [n \in NamesOf(bundle) |-> bundle]
  BY DEF Report
<1>8. RequiredAssets(r) \subseteq NamesOf(bundle)
  BY <1>1, BuildAssumption
<1>9. AttestedAssets(r) \subseteq RequiredAssets(r)
  <2>1. Since(2..r.schema) \subseteq Since(1..r.schema)
    BY <1>7 DEF Since, CurrentSchema
  <2>2. QED
    BY <2>1 DEF AttestedAssets, RequiredAssets
<1>10. AssetMapValid(release, FALSE)
  <2>1. \A n \in NamesOf(bundle) : n \in AllowedNames
    <3>1. FilesOf(bundle) \in Seq(AllowedNames)
      BY <1>1, CnbAssumption DEF FilesOf, AllowedNames
    <3>2. QED
      BY <3>1 DEF NamesOf
  <2>2. QED
    BY <1>1, <1>4, <1>6, <2>1 DEF AssetMapValid
<1>11. \E n \in ImageNames :
          /\ {a \in assets : a.name \in ImageNames} = Named(assets, n)
          /\ AssetValid(assets, n) /\ r.image = n
          /\ \A a \in Named(assets, n) : a.bytes = r.imageBytes
  <2>1. ImageOf[bundle] \in ImageNames /\ ImageOf[bundle] \in NamesOf(bundle)
    BY <1>1, BuildAssumption
  <2>2. {a \in assets : a.name \in ImageNames} = Named(assets, ImageOf[bundle])
    BY <1>1, <1>4, <2>1, BuildAssumption DEF Named
  <2>3. QED
    BY <1>6, <1>7, <2>1, <2>2
<1>12. ReleaseAssetsValid(r, release, FALSE)
  BY <1>6, <1>7, <1>8, <1>9, <1>10, <1>11 DEF ReleaseAssetsValid
<1>13. PICK a \in Named(assets, ReportName) : a.bytes = bundle
  BY <1>1, <1>5, BuildAssumption
<1>14. QED
  BY <1>1, <1>12, <1>13 DEF AuditPasses

(* The audit that opens the next weekly run accepts what a run published,  *)
(* unless a run for the same tag had an image of another name.             *)
THEOREM AuditAcceptsDone == Spec => []DoneIsAuditable
<1>1. IInv /\ Tidy => DoneIsAuditable
  BY WholePasses DEF DoneIsAuditable
<1>2. QED
  BY Invariance, TidyInv, <1>1, PTL

-----------------------------------------------------------------------------
(* A run that finds its release finished reads it and leaves it alone.     *)

Calm ==
  right => /\ exists /\ Finished(release)
           /\ pc \notin {"create", "patch", "upload"}
           /\ pc \in {"asset", "check", "finish"} => Finished(view)

(* Digests that show late do not make a finished release unfinished.       *)
LEMMA DigestsKeepFinished ==
  ASSUME TypeOK, DigestReady, Finished(release)
  PROVE  Finished(release)'
<1>1. PICK a \in release.assets :
         /\ release' = [release EXCEPT !.assets = (@ \ {a}) \cup {[a EXCEPT !.digested = TRUE]}]
         /\ UNCHANGED <<exists, view, pc, k, job>> /\ ~a.digested
  BY DEF DigestReady
<1>2. release \in Releases
  BY DEF TypeOK
<1>3. /\ release'.assets = (release.assets \ {a}) \cup {[a EXCEPT !.digested = TRUE]}
      /\ release'.draft = release.draft /\ release'.meta = release.meta
      /\ release'.latest = release.latest
  BY <1>1, <1>2 DEF Releases
<1>4. a \in [name : Names, state : {"uploaded"}, bytes : Bundles \cup {Cut}, digested : BOOLEAN]
  BY <1>1, <1>2, ReleaseType DEF AssetsOf
<1>5. [a EXCEPT !.digested = TRUE].name = a.name
  BY <1>4
<1>6. \A n : Same(release, n) => Same(release, n)'
  BY <1>1, <1>3 DEF Same, Named, job
<1>7. \A n : Named(release.assets, n) = {} => Named(release'.assets, n) = {}
  BY <1>1, <1>3, <1>5 DEF Named
<1>8. QED
  BY <1>1, <1>3, <1>6, <1>7 DEF Finished, job, NamesOf

LEMMA CalmStep ==
  ASSUME IInv, Calm, right, JobStep
  PROVE  UNCHANGED <<exists, release>> /\ Calm'
<1> USE DEF job
<1>1. /\ exists /\ Finished(release) /\ TypeOK /\ release \in Releases
      /\ File \in NamesOf(bundle) /\ kind \in Kinds
      /\ pc \in {"asset", "check", "finish"} => Finished(view)
      /\ pc \notin {"create", "patch", "upload"}
  <2>1. k \in DOMAIN FilesOf(bundle)
    BY FilesFacts DEF IInv, TypeOK
  <2>2. QED
    BY <2>1 DEF Calm, IInv, TypeOK, NamesOf, File
<1>2. CASE Detect
  BY <1>1, <1>2 DEF Detect, Calm, Finished, Same
<1>3. CASE Get
  <2>1. ~MetaDiffers(release)
    BY <1>1 DEF Finished, MetaDiffers
  <2>2. QED
    BY <1>1, <1>3, <2>1 DEF Get, Found, Calm, Finished, Same
<1>4. ~Create /\ ~Patch
  BY <1>1 DEF Create, Patch
<1>5. ~DeletePrefixed
  BY <1>1 DEF DeletePrefixed, Prefixed, Finished
<1>6. CASE Skip
  BY <1>1, <1>6 DEF Skip, FileTurn, NextFile, AfterLoop, Calm, Finished, Same
<1>7. ~DeleteStale /\ ~Upload
  BY <1>1 DEF DeleteStale, Upload, FileTurn, Differing, Finished
<1>8. CASE Check
  BY <1>1, <1>8 DEF Check, NextFile, AfterLoop, Calm, Finished, Same
<1>9. CASE Finish
  <2>1. ~view.draft /\ ~view.latest
    BY <1>1, <1>9 DEF Finish, IInv, Placed, Finished
  <2>2. release' = release
    BY <1>9, <2>1 DEF Finish
  <2>3. QED
    BY <1>1, <1>9, <2>2 DEF Finish, Then, Calm, Finished, Same
<1>10. CASE Latest
  <2>1. (release.latest \/ newest) = release.latest
    BY <1>1, <1>10 DEF Latest, IInv, Placed, Finished, TypeOK, Releases
  <2>2. release' = release
    BY <1>1, <1>10, <2>1 DEF Latest, Releases
  <2>3. QED
    BY <1>1, <1>10, <2>2 DEF Latest, Then, Calm, Finished, Same
<1>11. QED
  BY <1>2, <1>3, <1>4, <1>5, <1>6, <1>7, <1>8, <1>9, <1>10 DEF JobStep

LEMMA CalmInv == IInv /\ Calm /\ [Next]_vars => Calm'
<1>1. SUFFICES ASSUME IInv, Calm, [Next]_vars, right' PROVE Calm'
  BY DEF Calm
<1>2. CASE JobStep
  <2>1. right
    BY <1>1, <1>2 DEF JobStep, Detect, Get, Create, Patch, DeletePrefixed, Skip, DeleteStale,
                      Upload, Check, Finish, Latest, job
  <2>2. QED
    BY <1>1, <1>2, <2>1, CalmStep
<1>3. CASE Stop \/ UNCHANGED vars
  <2>1. /\ UNCHANGED <<exists, release, view, job>> /\ pc' \in {pc, "failed"}
    BY <1>3 DEF Stop, vars, job
  <2>2. Finished(release)' = Finished(release) /\ Finished(view)' = Finished(view)
    BY <2>1 DEF Finished, Same, job
  <2>3. QED
    BY <1>1, <2>1, <2>2 DEF Calm, job
<1>4. CASE Again
  BY <1>1, <1>4 DEF Again, Calm
<1>5. CASE DigestReady
  <2>1. right /\ UNCHANGED <<exists, view, pc, k, job>>
    BY <1>1, <1>5 DEF DigestReady, job
  <2>2. Finished(release)'
    BY <1>1, <1>5, <2>1, DigestsKeepFinished DEF IInv, Calm
  <2>3. pc \in {"asset", "check", "finish"} => Finished(view)'
    BY <1>1, <2>1 DEF Calm, Finished, Same, job
  <2>4. QED
    BY <1>1, <2>1, <2>2, <2>3 DEF Calm
<1>6. QED
  BY <1>1, <1>2, <1>3, <1>4, <1>5 DEF Next

(* Publishing or migrating what is already there changes nothing.          *)
THEOREM RepeatingChangesNothing == Spec => Idempotent
<1>1. Init => Calm
  BY DEF Init, Calm
<1>2. IInv /\ Calm /\ [Next]_vars => [right /\ JobStep => UNCHANGED <<exists, release>>]_vars
  BY CalmStep
<1>3. QED
  BY Invariance, CalmInv, <1>1, <1>2, PTL DEF Spec, Idempotent

-----------------------------------------------------------------------------
(* A run in which nothing fails, and the end of every run.                 *)

(* What is checked in such a run is what has just been uploaded or found,  *)
(* and what is created is not there yet.                                   *)
Steady ==
  /\ healthy /\ pc = "check" => Good(File)
  /\ pc = "create" => ~exists

LEMMA SteadyStep ==
  ASSUME IInv, Steady, [Next]_vars
  PROVE  Steady'
<1> USE DEF job
<1>1. TypeOK /\ release \in Releases /\ k \in 1..Count
  BY FileFacts DEF IInv, TypeOK
<1>2. CASE Detect \/ Create \/ Patch \/ DeletePrefixed \/ DeleteStale \/ Finish \/ Latest
             \/ Stop \/ Again
  BY <1>2 DEF Detect, Create, Patch, DeletePrefixed, DeleteStale, Finish, Latest, Stop,
              Again, Then, Steady, Running
<1>3. CASE Get
  BY <1>3 DEF Get, Found, Steady
<1>4. CASE Skip
  <2>1. Good(File)
    BY <1>1, <1>4 DEF Skip, FileTurn, Differing, IInv, ViewHolds, File
  <2>2. CASE kind = "publish"
    <3>1. pc' = "check" /\ UNCHANGED <<k, bundle, release>>
      BY <1>4, <2>2 DEF Skip
    <3>2. QED
      BY <2>1, <3>1 DEF Steady, Good, File
  <2>3. CASE kind # "publish"
    BY <1>4, <2>3 DEF Skip, NextFile, AfterLoop, Steady
  <2>4. QED
    BY <2>2, <2>3
<1>5. CASE Upload
  <2>1. SUFFICES ASSUME healthy PROVE Good(File)'
    BY <1>5 DEF Upload, Then, Steady
  <2>2. /\ release' = [release EXCEPT !.assets =
                         (@ \ Named(@, File)) \cup {Asset(File, bundle, TRUE)}]
        /\ UNCHANGED <<k, bundle>>
    BY <1>5, <2>1 DEF Upload
  <2>3. Asset(File, bundle, TRUE) \in release'.assets
    BY <1>1, <2>2 DEF Releases
  <2>4. /\ Asset(File, bundle, TRUE).name = File /\ Asset(File, bundle, TRUE).digested
        /\ Asset(File, bundle, TRUE).state = "uploaded"
        /\ Asset(File, bundle, TRUE).bytes = bundle
    BY DEF Asset
  <2>5. File' = File /\ bundle' = bundle
    BY <2>2 DEF File
  <2>6. QED
    BY <2>3, <2>4, <2>5 DEF Good, Named
<1>6. CASE Check
  BY <1>6 DEF Check, NextFile, AfterLoop, Steady
<1>7. CASE DigestReady
  <2>1. UNCHANGED <<pc, k, healthy, bundle, exists>>
    BY <1>7 DEF DigestReady
  <2>2. SUFFICES ASSUME Good(File) PROVE Good(File)'
    BY <2>1 DEF Steady
  <2>3. PICK a \in release.assets :
           ~a.digested
             /\ release' = [release EXCEPT !.assets = (@ \ {a}) \cup {[a EXCEPT !.digested = TRUE]}]
    BY <1>7 DEF DigestReady
  <2>4. release'.assets = (release.assets \ {a}) \cup {[a EXCEPT !.digested = TRUE]}
    BY <1>1, <2>3 DEF Releases
  <2>5. File' = File
    BY <2>1 DEF File
  <2>6. \E g \in release.assets : /\ g.name = File /\ g.state = "uploaded"
                                  /\ g.digested /\ g.bytes = bundle
    <3>1. Good(File)
      BY <2>2
    <3>2. QED
      BY <3>1 DEF Good, Named
  <2>7. \E g \in release'.assets : /\ g.name = File /\ g.state = "uploaded"
                                   /\ g.digested /\ g.bytes = bundle
    BY <2>3, <2>4, <2>6
  <2>8. QED
    BY <2>1, <2>5, <2>7 DEF Good, Named
<1>8. CASE UNCHANGED vars
  BY <1>8 DEF vars, Steady, Good, File
<1>9. QED
  BY <1>2, <1>3, <1>4, <1>5, <1>6, <1>7, <1>8 DEF Next, JobStep

LEMMA SteadyInv == Spec => []Steady
<1>1. Init => Steady
  BY DEF Init, Steady
<1>2. IInv /\ Steady /\ [Next]_vars => Steady'
  BY SteadyStep
<1>3. QED
  BY Invariance, <1>1, <1>2, PTL DEF Spec

(* How far a job is from its end: each file costs it four requests at the  *)
(* most, and one more where a prefixed name is left.                       *)
FilesLeft == Count - k
StepsLeft ==
  IF pc = "detect" THEN 4 * Count + 4
  ELSE IF pc = "get" THEN 4 * Count + 3
  ELSE IF pc \in {"create", "patch"} THEN 4 * Count + 2
  ELSE IF pc = "asset"
       THEN 4 * FilesLeft + (IF kind = "migrate" /\ Prefixed(File) # {} THEN 5 ELSE 4)
  ELSE IF pc = "upload" THEN 4 * FilesLeft + 3
  ELSE IF pc = "check" THEN 4 * FilesLeft + 2
  ELSE IF pc \in {"finish", "latest"} THEN 1 ELSE 0

LEMMA FilesLeftType ==
  ASSUME TypeOK
  PROVE  Count \in Nat \ {0} /\ FilesLeft \in 0..(Count - 1)
<1>1. Count \in Nat /\ k \in 1..Count
  BY FileFacts
<1>2. QED
  BY <1>1 DEF FilesLeft

LEMMA StepsLeftType ==
  ASSUME TypeOK
  PROVE  StepsLeft \in 0..(4 * Count + 4)
  BY FilesLeftType DEF StepsLeft

(* The loop over the files goes on to the next, or leaves it.              *)
LEMMA NextFileNearer ==
  ASSUME TypeOK, NextFile, bundle' = bundle
  PROVE  /\ Count' = Count
         /\ \/ pc' = "asset" /\ FilesLeft' = FilesLeft - 1 /\ FilesLeft >= 1
            \/ pc' \in {"finish", "latest"}
<1>1. Count \in Nat /\ k \in 1..Count /\ Count' = Count
  BY FileFacts DEF Count
<1>2. QED
  BY <1>1 DEF NextFile, AfterLoop, FilesLeft, Count

(* Every request takes the job nearer to its end.                          *)
LEMMA JobGoesOn ==
  ASSUME IInv, JobStep
  PROVE  StepsLeft' < StepsLeft
<1> USE DEF job
<1>1. /\ TypeOK /\ Count \in Nat \ {0} /\ FilesLeft \in 0..(Count - 1)
      /\ pc \in {"get", "create", "patch"} => k = 1
      /\ kind \in {"publish", "migrate"}
  BY FilesLeftType, CnbAssumption DEF IInv, AtStart, TypeOK
<1>2. bundle' = bundle /\ kind' = kind /\ Count' = Count
  BY DEF Count, JobStep, Detect, Get, Create, Patch, DeletePrefixed, Skip, DeleteStale,
         Upload, Check, Finish, Latest
<1>3. k' = k => FilesLeft' = FilesLeft
  BY <1>2 DEF FilesLeft
<1>4. CASE Detect
  BY <1>1, <1>2, <1>4 DEF Detect, StepsLeft
<1>5. CASE Get \/ Create \/ Patch
  <2>1. /\ k' = k /\ k = 1
        /\ \/ pc = "get" /\ pc' \in {"create", "patch", "asset"}
           \/ pc \in {"create", "patch"} /\ pc' \in {"asset", "failed"}
    BY <1>1, <1>5 DEF Get, Create, Patch, Then
  <2>2. FilesLeft = Count - 1
    BY <2>1 DEF FilesLeft
  <2>3. QED
    BY <1>1, <1>2, <1>3, <2>1, <2>2 DEF StepsLeft
<1>6. CASE DeletePrefixed
  <2>1. /\ pc = "asset" /\ kind = "migrate" /\ Prefixed(File) # {} /\ k' = k
        /\ pc' \in {"asset", "failed"}
        /\ view' = [view EXCEPT !.assets = {a \in @ : a.name \notin Prefixed(File)}]
    BY <1>6 DEF DeletePrefixed, Then
  <2>2. view'.assets = {a \in view.assets : a.name \notin Prefixed(File)} /\ File' = File
    BY <1>1, <1>2, <2>1 DEF TypeOK, Releases, File
  <2>3. Prefixed(File)' = {}
    BY <2>2 DEF Prefixed, Named
  <2>4. QED
    BY <1>1, <1>2, <1>3, <2>1, <2>3 DEF StepsLeft
<1>7. CASE Skip
  <2>1. pc = "asset" /\ (kind = "migrate" => Prefixed(File) = {})
    BY <1>7 DEF Skip, FileTurn
  <2>2. CASE kind = "publish"
    <3>1. pc' = "check" /\ k' = k
      BY <1>7, <2>2 DEF Skip
    <3>2. QED
      BY <1>1, <1>2, <1>3, <2>1, <3>1 DEF StepsLeft
  <2>3. CASE kind # "publish"
    <3>1. NextFile
      BY <1>7, <2>3 DEF Skip
    <3>2. QED
      BY <1>1, <1>2, <2>1, <3>1, NextFileNearer DEF StepsLeft
  <2>4. QED
    BY <2>2, <2>3
<1>8. CASE DeleteStale \/ Upload
  <2>1. /\ k' = k
        /\ \/ pc = "asset" /\ pc' \in {"upload", "check", "failed"}
           \/ pc = "upload" /\ pc' \in {"check", "failed"}
    BY <1>8 DEF DeleteStale, Upload, FileTurn, Then
  <2>2. QED
    BY <1>1, <1>2, <1>3, <2>1 DEF StepsLeft
<1>9. CASE Check
  <2>1. pc = "check"
    BY <1>9 DEF Check
  <2>2. CASE NextFile
    BY <1>1, <1>2, <2>1, <2>2, NextFileNearer DEF StepsLeft
  <2>3. CASE pc' = "failed"
    BY <1>1, <2>1, <2>3 DEF StepsLeft
  <2>4. QED
    BY <1>9, <2>2, <2>3 DEF Check
<1>10. CASE Finish \/ Latest
  BY <1>10 DEF Finish, Latest, Then, StepsLeft
<1>11. QED
  BY <1>4, <1>5, <1>6, <1>7, <1>8, <1>9, <1>10 DEF JobStep

(* Nothing else puts it back.                                              *)
LEMMA OthersKeepSteps ==
  ASSUME IInv, [Next]_vars, pc \in Running
  PROVE  StepsLeft' <= StepsLeft
<1>1. TypeOK /\ StepsLeft \in Nat
  <2>1. TypeOK /\ Count \in Nat
    BY FileFacts DEF IInv
  <2>2. QED
    BY <2>1, StepsLeftType
<1>2. CASE JobStep
  <2>1. TypeOK'
    BY <1>1, NextType
  <2>2. Count' \in Nat \ {0} /\ FilesLeft' \in Int
    <3>1. bundle' \in Bundles /\ k' \in 1..(Len(Fixed) + 1)
      BY <2>1 DEF TypeOK
    <3>2. Len(FilesOf(bundle')) = Len(Fixed) + 1 /\ Len(Fixed) \in Nat
      BY <3>1, FilesFacts
    <3>3. Count' = Len(Fixed) + 1
      BY <3>2 DEF Count
    <3>4. QED
      BY <3>1, <3>2, <3>3 DEF FilesLeft
  <2>3. StepsLeft' \in Int
    BY <2>2 DEF StepsLeft
  <2>4. QED
    BY <1>1, <1>2, <2>3, JobGoesOn
<1>3. CASE Stop
  BY <1>1, <1>3 DEF Stop, StepsLeft
<1>4. CASE DigestReady \/ UNCHANGED vars
  <2>1. UNCHANGED <<view, pc, k, kind, bundle>>
    BY <1>4 DEF DigestReady, job, vars
  <2>2. StepsLeft' = StepsLeft
    BY <2>1 DEF StepsLeft, FilesLeft, Count, Prefixed, File
  <2>3. QED
    BY <1>1, <2>2
<1>5. ~Again
  BY DEF Again
<1>6. QED
  BY <1>2, <1>3, <1>4, <1>5 DEF Next

(* What makes RunRecovers hold, whatever earlier runs left behind: a run   *)
(* in which nothing fails does not fail after the audit either, and what   *)
(* it creates is not there yet.                                            *)
THEOREM HealthyRunsSucceed ==
  Spec => /\ [][healthy /\ pc \in Running \ {"detect"} => pc' # "failed"]_vars
          /\ [](pc = "create" => ~exists)
<1>1. Steady /\ [Next]_vars => [healthy /\ pc \in Running \ {"detect"} => pc' # "failed"]_vars
  BY DEF Steady, Good, Same, Running, Next, JobStep, Detect, Get, Create, Patch, DeletePrefixed,
         Skip, DeleteStale, Upload, Check, Finish, Latest, Stop, Again, DigestReady,
         Then, NextFile, AfterLoop, vars
<1>2. Steady => (pc = "create" => ~exists)
  BY DEF Steady
<1>3. QED
  BY SteadyInv, <1>1, <1>2, PTL DEF Spec

(* However its requests fail, a run is a bounded number of requests away   *)
(* from its end, and every request brings it nearer.                       *)
THEOREM RunsAreBounded ==
  Spec => /\ [](StepsLeft \in 0..(4 * Count + 4))
          /\ [][JobStep => StepsLeft' < StepsLeft]_vars
          /\ [][(pc \in Running) => StepsLeft' <= StepsLeft]_vars
<1>1. IInv => StepsLeft \in 0..(4 * Count + 4)
  BY StepsLeftType DEF IInv
<1>2. IInv /\ [Next]_vars => [JobStep => StepsLeft' < StepsLeft]_vars
  BY JobGoesOn
<1>3. IInv /\ [Next]_vars => [(pc \in Running) => StepsLeft' <= StepsLeft]_vars
  BY OthersKeepSteps
<1>4. QED
  BY Invariance, <1>1, <1>2, <1>3, PTL DEF Spec
=============================================================================
