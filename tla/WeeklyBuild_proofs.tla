-------------------------- MODULE WeeklyBuild_proofs -------------------------
(***************************************************************************)
(* Proofs about module WeeklyBuild, for everything upstream may offer and  *)
(* any number of runs, changes and failures: releases do not go back, keep *)
(* the tested kernel and are about one image.                              *)
(***************************************************************************)
EXTENDS WeeklyBuild, FiniteSetTheorems, WellFoundedInduction, TLAPS

-----------------------------------------------------------------------------
(* Versions.                                                               *)

LEMMA PartFacts ==
  ASSUME NEW v \in Versions, NEW i \in Nat \ {0}
  PROVE  /\ Part(v, i) \in Nat
         /\ Part(v, i) > 0 => i \in 1..Len(v)
  BY DEF Part, Versions

LEMMA LengthNat ==
  ASSUME NEW v \in Versions
  PROVE  Len(v) \in Nat
  BY DEF Versions

(* The bound in VersionLess is no restriction: a version with a positive   *)
(* part is that long.                                                      *)
LEMMA LessAt ==
  ASSUME NEW a \in Versions, NEW b \in Versions, NEW i \in Nat \ {0},
         Part(a, i) < Part(b, i),
         \A j \in 1..(i - 1) : Part(a, j) = Part(b, j)
  PROVE  VersionLess(a, b)
<1>1. Part(a, i) \in Nat /\ Part(b, i) \in Nat /\ Part(b, i) > 0
  BY PartFacts
<1>2. i \in 1..Len(b) /\ Len(a) \in Nat /\ Len(b) \in Nat
  <2>1. i \in 1..Len(b)
    BY <1>1, PartFacts
  <2>2. Len(a) \in Nat /\ Len(b) \in Nat
    BY LengthNat
  <2>3. QED
    BY <2>1, <2>2
<1>3. i \in 1..(Len(a) + Len(b))
  BY <1>2
<1>4. QED
  BY <1>3 DEF VersionLess

(* Every non-empty set of naturals has a least element.                    *)
LEMMA LeastNat ==
  ASSUME NEW S \in SUBSET Nat, S # {}
  PROVE  \E m \in S : \A n \in S : m <= n
<1>1. PICK m \in S : \A n \in S : ~(<<n, m>> \in OpToRel(<, Nat))
  BY NatLessThanWellFounded, WFMin
<1>2. \A n \in S : ~(n < m)
  BY <1>1 DEF OpToRel
<1>3. QED
  BY <1>2

(* "Not older" carries over from release to release.                       *)
LEMMA NotLessTransitive ==
  ASSUME NEW a \in Versions, NEW b \in Versions, NEW c \in Versions,
         ~VersionLess(a, b), ~VersionLess(b, c)
  PROVE  ~VersionLess(a, c)
<1>1. SUFFICES ASSUME NEW i \in 1..(Len(a) + Len(c)),
                      Part(a, i) < Part(c, i),
                      \A j \in 1..(i - 1) : Part(a, j) = Part(c, j)
               PROVE  FALSE
  BY DEF VersionLess
<1>2. i \in Nat \ {0} /\ Part(a, i) \in Nat /\ Part(b, i) \in Nat /\ Part(c, i) \in Nat
  <2>1. Len(a) \in Nat /\ Len(c) \in Nat
    BY DEF Versions
  <2>2. i \in Nat \ {0}
    BY <2>1
  <2>3. QED
    BY <2>2, PartFacts
<1> DEFINE D == {j \in 1..(i - 1) : Part(b, j) # Part(a, j)}
<1>3. CASE D = {}
  <2>1. \A j \in 1..(i - 1) : Part(a, j) = Part(b, j) /\ Part(b, j) = Part(c, j)
    BY <1>1, <1>3
  <2>2. CASE Part(a, i) < Part(b, i)
    BY <1>2, <2>1, <2>2, LessAt
  <2>3. CASE Part(b, i) < Part(c, i)
    BY <1>2, <2>1, <2>3, LessAt
  <2>4. QED
    BY <1>1, <1>2, <2>2, <2>3
<1>4. CASE D # {}
  <2>1. D \in SUBSET Nat
    BY <1>2
  <2>2. PICK m \in D : \A n \in D : m <= n
    BY <1>4, <2>1, LeastNat
  <2>3. m \in Nat \ {0} /\ m \in 1..(i - 1) /\ Part(b, m) # Part(a, m)
    BY <1>2, <2>2
  <2>4. \A j \in 1..(m - 1) : Part(a, j) = Part(b, j) /\ Part(b, j) = Part(c, j)
    <3>1. SUFFICES ASSUME NEW j \in 1..(m - 1)
                   PROVE  Part(a, j) = Part(b, j) /\ Part(b, j) = Part(c, j)
      OBVIOUS
    <3>2. j \in 1..(i - 1) /\ ~(m <= j)
      BY <1>2, <2>3
    <3>3. QED
      BY <1>1, <2>2, <3>2
  <2>5. Part(a, m) = Part(c, m) /\ Part(a, m) \in Nat /\ Part(b, m) \in Nat
    BY <1>1, <2>3, PartFacts
  <2>6. CASE Part(a, m) < Part(b, m)
    BY <2>3, <2>4, <2>6, LessAt
  <2>7. CASE Part(b, m) < Part(c, m)
    BY <2>3, <2>4, <2>7, LessAt
  <2>8. QED
    BY <2>3, <2>5, <2>6, <2>7
<1>5. QED
  BY <1>3, <1>4

(* The order compareVersions gives (src/src/change-detection.mjs) is one the *)
(* selection of upstream assets and the rollback checks can rely on,         *)
(* whatever number of parts versions have: nothing precedes itself, no two   *)
(* versions precede each other, "before" and "not before" carry over, and    *)
(* two versions count as the same exactly if they differ in trailing zeros   *)
(* only.                                                                     *)
THEOREM VersionOrder ==
  ASSUME NEW a \in Versions, NEW b \in Versions, NEW c \in Versions
  PROVE  /\ ~VersionLess(a, a)
         /\ ~(VersionLess(a, b) /\ VersionLess(b, a))
         /\ VersionLess(a, b) /\ VersionLess(b, c) => VersionLess(a, c)
         /\ ~VersionLess(a, b) /\ ~VersionLess(b, c) => ~VersionLess(a, c)
         /\ VersionSame(a, b) <=> \A i \in Nat \ {0} : Part(a, i) = Part(b, i)
<1>1. \A x, y \in Versions : ~(VersionLess(x, y) /\ VersionLess(y, x))
  <2>1. SUFFICES ASSUME NEW x \in Versions, NEW y \in Versions,
                        VersionLess(x, y), VersionLess(y, x)
                 PROVE  FALSE
    OBVIOUS
  <2>2. PICK i \in 1..(Len(x) + Len(y)) :
           Part(x, i) < Part(y, i) /\ \A k \in 1..(i - 1) : Part(x, k) = Part(y, k)
    BY <2>1 DEF VersionLess
  <2>3. PICK j \in 1..(Len(y) + Len(x)) :
           Part(y, j) < Part(x, j) /\ \A k \in 1..(j - 1) : Part(y, k) = Part(x, k)
    BY <2>1 DEF VersionLess
  <2>4. i \in Nat \ {0} /\ j \in Nat \ {0}
    <3>1. Len(x) \in Nat /\ Len(y) \in Nat
      BY LengthNat
    <3>2. QED
      BY <3>1
  <2>5. /\ Part(x, i) \in Nat /\ Part(y, i) \in Nat
        /\ Part(x, j) \in Nat /\ Part(y, j) \in Nat
    BY <2>4, PartFacts
  <2>6. CASE i < j
    BY <2>2, <2>3, <2>4, <2>5, <2>6
  <2>7. CASE j < i
    BY <2>2, <2>3, <2>4, <2>5, <2>7
  <2>8. CASE i = j
    BY <2>2, <2>3, <2>5, <2>8
  <2>9. QED
    BY <2>4, <2>6, <2>7, <2>8
<1>2. ~VersionLess(a, a) /\ ~(VersionLess(a, b) /\ VersionLess(b, a))
  BY <1>1
<1>3. ~VersionLess(a, b) /\ ~VersionLess(b, c) => ~VersionLess(a, c)
  BY NotLessTransitive
<1>4. VersionLess(a, b) /\ VersionLess(b, c) => VersionLess(a, c)
  <2>1. SUFFICES ASSUME VersionLess(a, b), VersionLess(b, c), ~VersionLess(a, c)
                 PROVE  FALSE
    OBVIOUS
  <2>2. ~VersionLess(c, b)
    BY <1>1, <2>1
  <2>3. ~VersionLess(a, b)
    BY <2>1, <2>2, NotLessTransitive
  <2>4. QED
    BY <2>1, <2>3
<1>5. ASSUME \A i \in Nat \ {0} : Part(a, i) = Part(b, i)
      PROVE  VersionSame(a, b)
  <2>1. Len(a) + Len(b) \in Nat
    BY DEF Versions
  <2>2. ASSUME NEW i \in 1..(Len(a) + Len(b))
        PROVE  ~(Part(a, i) < Part(b, i)) /\ ~(Part(b, i) < Part(a, i))
    <3>1. i \in Nat \ {0}
      BY <2>1
    <3>2. Part(a, i) = Part(b, i) /\ Part(a, i) \in Nat
      BY <1>5, <3>1, PartFacts
    <3>3. QED
      BY <3>2
  <2>3. Len(a) + Len(b) = Len(b) + Len(a)
    BY DEF Versions
  <2>4. QED
    BY <2>2, <2>3 DEF VersionSame, VersionLess
<1>6. ASSUME VersionSame(a, b), NEW i \in Nat \ {0}
      PROVE  Part(a, i) = Part(b, i)
  <2> DEFINE D == {j \in Nat \ {0} : Part(a, j) # Part(b, j)}
  <2>1. SUFFICES ASSUME D # {} PROVE FALSE
    OBVIOUS
  <2>2. PICK m \in D : \A n \in D : m <= n
    BY <2>1, LeastNat
  <2>3. m \in Nat \ {0} /\ Part(a, m) \in Nat /\ Part(b, m) \in Nat /\ Part(a, m) # Part(b, m)
    BY <2>2, PartFacts
  <2>4. \A j \in 1..(m - 1) : Part(a, j) = Part(b, j)
    <3>1. SUFFICES ASSUME NEW j \in 1..(m - 1) PROVE Part(a, j) = Part(b, j)
      OBVIOUS
    <3>2. j \in Nat \ {0} /\ ~(m <= j)
      BY <2>3
    <3>3. QED
      BY <2>2, <3>2
  <2>5. VersionLess(a, b) \/ VersionLess(b, a)
    BY <2>3, <2>4, LessAt
  <2>6. QED
    BY <1>6, <2>5 DEF VersionSame
<1>7. QED
  BY <1>2, <1>3, <1>4, <1>5, <1>6

(* A version that is not older does not have an older major version.       *)
LEMMA MajorFollows ==
  ASSUME NEW v \in Versions, NEW w \in Versions, ~VersionLess(v, w)
  PROVE  /\ Major(v) \in Versions
         /\ ~VersionLess(Major(v), Major(w))
<1>1. v[1] \in Nat /\ w[1] \in Nat /\ Part(v, 1) = v[1] /\ Part(w, 1) = w[1]
  BY DEF Versions, Part
<1>2. ~(v[1] < w[1])
  BY <1>1, LessAt
<1>3. Major(v) \in Versions /\ Len(Major(v)) = 1 /\ Len(Major(w)) = 1
  BY <1>1 DEF Versions, Major
<1>4. SUFFICES ASSUME NEW i \in 1..2, Part(Major(v), i) < Part(Major(w), i) PROVE FALSE
  BY <1>3 DEF VersionLess
<1>5. CASE i = 1
  BY <1>2, <1>3, <1>4, <1>5 DEF Part, Major
<1>6. CASE i = 2
  BY <1>3, <1>4, <1>6 DEF Part
<1>7. QED
  BY <1>4, <1>5, <1>6

-----------------------------------------------------------------------------
(* What can be resolved.                                                   *)

Resolvable == UNION {Manifests(DebianRecord(f), u) : f \in InReleases, u \in Upstreams}

LEMMA ResolvableFacts ==
  ASSUME NEW m \in Resolvable
  PROVE  /\ Offered(m) /\ m # NoManifest /\ m.schema = 5
         /\ m.armbian \in Versions /\ m.kernelVersion \in Versions
         /\ m.debian.version \in Versions /\ m.debian.date \in Nat
         /\ m.debian.major = Major(m.debian.version) /\ m.debian.major \in Versions
         /\ m.kernelDigest = PinnedKernel.digest
<1>1. PICK f \in InReleases, u \in Upstreams : m \in Manifests(DebianRecord(f), u)
  BY DEF Resolvable
<1>2. PICK base \in BestBase(u.base, DebianRecord(f).codename) :
         m = ManifestFrom(DebianRecord(f), u, base)
  BY <1>1 DEF Manifests
<1>3. KernelFound(u.kernel)
  BY <1>1 DEF Manifests
<1>4. u.base \in BaseLists /\ u.builder \in Builders
  BY DEF Upstreams
<1>5. base \in Assets
  <2>1. base \in Candidates(u.base, DebianRecord(f).codename)
    BY <1>2 DEF BestBase
  <2>2. PICK r \in PublishedMatching(u.base, DebianRecord(f).codename) : base \in r.assets
    BY <2>1 DEF Candidates
  <2>3. r \in UNION BaseLists
    BY <1>4, <2>2 DEF PublishedMatching
  <2>4. QED
    BY <2>2, <2>3 DEF Assets
<1>6. m.kernelDigest = PinnedKernel.digest
  <2>1. {a \in u.kernel : a.name = PinnedKernel.name} # {}
    <3> DEFINE fit == {a \in u.kernel : a.name = PinnedKernel.name}
    <3>1. Cardinality(fit) = 1
      BY <1>3 DEF KernelFound
    <3> HIDE DEF fit
    <3>2. fit # {}
      BY <3>1, FS_EmptySet
    <3>3. QED
      BY <3>2 DEF fit
  <2>2. (CHOOSE a \in u.kernel : a.name = PinnedKernel.name)
           \in {a \in u.kernel : a.name = PinnedKernel.name}
    BY <2>1
  <2>3. QED
    BY <1>2, <1>3, <2>2 DEF KernelFound, ManifestFrom
<1>7. m.debian = DebianRecord(f) /\ m.debian.version \in Versions /\ m.debian.date \in Nat
      /\ m.debian.major = Major(m.debian.version)
  BY <1>2, WeeklyAssumption DEF ManifestFrom, DebianRecord
<1>8. m.debian.major \in Versions
  BY <1>7 DEF Versions, Major
<1>9. m.schema = 5 /\ m.armbian = base.armbian /\ m.base = base.digest
      /\ m.kernelVersion = PinnedKernel.version /\ m.builder = u.builder
  BY <1>2 DEF ManifestFrom
<1>10. m # NoManifest
  BY <1>1, WeeklyAssumption
<1>11. QED
  BY <1>4, <1>5, <1>6, <1>7, <1>8, <1>9, <1>10, WeeklyAssumption DEF Offered

(* The fields the comparison reads.                                        *)
Dated(m) ==
  /\ m # NoManifest /\ m.schema \in 2..5
  /\ m.armbian \in Versions /\ m.kernelVersion \in Versions /\ m.debian.major \in Versions
  /\ m.schema >= 3 => /\ m.debian.version \in Versions /\ m.debian.date \in Nat
                      /\ m.debian.major = Major(m.debian.version)

LEMMA ResolvableDated ==
  ASSUME NEW m \in Resolvable PROVE Dated(m)
  BY ResolvableFacts DEF Dated

LEMMA OldDated == OldRelease # NoManifest => Dated(OldRelease)
  BY OldReleaseAssumption DEF Dated

(* What the comparison lets pass is not older than its predecessor ...     *)
LEMMA AcceptedNotOlder ==
  ASSUME NEW new, NEW old, Dated(new), Dated(old), new.schema = 5, ~Rollback(new, old)
  PROVE  NotOlder(new, old)
<1>1. ~RejectUpstream(new, old)
  BY DEF Rollback, Dated
<1>2. CASE old.schema = 2
  BY <1>1, <1>2 DEF Rollback, Dated, RejectUpstream, RejectSchema2, NotOlder
<1>3. CASE old.schema >= 3
  <2>1. ~RejectSignedDebian(new, old)
    BY <1>3 DEF Rollback, Dated
  <2>2. /\ ~VersionLess(new.debian.version, old.debian.version)
        /\ new.debian.date >= old.debian.date
    BY <1>3, <2>1 DEF RejectSignedDebian, Dated
  <2>3. ~VersionLess(new.debian.major, old.debian.major)
    BY <1>3, <2>2, MajorFollows DEF Dated
  <2>4. QED
    BY <1>1, <2>2, <2>3 DEF NotOlder, RejectUpstream
<1>4. QED
  BY <1>2, <1>3 DEF Dated

(* ... nor than anything its predecessor is not older than.                *)
LEMMA NotOlderTransitive ==
  ASSUME NEW new, NEW mid, NEW old, Dated(new), Dated(mid), Dated(old),
         new.schema >= 3, mid.schema >= 3, NotOlder(new, mid), NotOlder(mid, old)
  PROVE  NotOlder(new, old)
<1>1. /\ ~VersionLess(new.armbian, old.armbian)
      /\ ~VersionLess(new.kernelVersion, old.kernelVersion)
      /\ ~VersionLess(new.debian.major, old.debian.major)
  BY NotLessTransitive DEF NotOlder, Dated
<1>2. ASSUME old.schema >= 3
      PROVE  /\ ~VersionLess(new.debian.version, old.debian.version)
             /\ new.debian.date >= old.debian.date
  BY <1>2, NotLessTransitive DEF NotOlder, Dated
<1>3. QED
  BY <1>1, <1>2 DEF NotOlder

-----------------------------------------------------------------------------
(* The invariant.                                                          *)

(* Releases and pending manifests have been resolved, apart from the first *)
(* release, which may be older than the model; an image about to be        *)
(* published is the one the manifest describes.                            *)
Images(m) == {ImageOf(m)} \cup WrongImages(m)

PublishedShape ==
  /\ published \in Seq(Resolvable \cup {OldRelease})
  /\ \A i \in 1..Len(published) :
        \/ published[i] \in Resolvable
        \/ i = 1 /\ published[i] = OldRelease /\ OldRelease # NoManifest

RunShape ==
  /\ pc \in {"none", "debian", "resolve", "compare"} \cup Jobs
  /\ seen \in 0..Len(published)
  /\ pc \in {"resolve", "compare"} => debian \in {DebianRecord(f) : f \in InReleases}
  /\ pc = "compare" \/ pc \in Jobs => manifest \in Resolvable
  /\ pc = "validate" => image \in Images(manifest)
  /\ pc = "publish" => image = ImageOf(manifest)

ParkedShape ==
  \A p \in parked :
     /\ p.manifest \in Resolvable /\ p.seen \in 0..Len(published) /\ p.at \in Jobs
     /\ p.at = "validate" => p.image \in {Garbage} \cup Images(p.manifest)
     /\ p.at = "publish" => p.image = ImageOf(p.manifest)

Bounds ==
  /\ up \in Upstreams /\ changes \in 0..MaxChanges
  /\ force \in BOOLEAN /\ stale \in BOOLEAN
  /\ forced \in 0..MaxForced /\ failures \in 0..MaxFailures

Shape == PublishedShape /\ RunShape /\ ParkedShape /\ Bounds

(* What was compared with the newest release may follow it.                *)
Compared ==
  /\ pc \in Jobs /\ seen = Len(published) => ~Rollback(manifest, Last)
  /\ \A p \in parked : p.seen = Len(published) => ~Rollback(p.manifest, Last)

IInv == Shape /\ Compared /\ NeverRollsBack /\ PublishedIsBound

LEMMA ShapeType == Shape => TypeOK
<1>1. SUFFICES ASSUME Shape PROVE TypeOK
  OBVIOUS
<1>2. \A i \in DOMAIN published : published[i] = OldRelease \/ Offered(published[i])
  BY <1>1, ResolvableFacts DEF Shape, PublishedShape
<1>3. /\ pc = "compare" \/ pc \in Jobs => Offered(manifest)
      /\ \A p \in parked : Offered(p.manifest)
  BY <1>1, ResolvableFacts DEF Shape, RunShape, ParkedShape
<1>4. pc \in {"validate", "publish"} => image \in Images(manifest)
  BY <1>1 DEF Shape, RunShape, Images
<1>5. QED
  BY <1>1, <1>2, <1>3, <1>4 DEF Shape, RunShape, ParkedShape, Bounds, TypeOK, Images

LEMMA InitInv == Init => IInv
<1>1. SUFFICES ASSUME Init PROVE IInv
  OBVIOUS
<1>2. PublishedShape /\ Len(published) \in {0, 1}
  <2>1. CASE OldRelease = NoManifest
    <3>1. published = <<>>
      BY <1>1, <2>1 DEF Init
    <3>2. QED
      BY <3>1 DEF PublishedShape
  <2>2. CASE OldRelease # NoManifest
    <3>1. published = <<OldRelease>>
      BY <1>1, <2>2 DEF Init
    <3>2. /\ published \in Seq(Resolvable \cup {OldRelease}) /\ Len(published) = 1
          /\ published[1] = OldRelease
      BY <3>1
    <3>3. QED
      BY <2>2, <3>2 DEF PublishedShape
  <2>3. QED
    BY <2>1, <2>2
<1>4. NeverRollsBack
  <2>1. DOMAIN published = 1..Len(published)
    BY <1>2 DEF PublishedShape
  <2>2. QED
    BY <1>2, <2>1 DEF NeverRollsBack
<1>5. RunShape /\ ParkedShape
  <2>1. pc = "none" /\ seen = 0 /\ parked = {}
    BY <1>1 DEF Init
  <2>2. 0 \in 0..Len(published)
    BY <1>2
  <2>3. QED
    BY <2>1, <2>2 DEF RunShape, ParkedShape, Jobs
<1>6. Bounds
  <2>1. changes = 0 /\ forced = 0 /\ failures = 0 /\ force \in BOOLEAN /\ stale \in BOOLEAN
    BY <1>1 DEF Init
  <2>2. 0 \in 0..MaxChanges /\ 0 \in 0..MaxForced /\ 0 \in 0..MaxFailures
    BY WeeklyAssumption
  <2>3. up \in Upstreams
    BY <1>1, WeeklyAssumption DEF Init
  <2>4. QED
    BY <2>1, <2>2, <2>3 DEF Bounds
<1>7. Compared
  BY <1>1 DEF Init, Compared, Jobs
<1>8. PublishedIsBound
  BY <1>1 DEF Init, PublishedIsBound
<1>9. QED
  BY <1>2, <1>4, <1>5, <1>6, <1>7, <1>8 DEF IInv, Shape

-----------------------------------------------------------------------------
(* The jobs.                                                               *)

(* An image the validate job accepts is the one the manifest describes,    *)
(* even if the job saw a damaged copy.                                     *)
LEMMA AcceptedImage ==
  ASSUME NEW m \in Resolvable, NEW i \in Images(m), NEW got,
         got \in {Built(m, i)} \cup Damaged(Built(m, i)), ImageAccepted(got, m)
  PROVE  i = ImageOf(m)
<1>1. m # Garbage
  BY ResolvableFacts DEF Garbage
<1>2. got.image = i
  <2>1. CASE got = Built(m, i)
    BY <2>1 DEF Built
  <2>2. CASE got \in Damaged(Built(m, i))
    <3>1. PICK f \in {"manifest", "image"} : got = [Built(m, i) EXCEPT ![f] = Garbage]
      BY <2>2 DEF Damaged, Built
    <3>2. CASE f = "manifest"
      BY <3>1, <3>2 DEF Built
    <3>3. CASE f = "image"
      BY <3>1, <3>3 DEF Built, ImageAccepted
    <3>4. QED
      BY <3>1, <3>2, <3>3
  <2>3. QED
    BY <2>1, <2>2
<1>3. i.dtb = m /\ i.uboot = m
  BY <1>2 DEF ImageAccepted, Built
<1>4. i \notin WrongImages(m)
  BY <1>1, <1>3 DEF WrongImages, ImageOf
<1>5. QED
  BY <1>4 DEF Images

(* What the publish job lets pass is about one image.                      *)
LEMMA ValidCandidate ==
  ASSUME NEW m \in Resolvable, NEW got,
         got \in {Candidate(m, ImageOf(m))} \cup Damaged(Candidate(m, ImageOf(m))),
         CandidateValid(got, m)
  PROVE  /\ got.manifest = m /\ got.image = ImageOf(m)
         /\ got.sums = got.image /\ got.report.image = got.image
         /\ \A f \in EvidenceFiles : got[f] = EvidenceOf(m, ImageOf(m))[f]
<1> DEFINE good == Candidate(m, ImageOf(m))
           report == [fingerprint |-> m, image |-> ImageOf(m),
                      evidence |-> EvidenceOf(m, ImageOf(m))]
<1>1. good.report = report
  BY DEF Candidate
<1>2. got.report = report
  <2>1. CASE got = good
    BY <1>1, <2>1
  <2>2. CASE got \in Damaged(good)
    <3>1. PICK f \in DOMAIN good : got = [good EXCEPT ![f] = Garbage]
      BY <2>2 DEF Damaged
    <3>2. f # "report"
      BY <3>1 DEF Candidate, CandidateValid
    <3>3. QED
      BY <1>1, <3>1, <3>2 DEF Candidate
  <2>3. QED
    BY <2>1, <2>2
<1>3. /\ got.manifest = m /\ got.report.image = got.image /\ got.sums = got.image
      /\ \A f \in EvidenceFiles : got[f] = got.report.evidence[f]
  BY DEF CandidateValid, SumsFit
<1>4. got.report.image = ImageOf(m) /\ got.report.evidence = EvidenceOf(m, ImageOf(m))
  BY <1>2
<1>5. QED
  BY <1>3, <1>4

-----------------------------------------------------------------------------
(* Steps.                                                                  *)

LEMMA LastFacts ==
  ASSUME PublishedShape
  PROVE  /\ Len(published) \in Nat /\ DOMAIN published = 1..Len(published)
         /\ \A i \in 1..Len(published) : Dated(published[i])
         /\ published # <<>> => Last = published[Len(published)] /\ Len(published) \in 1..Len(published)
<1>1. Len(published) \in Nat /\ DOMAIN published = 1..Len(published)
  BY DEF PublishedShape
<1>2. \A i \in 1..Len(published) : Dated(published[i])
  BY ResolvableDated, OldDated DEF PublishedShape
<1>3. QED
  BY <1>1, <1>2 DEF PublishedShape, Last

(* Nothing about the releases changes, and the active run ends.            *)
LEMMA IdleKeeps ==
  ASSUME IInv, Idle, UNCHANGED <<up, changes, published, released, stale, forced>>,
         failures' \in 0..MaxFailures,
         \/ parked' = parked
         \/ /\ pc \in Jobs
            /\ \E files : /\ parked' = parked \cup {[manifest |-> manifest, seen |-> seen,
                                                     image |-> files, at |-> pc]}
                          /\ pc = "validate" => files \in {Garbage} \cup Images(manifest)
                          /\ pc = "publish" => files = ImageOf(manifest)
  PROVE  IInv'
<1>1. ParkedShape'
  <2>1. SUFFICES ASSUME NEW p \in parked'
                 PROVE  /\ p.manifest \in Resolvable /\ p.seen \in 0..Len(published) /\ p.at \in Jobs
                        /\ p.at = "validate" => p.image \in {Garbage} \cup Images(p.manifest)
                        /\ p.at = "publish" => p.image = ImageOf(p.manifest)
    BY DEF ParkedShape
  <2>2. CASE p \in parked
    BY <2>2 DEF IInv, Shape, ParkedShape
  <2>3. CASE p \notin parked
    BY <2>1, <2>3 DEF IInv, Shape, RunShape
  <2>4. QED
    BY <2>2, <2>3
<1>2. Compared'
  BY DEF Idle, IInv, Compared, Last, Jobs
<1>3. PublishedShape' /\ Bounds'
  BY DEF IInv, Shape, PublishedShape, Bounds, Idle
<1>4. RunShape'
  BY LastFacts DEF IInv, Shape, RunShape, Idle, Jobs
<1>5. NeverRollsBack' /\ PublishedIsBound'
  BY DEF IInv, NeverRollsBack, PublishedIsBound, Last, NotOlder
<1>6. QED
  BY <1>1, <1>2, <1>3, <1>4, <1>5 DEF IInv, Shape

(* The releases stay, the run goes on.                                     *)
LEMMA RunKeeps ==
  ASSUME IInv, UNCHANGED <<published, released, stale>>, RunShape', ParkedShape', Bounds',
         Compared'
  PROVE  IInv'
<1>1. PublishedShape'
  BY DEF IInv, Shape, PublishedShape
<1>2. NeverRollsBack' /\ PublishedIsBound'
  BY DEF IInv, NeverRollsBack, PublishedIsBound, Last, NotOlder
<1>3. QED
  BY <1>1, <1>2 DEF IInv, Shape

(* A run that publishes: its manifest was compared with what is newest     *)
(* unless that makes the history stale.                                    *)
LEMMA PublishKeeps ==
  ASSUME IInv, NEW got,
         pc = "publish",
         got \in {Candidate(manifest, image)} \cup Damaged(Candidate(manifest, image)),
         CandidateValid(got, manifest),
         published' = Append(published, got.manifest), released' = got,
         stale' = (stale \/ seen # Len(published)),
         Idle, UNCHANGED <<up, changes, forced, parked>>, failures' \in 0..MaxFailures
  PROVE  IInv'
<1> USE DEF Jobs
<1>1. manifest \in Resolvable /\ image = ImageOf(manifest)
  BY DEF IInv, Shape, RunShape
<1>2. /\ got.manifest = manifest /\ got.image = ImageOf(manifest)
      /\ got.sums = got.image /\ got.report.image = got.image
      /\ \A f \in EvidenceFiles : got[f] = EvidenceOf(manifest, ImageOf(manifest))[f]
  BY <1>1, ValidCandidate
<1>3. /\ PublishedShape /\ Len(published) \in Nat
      /\ \A i \in 1..Len(published) : Dated(published[i])
  BY LastFacts DEF IInv, Shape
<1>4. /\ Len(published') = Len(published) + 1
      /\ published'[Len(published) + 1] = manifest
      /\ \A i \in 1..Len(published) : published'[i] = published[i]
      /\ published' \in Seq(Resolvable \cup {OldRelease})
      /\ DOMAIN published' = 1..(Len(published) + 1)
  BY <1>1, <1>2, <1>3 DEF PublishedShape
<1>5. Last' = manifest
  BY <1>3, <1>4 DEF Last
<1>6. PublishedShape'
  <2>1. SUFFICES ASSUME NEW i \in 1..(Len(published) + 1)
                 PROVE  \/ published'[i] \in Resolvable
                        \/ i = 1 /\ published'[i] = OldRelease /\ OldRelease # NoManifest
    BY <1>4 DEF PublishedShape
  <2>2. CASE i = Len(published) + 1
    BY <1>1, <1>4, <2>2
  <2>3. CASE i # Len(published) + 1
    <3>1. i \in 1..Len(published)
      BY <1>3, <2>3
    <3>2. QED
      BY <1>3, <1>4, <3>1 DEF PublishedShape
  <2>4. QED
    BY <2>2, <2>3
<1>7. RunShape' /\ Bounds'
  <2>1. pc' = "none" /\ seen' = 0 /\ force' \in BOOLEAN /\ stale' \in BOOLEAN
    BY DEF Idle
  <2>2. RunShape'
    BY <1>3, <1>4, <2>1 DEF RunShape
  <2>3. QED
    BY <2>1, <2>2 DEF IInv, Shape, Bounds
<1>8. ParkedShape' /\ Compared'
  <2>1. \A p \in parked : p.seen \in 0..Len(published) /\ p.seen # Len(published) + 1
    BY <1>3 DEF IInv, Shape, ParkedShape
  <2>2. ParkedShape'
    BY <1>3, <1>4, <2>1 DEF IInv, Shape, ParkedShape
  <2>3. Compared'
    BY <1>4, <2>1 DEF Compared, Idle
  <2>4. QED
    BY <2>2, <2>3
<1>9. NeverRollsBack'
  <2>1. SUFFICES ASSUME ~stale',
                        NEW j \in 1..(Len(published) + 1), NEW i \in 1..(j - 1)
                 PROVE  NotOlder(published'[j], published'[i])
    BY <1>4 DEF NeverRollsBack, NotOlder
  <2>2. ~stale /\ seen = Len(published)
    BY <2>1
  <2>3. i \in 1..Len(published) /\ published'[i] = published[i]
    BY <1>3, <1>4, <2>1
  <2>4. CASE j # Len(published) + 1
    <3>1. j \in 1..Len(published) /\ published'[j] = published[j]
      BY <1>3, <1>4, <2>4
    <3>2. j \in DOMAIN published
      BY <3>1, LastFacts, <1>3
    <3>3. QED
      BY <2>2, <2>3, <3>1, <3>2 DEF IInv, NeverRollsBack
  <2>5. CASE j = Len(published) + 1
    <3>1. published'[j] = manifest /\ Dated(manifest) /\ manifest.schema = 5
      BY <1>1, <1>4, <2>5, ResolvableDated, ResolvableFacts
    <3>2. ~Rollback(manifest, Last) /\ Last = published[Len(published)]
      BY <1>3, <2>2, <2>3 DEF IInv, Compared, Last
    <3>3. Len(published) \in 1..Len(published) /\ Dated(Last)
      BY <1>3, <2>3, <3>2
    <3>4. NotOlder(manifest, Last)
      BY <3>1, <3>2, <3>3, AcceptedNotOlder
    <3>5. CASE i = Len(published)
      BY <2>3, <3>1, <3>2, <3>4, <3>5
    <3>6. CASE i < Len(published)
      <4>1. NotOlder(Last, published[i])
        <5>1. Len(published) \in DOMAIN published /\ i \in 1..(Len(published) - 1)
          BY <1>3, <2>3, <3>3, <3>6, LastFacts
        <5>2. QED
          BY <2>2, <3>2, <5>1 DEF IInv, NeverRollsBack
      <4>2. Last \in Resolvable
        BY <1>3, <2>3, <3>2, <3>3, <3>6 DEF PublishedShape
      <4>3. Dated(published[i]) /\ Last.schema = 5
        BY <1>3, <2>3, <4>2, ResolvableFacts
      <4>4. NotOlder(manifest, published[i])
        BY <3>1, <3>3, <3>4, <4>1, <4>3, NotOlderTransitive
      <4>5. QED
        BY <2>3, <3>1, <4>4
    <3>7. QED
      BY <1>3, <2>3, <3>5, <3>6
  <2>6. QED
    BY <2>4, <2>5
<1>10. PublishedIsBound'
  BY <1>2, <1>5 DEF PublishedIsBound
<1>11. QED
  BY <1>6, <1>7, <1>8, <1>9, <1>10 DEF IInv, Shape

LEMMA NextInv == IInv /\ [Next]_vars => IInv'
<1> SUFFICES ASSUME IInv, [Next]_vars PROVE IInv'
  OBVIOUS
<1> USE DEF run, past, Jobs
<1>1. /\ PublishedShape /\ RunShape /\ ParkedShape /\ Bounds /\ Compared
      /\ Len(published) \in Nat /\ DOMAIN published = 1..Len(published)
      /\ published # <<>> => Last = published[Len(published)]
  BY LastFacts DEF IInv, Shape
<1>2. ASSUME WentWrong PROVE failures' \in 0..MaxFailures
  BY <1>1, <1>2, WeeklyAssumption DEF WentWrong, Bounds
<1>3. CASE UpstreamMoves
  <2>1. up' \in Upstreams /\ changes' \in 0..MaxChanges
    BY <1>1, <1>3, WeeklyAssumption DEF UpstreamMoves, Upstreams, Bounds
  <2>2. UNCHANGED <<published, released, stale>> /\ RunShape' /\ ParkedShape' /\ Compared'
    BY <1>1, <1>3 DEF UpstreamMoves, RunShape, ParkedShape, Compared, Last
  <2>3. Bounds'
    BY <1>1, <1>3, <2>1 DEF UpstreamMoves, Bounds
  <2>4. QED
    BY <2>2, <2>3, RunKeeps
<1>4. CASE Scheduled \/ Dispatched
  <2>1. UNCHANGED <<published, released, stale>> /\ ParkedShape' /\ Compared'
    BY <1>1, <1>4 DEF Scheduled, Dispatched, ParkedShape, Compared, Last
  <2>2. RunShape'
    BY <1>1, <1>4 DEF Scheduled, Dispatched, RunShape
  <2>3. Bounds'
    <3>1. /\ UNCHANGED <<up, changes, stale, failures>> /\ force' \in BOOLEAN
          /\ forced' = forced \/ (forced < MaxForced /\ forced' = forced + 1)
      BY <1>4 DEF Scheduled, Dispatched
    <3>2. forced' \in 0..MaxForced
      BY <1>1, <3>1, WeeklyAssumption DEF Bounds
    <3>3. QED
      BY <1>1, <3>1, <3>2 DEF Bounds
  <2>4. QED
    BY <2>1, <2>2, <2>3, RunKeeps
<1>5. CASE ReadDebian
  <2>1. CASE InReleaseAccepted(up.inrelease)
    <3>1. up.inrelease \in InReleases
      BY <1>1 DEF Bounds, Upstreams
    <3>2. RunShape'
      BY <1>1, <1>5, <2>1, <3>1 DEF ReadDebian, RunShape
    <3>3. UNCHANGED <<published, released, stale>> /\ ParkedShape' /\ Compared' /\ Bounds'
      BY <1>1, <1>5, <2>1 DEF ReadDebian, ParkedShape, Compared, Bounds, Last
    <3>4. QED
      BY <3>2, <3>3, RunKeeps
  <2>2. CASE ~InReleaseAccepted(up.inrelease)
    BY <1>1, <1>5, <2>2, IdleKeeps DEF ReadDebian, Bounds
  <2>3. QED
    BY <2>1, <2>2
<1>6. CASE Resolve
  <2>1. CASE Manifests(debian, up) # {}
    <3>1. manifest' \in Resolvable
      BY <1>1, <1>6, <2>1 DEF Resolve, RunShape, Bounds, Resolvable
    <3>2. RunShape'
      BY <1>1, <1>6, <2>1, <3>1 DEF Resolve, RunShape
    <3>3. UNCHANGED <<published, released, stale>> /\ ParkedShape' /\ Compared' /\ Bounds'
      BY <1>1, <1>6, <2>1 DEF Resolve, ParkedShape, Compared, Bounds, Last
    <3>4. QED
      BY <3>2, <3>3, RunKeeps
  <2>2. CASE Manifests(debian, up) = {}
    BY <1>1, <1>6, <2>2, IdleKeeps DEF Resolve, Bounds
  <2>3. QED
    BY <2>1, <2>2
<1>7. CASE Compare
  <2>1. CASE Rollback(manifest, Last) \/ ~Changed(manifest, Last, force)
    BY <1>1, <1>7, <2>1, IdleKeeps DEF Compare, Bounds
  <2>2. CASE ~(Rollback(manifest, Last) \/ ~Changed(manifest, Last, force))
    <3>1. /\ pc = "compare" /\ pc' = "build" /\ seen' = Len(published)
          /\ UNCHANGED <<force, manifest, image, up, changes, past>>
      BY <1>7, <2>2 DEF Compare
    <3>2. RunShape'
      BY <1>1, <3>1 DEF RunShape
    <3>3. Compared'
      BY <1>1, <2>2, <3>1 DEF Compared, Last
    <3>4. ParkedShape' /\ Bounds'
      BY <1>1, <3>1 DEF ParkedShape, Bounds
    <3>5. QED
      BY <3>1, <3>2, <3>3, <3>4, RunKeeps
  <2>3. QED
    BY <2>1, <2>2
<1>8. CASE Build
  <2>1. /\ pc = "build" /\ pc' = "validate" /\ image' \in Images(manifest)
        /\ UNCHANGED <<up, changes, force, debian, manifest, seen, published, released,
                       parked, stale, forced>>
    BY <1>8 DEF Build, Images
  <2>2. failures' \in 0..MaxFailures
    BY <1>1, <1>2, <1>8 DEF Build, Bounds
  <2>3. RunShape' /\ Compared' /\ ParkedShape' /\ Bounds'
    BY <1>1, <2>1, <2>2 DEF RunShape, Compared, ParkedShape, Bounds, Last
  <2>4. QED
    BY <2>1, <2>3, RunKeeps
<1>9. CASE Validate
  <2>1. /\ pc = "validate" /\ manifest \in Resolvable /\ image \in Images(manifest)
        /\ UNCHANGED <<up, changes, published, released, stale, forced>>
    BY <1>1, <1>9 DEF Validate, RunShape
  <2>2. PICK got \in {Built(manifest, image)} \cup Damaged(Built(manifest, image)) :
           /\ AsStored(Built(manifest, image), got)
           /\ IF /\ ImageAccepted(got, manifest)
                 /\ CandidateValid(Candidate(got.manifest, got.image), manifest)
              THEN pc' = "publish" /\ UNCHANGED <<force, debian, manifest, seen, image, parked>>
              ELSE Park(IF got = Built(manifest, image) THEN Garbage ELSE image)
    BY <1>9 DEF Validate
  <2>3. failures' \in 0..MaxFailures
    BY <1>1, <1>2, <2>2 DEF AsStored, Bounds
  <2>4. CASE /\ ImageAccepted(got, manifest)
             /\ CandidateValid(Candidate(got.manifest, got.image), manifest)
    <3>1. image = ImageOf(manifest)
      BY <2>1, <2>2, <2>4, AcceptedImage
    <3>2. RunShape' /\ Compared' /\ ParkedShape' /\ Bounds'
      BY <1>1, <2>1, <2>2, <2>3, <2>4, <3>1
      DEF RunShape, Compared, ParkedShape, Bounds, Last
    <3>3. QED
      BY <2>1, <3>2, RunKeeps
  <2>5. CASE ~(/\ ImageAccepted(got, manifest)
               /\ CandidateValid(Candidate(got.manifest, got.image), manifest))
    <3>1. PICK files \in {Garbage} \cup Images(manifest) : Park(files)
      BY <2>1, <2>2, <2>5
    <3>2. QED
      BY <2>1, <2>3, <3>1, IdleKeeps DEF Park
  <2>6. QED
    BY <2>4, <2>5
<1>10. CASE Publish
  <2>1. /\ pc = "publish" /\ image = ImageOf(manifest) /\ UNCHANGED <<up, changes, forced>>
    BY <1>1, <1>10 DEF Publish, RunShape
  <2>2. PICK got \in {Candidate(manifest, image)} \cup Damaged(Candidate(manifest, image)) :
           /\ AsStored(Candidate(manifest, image), got)
           /\ IF CandidateValid(got, manifest)
              THEN /\ published' = Append(published, got.manifest) /\ released' = got
                   /\ stale' = (stale \/ seen # Len(published))
                   /\ Idle /\ UNCHANGED parked
              ELSE Park(image) /\ UNCHANGED <<published, released, stale>>
    BY <1>10 DEF Publish
  <2>3. failures' \in 0..MaxFailures
    BY <1>1, <1>2, <2>2 DEF AsStored, Bounds
  <2>4. CASE CandidateValid(got, manifest)
    BY <2>1, <2>2, <2>3, <2>4, PublishKeeps
  <2>5. CASE ~CandidateValid(got, manifest)
    BY <2>1, <2>2, <2>3, <2>5, IdleKeeps DEF Park
  <2>6. QED
    BY <2>4, <2>5
<1>11. CASE Fail
  <2>1. failures' \in 0..MaxFailures /\ UNCHANGED <<up, changes, published, released, stale, forced>>
    BY <1>2, <1>11 DEF Fail
  <2>2. CASE pc \in Jobs
    <3>1. Park(image)
      BY <1>11, <2>2 DEF Fail
    <3>2. /\ pc = "validate" => image \in {Garbage} \cup Images(manifest)
          /\ pc = "publish" => image = ImageOf(manifest)
      BY <1>1 DEF RunShape
    <3>3. QED
      BY <2>1, <2>2, <3>1, <3>2, IdleKeeps DEF Park
  <2>3. CASE pc \notin Jobs
    BY <1>11, <2>1, <2>3, IdleKeeps DEF Fail
  <2>4. QED
    BY <2>2, <2>3
<1>12. CASE Resume
  <2>1. PICK p \in parked : \E job \in UpTo(p.at) :
           /\ parked' = parked \ {p}
           /\ pc' = job /\ manifest' = p.manifest /\ seen' = p.seen
           /\ job # "build" => p.image # Garbage
           /\ image' = IF job = "build" THEN Garbage ELSE p.image
    BY <1>12 DEF Resume
  <2>2. UNCHANGED <<force, up, changes, published, released, stale, forced, failures>>
    BY <1>12 DEF Resume
  <2>3. /\ p.manifest \in Resolvable /\ p.seen \in 0..Len(published) /\ p.at \in Jobs
        /\ p.at = "validate" => p.image \in {Garbage} \cup Images(p.manifest)
        /\ p.at = "publish" => p.image = ImageOf(p.manifest)
        /\ p.seen = Len(published) => ~Rollback(p.manifest, Last)
    BY <1>1 DEF ParkedShape, Compared
  <2>4. RunShape'
    <3>1. /\ pc' \in Jobs /\ manifest' = p.manifest /\ seen' = p.seen
          /\ pc' = "validate" => p.at \in {"validate", "publish"}
                                   /\ image' = p.image /\ p.image # Garbage
          /\ pc' = "publish" => p.at = "publish" /\ image' = p.image
      BY <2>1, <2>3 DEF UpTo
    <3>2. pc' = "validate" => image' \in Images(manifest')
      BY <2>3, <3>1 DEF Images
    <3>3. QED
      BY <2>2, <2>3, <3>1, <3>2 DEF RunShape
  <2>5. ParkedShape' /\ Compared' /\ Bounds'
    BY <1>1, <2>1, <2>2, <2>3 DEF ParkedShape, Compared, Bounds, Last
  <2>6. QED
    BY <2>2, <2>4, <2>5, RunKeeps
<1>13. CASE UNCHANGED vars
  <2>1. UNCHANGED <<published, released, stale>> /\ RunShape' /\ ParkedShape' /\ Bounds' /\ Compared'
    BY <1>1, <1>13 DEF vars, RunShape, ParkedShape, Bounds, Compared, Last
  <2>2. QED
    BY <2>1, RunKeeps
<1>14. QED
  BY <1>3, <1>4, <1>5, <1>6, <1>7, <1>8, <1>9, <1>10, <1>11, <1>12, <1>13 DEF Next, RunStep

LEMMA Invariance == Spec => []IInv
  BY InitInv, NextInv, PTL DEF Spec

-----------------------------------------------------------------------------
(* Every variable keeps its type, whatever upstream offers.                *)
THEOREM TypeCorrect == Spec => []TypeOK
<1>1. IInv => TypeOK
  BY ShapeType DEF IInv
<1>2. QED
  BY Invariance, <1>1, PTL

(* No release goes back behind any release before it, unless the failed    *)
(* jobs of an old run were resumed over a newer release.                   *)
THEOREM ReleasesNeverRollBack == Spec => []NeverRollsBack
<1>1. IInv => NeverRollsBack
  BY DEF IInv
<1>2. QED
  BY Invariance, <1>1, PTL

(* Every release is built with the kernel the project has tested.          *)
THEOREM ReleasesKeepTheKernel == Spec => []KernelFrozen
<1>1. IInv => KernelFrozen
  <2>1. SUFFICES ASSUME PublishedShape PROVE KernelFrozen
    BY DEF IInv, Shape
  <2>2. QED
    BY <2>1, LastFacts, ResolvableFacts DEF PublishedShape, KernelFrozen
<1>2. QED
  BY Invariance, <1>1, PTL

(* The newest release consists of files about one image, the one its       *)
(* manifest describes, whatever was damaged or built wrong on the way.     *)
THEOREM ReleasesAreBound == Spec => []PublishedIsBound
<1>1. IInv => PublishedIsBound
  BY DEF IInv
<1>2. QED
  BY Invariance, <1>1, PTL

-----------------------------------------------------------------------------
(* An undisturbed run settles the matter.                                  *)

(* What the active run holds is what upstream offers now, built right.     *)
Fresh ==
  \/ pc = "debian"
  \/ /\ pc = "resolve"
     /\ InReleaseAccepted(up.inrelease) /\ debian = DebianRecord(up.inrelease)
  \/ pc \in {"compare", "build"} /\ manifest \in Offer
  \/ pc \in {"validate", "publish"} /\ manifest \in Offer /\ image = ImageOf(manifest)

(* Steps of the run still to come. *)
Rank ==
  CASE pc = "none" -> 0
    [] pc = "publish" -> 1
    [] pc = "validate" -> 2
    [] pc = "build" -> 3
    [] pc = "compare" -> 4
    [] pc = "resolve" -> 5
    [] pc = "debian" -> 6

(* The checks of the validate and the publish job let a good build pass.   *)
LEMMA GoodBuildAccepted ==
  ASSUME NEW m \in Resolvable
  PROVE  /\ ImageAccepted(Built(m, ImageOf(m)), m)
         /\ CandidateValid(Candidate(m, ImageOf(m)), m)
<1>1. ImageOf(m) # Garbage /\ Candidate(m, ImageOf(m)).report # Garbage
  BY GarbageAssumption DEF Resolvable
<1>2. ImageAccepted(Built(m, ImageOf(m)), m)
  BY <1>1 DEF ImageAccepted, Built, IdentityFits, ImageOf
<1> DEFINE dir == Candidate(m, ImageOf(m))
<1> DEFINE evidence == EvidenceOf(m, ImageOf(m))
<1>3. /\ dir.manifest = m /\ dir.image = ImageOf(m) /\ dir.sums = ImageOf(m)
      /\ dir.heads = ExpectedInputs(m)
      /\ dir.report = [fingerprint |-> m, image |-> ImageOf(m), evidence |-> evidence]
      /\ dir.components = evidence.components /\ dir.smoke = evidence.smoke
      /\ dir.filesystem = evidence.filesystem
      /\ dir.dtbBuild = evidence.dtbBuild /\ dir.ubootBuild = evidence.ubootBuild
  BY DEF Candidate
<1>4. /\ evidence.components = [dtb |-> m, uboot |-> m]
      /\ evidence.smoke = [fingerprint |-> m, raw |-> ImageOf(m)]
      /\ evidence.dtbBuild = m /\ evidence.ubootBuild = m
  BY DEF EvidenceOf, ImageOf
<1> HIDE DEF dir, evidence
<1>5. \A f \in EvidenceFiles : dir[f] = dir.report.evidence[f]
  BY <1>3 DEF EvidenceFiles
<1>6. SumsFit(dir) /\ SmokeFits(dir) /\ DtbFits(dir) /\ UbootFits(dir)
  BY <1>1, <1>3, <1>4 DEF SumsFit, SmokeFits, DtbFits, UbootFits
<1>7. CandidateValid(dir, m)
  BY <1>1, <1>3, <1>5, <1>6 DEF CandidateValid, dir
<1>8. QED
  BY <1>2, <1>7 DEF dir

LEMMA OfferResolvable ==
  ASSUME Bounds
  PROVE  Offer \subseteq Resolvable
  BY DEF Bounds, Upstreams, Offer, Resolvable

LEMMA FreshRunGoesOn ==
  ASSUME IInv, Fresh, RunStep, failures' = failures
  PROVE  \/ Fresh' /\ Rank' < Rank
         \/ pc' = "none" /\ Settled'
<1> USE DEF past, Idle
<1>1. /\ PublishedShape /\ Bounds /\ failures \in Nat
      /\ Offer \subseteq Resolvable
      /\ up' = up
  <2>1. failures \in Nat
    BY WeeklyAssumption DEF IInv, Shape, Bounds
  <2>2. up' = up
    BY DEF RunStep, ReadDebian, Resolve, Compare, Build, Validate, Publish
  <2>3. QED
    BY <2>1, <2>2, OfferResolvable DEF IInv, Shape
<1>2. Offer' = Offer /\ ~WentWrong
  BY <1>1 DEF Offer, WentWrong
<1>3. CASE ReadDebian
  <2>1. CASE InReleaseAccepted(up.inrelease)
    BY <1>1, <1>3, <2>1 DEF ReadDebian, Fresh, Rank
  <2>2. CASE ~InReleaseAccepted(up.inrelease)
    BY <1>2, <1>3, <2>2 DEF ReadDebian, Settled, Offer
  <2>3. QED
    BY <2>1, <2>2
<1>4. CASE Resolve
  <2>1. pc = "resolve" /\ Manifests(debian, up) = Offer
    BY <1>4 DEF Resolve, Fresh, Offer
  <2>2. CASE Offer # {}
    <3>1. pc' = "compare" /\ manifest' \in Offer
      BY <1>4, <2>1, <2>2 DEF Resolve
    <3>2. QED
      BY <1>2, <2>1, <3>1 DEF Fresh, Rank
  <2>3. CASE Offer = {}
    BY <1>2, <1>4, <2>1, <2>3 DEF Resolve, Settled
  <2>4. QED
    BY <2>2, <2>3
<1>5. CASE Compare
  <2>1. pc = "compare" /\ manifest \in Offer /\ published' = published
    BY <1>5 DEF Compare, Fresh
  <2>2. Last' = Last
    BY <2>1 DEF Last
  <2>3. CASE Rollback(manifest, Last) \/ ~Changed(manifest, Last, force)
    <3>1. Rollback(manifest, Last) \/ manifest = Last
      BY <2>3 DEF Changed
    <3>2. pc' = "none"
      BY <1>5, <2>3 DEF Compare
    <3>3. Settled'
      BY <1>2, <2>1, <2>2, <3>1 DEF Settled, Rollback, RejectUpstream, RejectSignedDebian,
           RejectSchema2
    <3>4. QED
      BY <3>2, <3>3
  <2>4. CASE ~(Rollback(manifest, Last) \/ ~Changed(manifest, Last, force))
    BY <1>2, <1>5, <2>1, <2>4 DEF Compare, Fresh, Rank
  <2>5. QED
    BY <2>3, <2>4
<1>6. CASE Build
  <2>1. pc = "build" /\ manifest' = manifest /\ manifest \in Offer /\ pc' = "validate"
    BY <1>6 DEF Build, Fresh
  <2>2. image' = ImageOf(manifest)
    BY <1>2, <1>6 DEF Build
  <2>3. QED
    BY <1>2, <2>1, <2>2 DEF Fresh, Rank, ImageOf
<1>7. CASE Validate
  <2>1. pc = "validate" /\ manifest \in Offer /\ manifest \in Resolvable
        /\ image = ImageOf(manifest)
    BY <1>1, <1>7 DEF Validate, Fresh
  <2>2. /\ pc' = "publish" /\ UNCHANGED <<manifest, image>>
    <3> DEFINE stored == Built(manifest, image)
    <3>1. PICK got \in {stored} \cup Damaged(stored) :
             /\ AsStored(stored, got)
             /\ IF /\ ImageAccepted(got, manifest)
                   /\ CandidateValid(Candidate(got.manifest, got.image), manifest)
                THEN pc' = "publish" /\ UNCHANGED <<force, debian, manifest, seen, image, parked>>
                ELSE Park(IF got = stored THEN Garbage ELSE image)
      BY <1>7 DEF Validate
    <3>2. got = Built(manifest, ImageOf(manifest))
      BY <1>2, <2>1, <3>1 DEF AsStored
    <3>3. got.manifest = manifest /\ got.image = ImageOf(manifest)
      BY <3>2 DEF Built
    <3>4. /\ ImageAccepted(got, manifest)
          /\ CandidateValid(Candidate(got.manifest, got.image), manifest)
      BY <2>1, <3>2, <3>3, GoodBuildAccepted
    <3>5. QED
      BY <3>1, <3>4
  <2>3. QED
    BY <1>2, <2>1, <2>2 DEF Fresh, Rank, ImageOf
<1>8. CASE Publish
  <2>1. pc = "publish" /\ manifest \in Offer /\ manifest \in Resolvable
        /\ image = ImageOf(manifest)
    BY <1>1, <1>8 DEF Publish, Fresh
  <2>2. pc' = "none" /\ published' = Append(published, manifest)
    <3> DEFINE stored == Candidate(manifest, image)
    <3>1. PICK got \in {stored} \cup Damaged(stored) :
             /\ AsStored(stored, got)
             /\ IF CandidateValid(got, manifest)
                THEN /\ published' = Append(published, got.manifest) /\ released' = got
                     /\ stale' = (stale \/ seen # Len(published))
                     /\ Idle /\ UNCHANGED parked
                ELSE Park(image) /\ UNCHANGED <<published, released, stale>>
      BY <1>8 DEF Publish
    <3>2. got = Candidate(manifest, ImageOf(manifest))
      BY <1>2, <2>1, <3>1 DEF AsStored
    <3>3. got.manifest = manifest /\ CandidateValid(got, manifest)
      BY <2>1, <3>2, GoodBuildAccepted DEF Candidate
    <3>4. QED
      BY <3>1, <3>3
  <2>3. Last' = manifest
    BY <1>1, <2>1, <2>2 DEF PublishedShape, Last
  <2>4. QED
    BY <1>2, <2>1, <2>2, <2>3 DEF Settled
<1>9. QED
  BY <1>3, <1>4, <1>5, <1>6, <1>7, <1>8 DEF RunStep

(* What makes ChangesArrive hold, for everything upstream may offer: a run *)
(* that nothing goes wrong in and that upstream does not move under needs  *)
(* at most six steps, and when it ends the newest release is what upstream *)
(* offers, or upstream offers nothing usable or something older.  No check *)
(* on the way refuses a good build, and no change is taken for none.       *)
THEOREM UndisturbedRunsSettle ==
  Spec => [][/\ Scheduled \/ Dispatched => Fresh' /\ Rank' = 6
             /\ Fresh /\ RunStep /\ failures' = failures =>
                  \/ Fresh' /\ Rank' < Rank
                  \/ pc' = "none" /\ Settled']_vars
<1>1. Scheduled \/ Dispatched => Fresh' /\ Rank' = 6
  BY DEF Scheduled, Dispatched, Fresh, Rank
<1>2. IInv /\ [Next]_vars =>
        [/\ Scheduled \/ Dispatched => Fresh' /\ Rank' = 6
         /\ Fresh /\ RunStep /\ failures' = failures =>
              \/ Fresh' /\ Rank' < Rank
              \/ pc' = "none" /\ Settled']_vars
  BY <1>1, FreshRunGoesOn
<1>3. QED
  BY Invariance, <1>2, PTL DEF Spec
=============================================================================
