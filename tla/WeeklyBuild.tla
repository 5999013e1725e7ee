----------------------------- MODULE WeeklyBuild ----------------------------
(***************************************************************************)
(* .github/workflows/weekly-build.yml over months: upstream moves on, a    *)
(* run resolves it (ChangeDetection), compares it with the newest release, *)
(* builds, validates and publishes.  The concurrency group lets one run    *)
(* work at a time.  Its jobs hand files over as artifacts                  *)
(* (CandidateArtifacts); a transfer may damage one of them, and a build    *)
(* may come out wrong.  A run may fail after any step; as long as its      *)
(* artifacts are kept its failed jobs can be run again, with the manifest  *)
(* it resolved then.  What happens on the release service inside the       *)
(* publish job is the module GithubPublish; here it publishes or fails.    *)
(***************************************************************************)
EXTENDS CandidateArtifacts

CONSTANTS
    InReleases, BaseLists, KernelLists, Builders,   \* what upstream may offer
    FirstUpstream,   \* the upstream state at the beginning
    OldRelease,      \* the manifest of a release from before, or NoManifest
    MaxChanges,      \* bound: changes of the upstream state
    MaxForced,       \* bound: runs dispatched with force
    MaxFailures      \* bound: failed steps, wrong builds and damaged transfers

Upstreams == [inrelease : InReleases, base : BaseLists, kernel : KernelLists,
              builder : Builders]
Assets == UNION {r.assets : r \in UNION BaseLists}

\* What can be resolved is not NoManifest.  A release from before has at least
\* schema 2, the first that names a Debian version; from schema 3 on it has the
\* signed record.
ASSUME WeeklyAssumption ==
    /\ MaxChanges \in Nat /\ MaxForced \in Nat /\ MaxFailures \in Nat
    /\ FirstUpstream \in Upstreams
    /\ \A f \in InReleases : f.version \in Versions /\ f.date \in Nat
    /\ \A a \in Assets : a.armbian \in Versions
    /\ PinnedKernel.version \in Versions
    /\ \A f \in InReleases, u \in Upstreams : NoManifest \notin Manifests(DebianRecord(f), u)

ASSUME OldReleaseAssumption ==
    OldRelease # NoManifest =>
        /\ OldRelease.schema \in 2..5
        /\ OldRelease.armbian \in Versions /\ OldRelease.kernelVersion \in Versions
        /\ OldRelease.debian.major \in Versions
        /\ OldRelease.schema >= 3 =>
               /\ OldRelease.debian.version \in Versions /\ OldRelease.debian.date \in Nat
               /\ OldRelease.debian.major = Major(OldRelease.debian.version)

\* Bytes nothing can be made of are no image and no report.
ASSUME GarbageAssumption ==
    \A f \in InReleases, u \in Upstreams : \A m \in Manifests(DebianRecord(f), u) :
        /\ ImageOf(m) # Garbage
        /\ Candidate(m, ImageOf(m)).report # Garbage

VARIABLES
    up,          \* [inrelease, base, kernel, builder] as upstream serves it
    changes,     \* changes so far
    published,   \* manifests of the public releases, oldest first
    released,    \* the files of the newest release, NoManifest if not seen here
    pc,          \* the active run: "none" or its next step
    force,       \* inputs.force of the active run
    debian,      \* the Debian record it has read
    manifest,    \* the manifest it has resolved
    seen,        \* number of releases when it compared
    image,       \* the image it has built and stored, or Garbage
    parked,      \* failed runs that can still be run again: [manifest, seen,
                 \* image, at], at: the job that failed
    stale,       \* some run published a manifest compared with an older release
    forced,      \* runs dispatched with force so far
    failures     \* failures so far

run  == <<pc, force, debian, manifest, seen, image>>
past == <<published, released, parked, stale, forced, failures>>
vars == <<up, changes, published, released, pc, force, debian, manifest, seen,
          image, parked, stale, forced, failures>>

\* Every part of a manifest is something upstream has offered.
Offered(m) ==
    /\ \E f \in InReleases : m.debian = DebianRecord(f)
    /\ \E a \in Assets : m.armbian = a.armbian /\ m.base = a.digest
    /\ m.kernelVersion = PinnedKernel.version /\ m.builder \in Builders

Last == IF published = <<>> THEN NoManifest ELSE published[Len(published)]

\* The jobs after detect, in their order, and those up to one of them.
Jobs == {"build", "validate", "publish"}
UpTo(job) == CASE job = "build"    -> {"build"}
               [] job = "validate" -> {"build", "validate"}
               [] job = "publish"  -> Jobs

TypeOK ==
    /\ up \in Upstreams /\ changes \in 0..MaxChanges
    /\ \A i \in DOMAIN published : published[i] = OldRelease \/ Offered(published[i])
    /\ pc \in {"none", "debian", "resolve", "compare"} \cup Jobs
    /\ force \in BOOLEAN /\ stale \in BOOLEAN
    /\ (pc \in {"resolve", "compare"}) => debian \in {DebianRecord(f) : f \in InReleases}
    /\ (pc = "compare" \/ pc \in Jobs) => Offered(manifest)
    /\ pc \in {"validate", "publish"} => image \in {ImageOf(manifest)} \cup WrongImages(manifest)
    /\ seen \in 0..Len(published)
    /\ \A p \in parked : Offered(p.manifest) /\ p.seen \in 0..Len(published) /\ p.at \in Jobs
    /\ forced \in 0..MaxForced /\ failures \in 0..MaxFailures

Init ==
    /\ up = FirstUpstream /\ changes = 0
    /\ published = (IF OldRelease = NoManifest THEN <<>> ELSE <<OldRelease>>)
    /\ released = Garbage /\ image = Garbage
    /\ pc = "none" /\ force = FALSE /\ debian = NoManifest /\ manifest = NoManifest
    /\ seen = 0 /\ parked = {} /\ stale = FALSE /\ forced = 0 /\ failures = 0

-----------------------------------------------------------------------------
(* Upstream: a mirror may also serve an older state again.                 *)

UpstreamMoves ==
    /\ changes < MaxChanges /\ changes' = changes + 1
    /\ \/ \E f \in InReleases  : up' = [up EXCEPT !.inrelease = f]
       \/ \E b \in BaseLists   : up' = [up EXCEPT !.base = b]
       \/ \E l \in KernelLists : up' = [up EXCEPT !.kernel = l]
       \/ \E c \in Builders    : up' = [up EXCEPT !.builder = c]
    /\ up' # up
    /\ UNCHANGED <<run, past>>

-----------------------------------------------------------------------------
(* A run.                                                                  *)

Idle == /\ pc' = "none" /\ force' = FALSE /\ debian' = NoManifest
        /\ manifest' = NoManifest /\ seen' = 0 /\ image' = Garbage

Scheduled ==
    /\ pc = "none" /\ pc' = "debian" /\ force' = FALSE
    /\ UNCHANGED <<up, changes, debian, manifest, seen, image, past>>

Dispatched ==
    /\ pc = "none" /\ forced < MaxForced /\ forced' = forced + 1
    /\ pc' = "debian" /\ force' = TRUE
    /\ UNCHANGED <<up, changes, debian, manifest, seen, image, published, released,
                   parked, stale, failures>>

\* mutant: a failed download goes on with what was read before.
ReadDebianGoesOn ==
    /\ pc = "debian" /\ pc' = "resolve"
    /\ debian' = IF InReleaseAccepted(up.inrelease) THEN DebianRecord(up.inrelease) ELSE debian
    /\ UNCHANGED <<up, changes, force, manifest, seen, image, past>>
\* verify-debian-stable.sh
ReadDebian ==
    /\ pc = "debian"
    /\ IF InReleaseAccepted(up.inrelease)
       THEN pc' = "resolve" /\ debian' = DebianRecord(up.inrelease)
              /\ UNCHANGED <<force, manifest, seen, image>>
       ELSE Idle
    /\ UNCHANGED <<up, changes, past>>

\* resolve-sources.mjs
Resolve ==
    /\ pc = "resolve"
    /\ IF Manifests(debian, up) # {}
       THEN \E m \in Manifests(debian, up) :
              pc' = "compare" /\ manifest' = m /\ UNCHANGED <<force, debian, seen, image>>
       ELSE Idle
    /\ UNCHANGED <<up, changes, past>>

\* The newest public release is read and compared.
Compare ==
    /\ pc = "compare"
    /\ IF Rollback(manifest, Last) \/ ~Changed(manifest, Last, force) THEN Idle
       ELSE /\ pc' = "build" /\ seen' = Len(published) /\ debian' = NoManifest
            /\ UNCHANGED <<force, manifest, image>>
    /\ UNCHANGED <<up, changes, past>>

\* A run that has passed the comparison can be run again, from the job that
\* failed or an earlier one; an image that has been refused would be refused again.
Park(files) ==
    /\ parked' = parked \cup {[manifest |-> manifest, seen |-> seen, image |-> files, at |-> pc]}
    /\ Idle

\* What goes wrong is counted.
WentWrong == failures < MaxFailures /\ failures' = failures + 1
AsStored(files, got) ==
    \/ got = files /\ failures' = failures
    \/ got \in Damaged(files) /\ WentWrong

Build ==
    /\ pc = "build" /\ pc' = "validate"
    /\ \/ image' = ImageOf(manifest) /\ failures' = failures
       \/ image' \in WrongImages(manifest) /\ WentWrong
    /\ UNCHANGED <<up, changes, force, debian, manifest, seen, published, released,
                   parked, stale, forced>>

\* The received image is examined, its evidence collected, and the result
\* checked as the candidate it will be stored as.
Validate ==
    /\ pc = "validate"
    /\ LET stored == Built(manifest, image)
       IN  \E got \in {stored} \cup Damaged(stored) :
             /\ AsStored(stored, got)
             /\ IF /\ ImageAccepted(got, manifest)
                   /\ CandidateValid(Candidate(got.manifest, got.image), manifest)
                THEN pc' = "publish" /\ UNCHANGED <<force, debian, manifest, seen, image, parked>>
                ELSE Park(IF got = stored THEN Garbage ELSE image)
    /\ UNCHANGED <<up, changes, published, released, stale, forced>>

\* The received candidate is checked again and published.
Publish ==
    /\ pc = "publish"
    /\ LET stored == Candidate(manifest, image)
       IN  \E got \in {stored} \cup Damaged(stored) :
             /\ AsStored(stored, got)
             /\ IF CandidateValid(got, manifest)
                THEN /\ published' = Append(published, got.manifest) /\ released' = got
                     /\ stale' = (stale \/ seen # Len(published))
                     /\ Idle /\ UNCHANGED parked
                ELSE Park(image) /\ UNCHANGED <<published, released, stale>>
    /\ UNCHANGED <<up, changes, forced>>

\* A step fails: requests used up their retries (fetchJson), a tool or the
\* service broke.
Fail ==
    /\ pc # "none" /\ WentWrong
    /\ IF pc \in Jobs THEN Park(image) ELSE Idle /\ UNCHANGED parked
    /\ UNCHANGED <<up, changes, published, released, stale, forced>>

\* "Re-run failed jobs" of an earlier run, or one of its jobs and those after
\* it, but not detect.  When its artifacts have expired this simply never happens.
Resume ==
    /\ pc = "none"
    /\ \E p \in parked : \E job \in UpTo(p.at) :
         /\ parked' = parked \ {p}
         /\ pc' = job /\ manifest' = p.manifest /\ seen' = p.seen
         /\ job # "build" => p.image # Garbage
         /\ image' = IF job = "build" THEN Garbage ELSE p.image
    /\ UNCHANGED <<force, debian>>
    /\ UNCHANGED <<up, changes, published, released, stale, forced, failures>>

RunStep == ReadDebian \/ Resolve \/ Compare \/ Build \/ Validate \/ Publish

Next == UpstreamMoves \/ Scheduled \/ Dispatched \/ RunStep \/ Fail \/ Resume

Spec == Init /\ [][Next]_vars /\ WF_vars(Scheduled) /\ WF_vars(RunStep)

-----------------------------------------------------------------------------
(* Properties.                                                             *)

NotOlder(new, old) ==
    /\ ~VersionLess(new.armbian, old.armbian)
    /\ ~VersionLess(new.kernelVersion, old.kernelVersion)
    /\ ~VersionLess(new.debian.major, old.debian.major)
    /\ old.schema >= 3 => /\ ~VersionLess(new.debian.version, old.debian.version)
                          /\ new.debian.date >= old.debian.date

\* Unless the failed jobs of a run are resumed after another run has published,
\* no release goes back behind any release before it, in Armbian, Debian or
\* kernel: each run compares with one predecessor only, over a mirror that may
\* serve an old state, forced runs and a release of schema 2 included.
NeverRollsBack ==
    ~stale => \A j \in DOMAIN published : \A i \in 1..(j - 1) :
                 NotOlder(published[j], published[i])

\* Whatever upstream publishes beside it or in its place, releases are built
\* with the kernel the project has tested, byte for byte (docs/frozen-inputs.md).
KernelFrozen ==
    \A i \in DOMAIN published :
        published[i] # OldRelease => published[i].kernelDigest = PinnedKernel.digest

\* Whatever a build gets wrong or a transfer damages, and whichever jobs are run
\* again: the release consists of files about one image, that image carries the
\* fingerprint of the released manifest, and its device tree and U-Boot are the
\* ones built again from the manifest's sources.  The publish job never opens the
\* image: this rests on what the validate job found in another copy of it.
PublishedIsBound ==
    released # Garbage =>
        /\ released.manifest = Last /\ released.image = ImageOf(Last)
        /\ released.sums = released.image /\ released.report.image = released.image
        /\ \A f \in EvidenceFiles : released[f] = EvidenceOf(Last, ImageOf(Last))[f]

\* Once upstream has come to rest and runs no longer fail, the newest release is
\* what upstream offers, unless it offers nothing usable or something older.
Offer == IF InReleaseAccepted(up.inrelease)
         THEN Manifests(DebianRecord(up.inrelease), up) ELSE {}
Settled == Offer = {} \/ \E m \in Offer : m = Last \/ Rollback(m, Last)
ChangesArrive == <>[]Settled
=============================================================================
