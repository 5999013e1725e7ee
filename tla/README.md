# TLA+ models of the B860AV1.1-T Armbian builder

This directory holds TLA+ specifications of the parts of this repository whose
correctness depends on the order in which things happen, the TLC configurations
that check them, and TLAPS proofs of their safety properties. Paths below
are relative to the repository root.

| file | what it is |
| --- | --- |
| `EncoderLease.tla` | abstract specification: one encoder, leased to one stream |
| `HcodecM2M.tla` | `tools/hcodec-mod/meson_hcodec.c`: handles, queues, lease, jobs, drains |
| `MCHcodecM2M.tla`, `HcodecM2M_two.cfg`, `HcodecM2M_drain.cfg`, `HcodecM2M_stoprace.cfg` | its instances for TLC |
| `HcodecM2M_proofs.tla` | its theorems |
| `HcodecEncode.tla` | the same file: what `hc_work` computes for a picture, and a decoder |
| `HcodecEncode.cfg`, `HcodecEncode_pps.cfg`, `HcodecEncode_tries.cfg` | its instances for TLC |
| `HcodecEncode_proofs.tla` | its theorems |
| `PublishedRelease.tla` | abstract specification: what readers see under a release tag |
| `ReleasePolicy.tla` | `src/change-detection.mjs`: which releases are valid, as operators |
| `GithubPublish.tla` | the publish job of `.github/workflows/weekly-build.yml` |
| `MCGithubPublish.tla`, `GithubPublish.cfg`, `GithubPublish_proofs.tla` | its instance and its theorems |
| `CnbRelease.tla` | `src/cnb-release.mjs` under the weekly job and the migration |
| `MCCnbRelease.tla`, `CnbRelease.cfg`, `CnbRelease_proofs.tla` | its instance and its theorems |
| `ChangeDetection.tla` | what detect decides: Debian, base image, kernel, rollback, change |
| `CandidateArtifacts.tla` | what the jobs hand over, and `validateCandidateArtifacts` |
| `WeeklyBuild.tla` | the weekly workflow over months |
| `MCWeeklyBuild.tla`, `WeeklyBuild.cfg`, `WeeklyBuild_proofs.tla` | its instance and its theorems |
| `RootfsSync.tla` | `scripts/sync-rootfs-tree.mjs` and debugfs |
| `RootfsSync_proofs.tla` | theorems about `RootfsSync` (section 10) |
| `MCRootfsSync.tla`, `RootfsSync.cfg`, `RootfsSync_promise.cfg` | its instances |
| `AndroidSparse.tla` | the sparse format: reader, limits, what ends up on the eMMC |
| `BurnPackage.tla` | `scripts/burn-image.mjs` and the three boot chains |
| `MCBurnPackage.tla`, `BurnPackage.cfg`, `BurnPackage_proofs.tla` | its instance and its theorems |
| `PROJECT.json` | components, runs, mutants, hazards, findings, and the source lines of each definition |

A definition marked `mutant:` belongs to no specification. It is a plausible bug
in the definition that follows it, kept to show that the properties notice it.

    tlc -workers 2 -config HcodecM2M_two.cfg MCHcodecM2M.tla
    tlapm HcodecM2M_proofs.tla

## 1. The system

The repository builds Armbian images for a set-top box (Amlogic S905L, GXL). It
consists of a kernel module, a build and release pipeline, and the tools that
lay out images.

| component | state it keeps | operations | interacts with | what is hard | what makes it correct |
| --- | --- | --- | --- | --- | --- |
| **meson_hcodec, streams** (`meson_hcodec.c:790-1845`) | per file handle: queues, drain flags, geometry, `hw_ready`; global: `hc_streamer`, `hc_lock`, the job queue, the hardware | open, S_FMT, REQBUFS, QBUF, STREAMON, STREAMOFF, close, ENCODER_CMD; `hc_device_run`, `hc_work` | v4l2-mem2mem and vb2 call it back; `hc_work` calls the encode half | ioctls interleave with `hc_work`, which takes no lock; STREAMOFF and close sleep with the lock; a drain ends in four places | one stream at a time, on hardware set up for it; no lost lease; exactly one LAST per drain; waiting calls return |
| **meson_hcodec, encode** (`:314-715`, `:895-1096`, `:1530-1573`) | `force_idr`, `since_idr`, `cur_qp`; `hc_hdr`, `hc_hdr_qp`, `hc_qp_floor`, picture counters | `hc_work`, `hc_headers`, `hc_frame`, `hc_rate`, `hc_s_ctrl` | driven by the stream half; controls race with it | ucode hangs and is retried; three copies of the QP must agree; a failed picture leaves half of the state moved | what goes out can be decoded: QP, PPS and reference agree; retries end |
| meson_hcodec, module init/exit, selftest, power (`:105-400`, `:739-788`, `:1808-1972`) | powered, running, what has been registered | insmod, rmmod, selftest | hardware registers | an error half-way must be undone | teardown undoes exactly what was done |
| GitHub weekly workflow (`.github/workflows/weekly-build.yml`) | artifacts of the run; the release: draft or public, its assets | detect, build, validate, publish, keepalive; re-run of failed jobs | change detection; the GitHub release API; artifact store; the device evidence job | calls that fail after they took effect, digests that show late, crash and re-run of one job, damaged artifacts | only a complete, validated release is public; it is about one image; a change upstream arrives |
| CNB release client and migration (`src/cnb-release.mjs`, `scripts/migrate-github-releases.mjs`) | the CNB release, drafts, upload tokens | get or create, patch, delete and upload an asset, confirm, verify, publish | CNB API; `scripts/cnb-*.sh`; audit | the old asset is deleted before the new one is there; a retry brings other files under the same tag | a finished run leaves a whole release that the audit accepts; a repeated one changes nothing |
| Change detection (`src/change-detection.mjs`) | none (pure) | `compareFingerprints`, `validatePublishedState`, `validateReleaseAssets`, `validateDraftReleaseForPublication` | detect and publish | a long sequence of releases, over a mirror that moves back | never goes back to an older Debian, Armbian or kernel |
| Source resolution (`src/upstream.mjs`, `src/debian-release.mjs`, `scripts/resolve-sources.mjs`) | none | fetch with 5 attempts, choose, fingerprint | GitHub API, Debian mirrors | assets replaced in place, withdrawn, half published | the newest usable base image, the tested kernel byte for byte |
| Candidate check (`scripts/validate-candidate-artifacts.mjs`) | the directory `out` | one check, at the end of validate and at the start of publish | artifact store | evidence and image come from different jobs | everything published is about the image that was examined |
| Rootfs synchronisation (`scripts/sync-rootfs-tree.mjs`) | a command file for debugfs; the ext4 image | compare two trees, sort, write commands, run debugfs | debugfs | order of deletions, changes of type; commands that fail | afterwards the image holds the wanted tree |
| Sparse and burn images (`src/android-sparse.mjs`, `scripts/burn-image.mjs`, `src/burn-dtb-roles.mjs`) | the files of a package directory | encode, make boot, replace the device tree, check | burn scripts, Amlogic burn tool | chunk boundaries; files of an earlier build; cut-off copies | what is burned is the root file system; what is accepted starts |
| Boot chains (`src/emmc-boot-chain.mjs`, `src/ophub-boot-chain.mjs`, …) | sector 0 and BL2 digest of the boot loader | embed an MBR, reseal BL2, validate | boot ROM, U-Boot | a crash between the two writes | a package that would not start is refused |
| Device evidence (`src/device-evidence.mjs`) | none | schema validation | verify workflow | – | field by field |
| Image build scripts, `tools/hcenc` | files | sequential | external tools | – | – |

The complete list of what can go wrong, each at its line, is under `hazards` in
`PROJECT.json`.

## 2. How the modules fit together

    EncoderLease <= HcodecM2M          (refinement)      HcodecEncode
    PublishedRelease <= GithubPublish  (refinement)
    ReleasePolicy  -> GithubPublish, CnbRelease          (EXTENDS)
    ChangeDetection -> CandidateArtifacts -> WeeklyBuild (EXTENDS)
    AndroidSparse  -> BurnPackage                        (EXTENDS)
    RootfsSync

`WeeklyBuild` is the outer protocol: which build is made when, and from what.
Its action `Publish` is one step; inside that step runs `GithubPublish`, which
implements `PublishedRelease`, so that seen from `WeeklyBuild` the publish job
publishes everything or nothing. `CnbRelease` is the same task on the second
service, with another protocol. `HcodecM2M` treats the encoding of a picture as
one step and `HcodecEncode` is what happens in it. `RootfsSync` and `BurnPackage`
are what the burn scripts do with the image afterwards.

What could still be added: the half-way errors of `hc_init`.

## 3. HcodecM2M: streams, lease, jobs, drains

**State.** One variable per piece of state of the driver or of the kernel core it
relies on: `fileState`, `geom` (`ctx->width/height`, which determine `sizeimage`
and `bs_size`), `hwReady`, `streamer` (`hc_streamer`), `hw` (what the encoder was
last programmed with), `bufSize` and `queue` (vb2), `streaming`, `draining`,
`nextLast`, `stopped`, `lastSrc` (the fields `is_draining`, `next_buf_last`,
`has_stopped`, `last_src_buf` of `v4l2_m2m_ctx`), `seqno`, `queued`, `curr`
(`job_queue`, `curr_ctx`), `pc` (where `hc_work` is) and `lock` (`hc_lock`, when an
ioctl sleeps with it). `lastCount` is a history variable.

**Atomicity.** `hc_vdev.lock` and both vb2 queues use `hc_lock` (`:1293`, `:1759`), so
an ioctl is one action. STREAMOFF and close wait inside `v4l2_m2m_cancel_job` and
`flush_workqueue` with the lock held (vb2's `wait_prepare` is used by DQBUF
only), so each is two actions, `…Begin` and `…Finish`. `hc_work` takes no lock
(comment `:995-998`); it has three steps, `WorkBegin`, `WorkTail`, `WorkFinish`, which
interleave with every ioctl. The window between the drain check (`:1121`) and the
hand-over of the buffers (`:1126`) is the state `pc = "checked"`.

**External.** v4l2-mem2mem and videobuf2 are not in the repository. The model has
what the driver uses, as in Linux 5.10, the version its comments name: when a job
is scheduled (`JobReady`), how STOP and START and STREAMOFF move the drain flags,
when vb2 hands over queued buffers, which calls return -EBUSY. A buffer handed
back to the application is in no queue; DQBUF only reads it and is left out.

**Encoding a picture** is one step here; what it computes is `HcodecEncode`.

**Abstract specification.** `EncoderLease` says what the driver promises about
the encoder: program it, begin, end, drop; only the owner begins, and only on
hardware programmed for it. `HcodecM2M` implements it under
`owner <- streamer, programmed <- hw.ctx, encoding <- curr`.

### Properties

| property | says | goes wrong when |
| --- | --- | --- |
| `JobOnOwnHardware` | a picture is encoded only by the lease holder, with `hw_ready`, on hardware set up for its own stream and present geometry | the gate, `hw_ready` or the -EBUSY of S_FMT has a hole |
| `LeaseNotLeaked` | a lease holder has a streaming queue | a way out of streaming forgets the lease |
| `WorkNeverStarves` | the early exit of `hc_work` ("must not happen") does not happen | a job survives STREAMOFF |
| `StoppedIsQuiet` | nothing is scheduled or encoded after LAST, before START | the core's and the driver's flags disagree |
| `LastExactlyOnce` | one LAST per drain, on any of its four ways | two ways both mark it, or a flag survives |
| `DrainHasEnding` | a drain in progress always has somebody left to end it | see the finding in section 11 |
| `SequenceRestarts` | frame numbers only restart at STREAMON(OUTPUT) or close | the second STREAMON resets them |
| `ImplementsLease` | refinement of `EncoderLease` | |
| `WaitingIoctlReturns` | STREAMOFF and close return | `hc_work` needs the lock |
| `DrainEnds` | a drain under way ends, or the application stops streaming | `hc_buf_queue` or `hc_work` leaves it to the core |

### Runs and bounds

* `hcodec_two`: two handles, one buffer per queue, one geometry, with symmetry
  over the handles (no liveness is checked there): 507,610 states. Two handles are
  what the gate is about, and one buffer suffices for every race between a job and
  an ioctl. `MaxSeq = 0` hides the sequence counter.
* `hcodec_drain`: one handle, two buffers, so that a drain can wait behind an
  earlier picture, two geometries, so that hardware can be stale, and sequence
  numbers up to 2: 257,494 states. It runs under `FairSpec` and sets
  `StopMayRaceTail = FALSE`, which takes out the one window of the finding below,
  so that everything else about drains is still checked. `hcodec_two` keeps the
  window.
* `hcodec_stoprace`: the same with the window; `DrainHasEnding` is violated.

Deadlock checking is on in all of them: an application can always make a call.

**Fairness.** `KernelFairness`: the workqueue runs queued work and a sleeping
ioctl is woken, as the kernel's scheduler does (`WF` on the job's steps and on the
second halves of STREAMOFF and close). `CaptureFairness`: for `DrainEnds` only, an
application in a drain keeps queueing CAPTURE buffers, as every V4L2 client does;
without it nothing can be said, since the driver has no buffer to flag. Nothing
obliges an application to make any other call. `DrainUnderWay` leaves out one
situation: after ENC_CMD_START the core schedules nothing, so pictures that were
queued while the stream was stopped wait for the next QBUF or STREAMON.

## 4. HcodecEncode: what a picture becomes

**State.** The controls; `forceIdr`, `curQp`, `sinceIdr` of the context; the globals
`hdrQp` (`hc_hdr_qp`), `qpFloor` (`hc_qp_floor`), `frameNum`; the locals `idr`, `q`, `retries`
of `hc_work` with its `pc`; and a decoder: the PPS it was last given, the last
`frame_num`, whether its reference picture is the encoder's. `hangs`, `lost`, `asked`
are history. The lease makes one stream enough: the globals are only touched by
its holder, and every new holder goes through `hc_hw_setup`.

**Actions** follow `hc_work` line by line: read the IDR decision (`WorkRead`), clear
`force_idr` (`WorkClear`, a separate step because S_CTRL can come in between), no
mapping, choose QP, headers, frame, retry, raise, result. STREAMON stands for the
STREAMON that sets the hardware up together with the second one, since no job can
run between them. `hc_rate` keeps its guards and its one step; the byte arithmetic
that selects up, down or nothing is a free choice. Hangs and errors may happen at
every command.

| property | says |
| --- | --- |
| `QuantIsHeaderQp` | the quantiser always runs at the QP of the cached headers (comment `:1028-1034`) |
| `FloorHolds` | a QP given up after timeouts is not tried again before the hardware is set up anew |
| `OnlyLossGarbles` | the decoder shows every picture it gets right unless an IDR failed or an encoded picture was dropped; the next IDR repairs everything |
| `KeyFrameStaysDue` | a requested key frame is due until a picture takes it up, which is then an IDR to its end; two ways to lose a request are left, see below |
| `WorkEnds` | `hc_work` ends however the ucode hangs (STREAMOFF waits for it) |

`asked` follows every request by the time it comes at, not by what the code makes of it:
`open` before the read of `force_idr` (or after the clear of the picture before), `late`
between the read and the clear, `taken` once `hc_work` has it in hand. `KeyFrameStaysDue`
claims the flag for the first two and an IDR for the third. What it leaves over are the two
ways in which the code loses a request: the clear at `:1018` wipes out a `late` one when the
picture is a P picture (`wiped`, reachable in this run), and an IDR that fails or does not
fit has used its request up. Both are in section 11.

`hcodec_encode` (1,124,776 states) uses a QP scale 1..3 with step 1, drift 2, gap 2,
two tries, GOP 0 or 2 and a `frame_num` modulus of 3: small enough that floor,
top QP, drift and wrap-around all occur within a few pictures. The values of
MIN_QP are 1 and 3 and those of MAX_QP 2 and 3, so MIN_QP above MAX_QP happens
too, as the controls allow. The theorems hold for every choice of values.
`WF_vars(WorkStep)` says that the kernel goes on with a work item it has begun.

## 5. GithubPublish: the publish job

**State.** `exists`, `release`, `orphans`: what the service holds under the tag
(the release `gh` addresses, and drafts behind it that a repeated create left);
`pc`, `attempt`, `k`, `accepted`: the job (its loops, `asset_paths`,
`release_create_accepted`); `runs`, `healthy`, `evidence` around it.

**Actions** are the `gh` calls, one each, together with the shell's decision on
the answer: `Withdraw` and `ViewDraft` (`draft_release_ready`), `Create`, `ViewAsset`
(`remote_asset_matches`), `Upload`, `Verify`, `Publish`, `Confirm`
(`published_release_ready`). A call may fail before or after it took effect;
`Upload` (delete, then upload) may stop anywhere and leave an asset cut off,
damaged, in state `starter` or not at all; `Crash` ends the job between two calls;
`Rerun` starts it again with the same files; the digest of an asset shows some
time after its upload (`DigestReady`). `CheckEvidence` and `AttachEvidence` are the
second writer, `verify-device.yml`, which looks at a release and attaches a file
to it later. What `Verify` demands is `DraftValid` of `ReleasePolicy`, the
translation of `validateDraftReleaseForPublication` with everything it calls.

**Abstract specification.** `PublishedRelease`: readers find nothing or a whole
release, a job that reports success has published, and only a later run may take
the release back for a while. The refinement maps `visible` to the state of the
release (`"broken"`, which `PublishedRelease` never allows, when it is public and
not whole) and `reported` to `pc = "done"`.

| property | says | goes wrong when |
| --- | --- | --- |
| `Implements` | refinement of `PublishedRelease` | anything is public before the verification, or is touched after it |
| `UploadsHidden` | the job compares, replaces and verifies assets only in a draft | a re-run trusts its ignored `edit --draft` |
| `NextDetectAccepts` | what is public, evidence included, is accepted by the next detect | the list of names detect allows lags behind what jobs attach |
| `RerunRecovers` | whatever earlier runs left, a run without faults publishes | a state of the release no branch leads out of |

`publish_github`: three files (one the report does not vouch for, one it does,
the image), three tries instead of five, three runs, one abandoned draft. Every
loop has a first, a middle and a last attempt; three runs give one that fails,
one that fails on what it left, and one that recovers. `WF_vars(JobStep)`: a job
that runs takes its next step; the workflow has a timeout for the rest.
`WF_vars(DigestReady)`: the service computes the digest in the end. `Rerun` is not
fair: re-running is a person's decision. A `healthy` run is one in which no call
fails and all digests are there when it starts; nothing obliges a run to be
healthy, `RerunRecovers` speaks of those that are.

## 6. CnbRelease: publication and migration on CNB

**State.** `exists`, `release`: the service; `view`: the release object the script
read last, which it goes on using; `kind`, `pc`, `k`, `bundle`, `forced`: the running job;
`used`, `right`, `healthy`, `newest`, `runs` around it. Each run of the weekly job brings
a *bundle* of files of its own, because `cnb-run-identity.mjs` gives every retry
of a build the same tag; the bytes of a file are the number of its bundle.

**Actions** are the requests, each with the code that follows it: `Detect`
(the audit of `cnb-release-audit.mjs`, then the comparison), `Get`, `Create`,
`Patch`, `DeletePrefixed`, `Skip`, `DeleteStale`, `Upload` (the token, the upload and
the confirmation: nothing shows before the last), `Check`, `Finish`, `Latest`. This
client does not retry: a request that fails ends the job (`Then`, `Stop`).

| property | says | goes wrong when |
| --- | --- | --- |
| `ExposesWhole` | `publishRelease` turns a draft public only with every file of the job in it | an asset of an earlier bundle is taken for the present one |
| `DoneIsWhole` | a finished run leaves exactly its files and its notes | size is compared without digest; one name is skipped |
| `DoneIsAuditable` | the audit that opens the next run accepts what a finished run left | a loop ends one file early |
| `Idempotent` | a run over what is already right changes nothing | something is deleted and uploaded again |
| `RunRecovers` | from whatever was left, a run without faults finishes | drafts are not found |

`publish_cnb`: both kinds of job, three runs, three bundles, the third with an
image of another name (124,064 states). Two bundles are needed to mix, the third
for the changed name. `WF_vars(JobStep)`: a running script goes on.

## 7. WeeklyBuild, ChangeDetection, CandidateArtifacts: the weekly workflow

**State.** `up`: what the upstream projects serve; `published` and `released`: the
manifests of all releases and the files of the newest; `pc`, `force`, `debian`,
`manifest`, `seen`, `image`: the active run (the concurrency group allows one);
`parked`: failed runs whose artifacts are still kept. `stale` is history.

**Actions.** `UpstreamMoves` changes one thing upstream, forwards or back;
`Scheduled`, `Dispatched` (with `force`); the steps of detect: `ReadDebian`
(`verify-debian-stable.sh`), `Resolve` (`resolve-sources.mjs`), `Compare`; then the
jobs `Build`, `Validate`, `Publish`; `Fail`, and `Resume` for "re-run failed jobs".
`ChangeDetection` has the decisions as operators: `InReleaseAccepted`, `BaseFound`
and `BestBase`, `KernelFound`, `Rollback`, `Changed`. `CandidateArtifacts` has the
directory that goes from job to job, `ImageAccepted` (what the validate job finds
out about the image by building its device tree and U-Boot again) and
`CandidateValid`. A build may leave a component of the base image in place, and a
transfer may damage any one file.

| property | says | goes wrong when |
| --- | --- | --- |
| `NeverRollsBack` | no release is behind *any* earlier one in Armbian, Debian or kernel | a rule compares too little: each run sees one predecessor only |
| `KernelFrozen` | every release carries the tested kernel | a kernel replaced under its name is taken |
| `PublishedIsBound` | a release is about one image, with the fingerprint of its manifest inside and the boot files built again from its sources | a job believes the report instead of comparing; publish itself never opens the image |
| `ChangesArrive` | when upstream rests and faults end, the newest release is what upstream offers | a change is not a change for `Changed`, or a refused run is not followed by another |

`NeverRollsBack` excludes histories with `stale`: section 11.

`weekly` (78,136 states) starts after a release of schema 2, the oldest the code
still compares with, with Debian 13.1 upstream. Upstream serves four InRelease
files (one with a bad signature, one of the old codename), four lists of base
images (newer, digest missing, draft, withdrawn for one codename), three of
kernels (the tested one; replaced in place beside a newer one; withdrawn), two
builders. Two changes, one forced run and one fault: a rollback needs a step
forward and one back, and each fault is caught by the check after it or not at
all. `WF_vars(Scheduled)` is the cron trigger; `WF_vars(RunStep)` says that a run that
has begun comes to its next step or (through `Fail`, at most `MaxFailures` times)
to its end.

## 8. RootfsSync: an ext4 image without mounting it

**State.** The trees `before` and `after` as functions from paths to nodes, the tree
in the `image`, the operations still `todo` and the commands of the one being done.
`Operations`, `Phases`, `Earlier` are `diffRootfsTrees` and its sort keys; where a key
leaves two operations in either order, so does the model. `Execute` is what
debugfs does with a command that applies or does not; `NoSpace` one that ends
half-way; `Plan` includes what `collectTree` refuses in either tree, a command file that
cannot be written and a debugfs that does not start (`refused`). `Break` is the throw at
`:295` (`result.error`, a status other than 0, a line the filter finds): after any part of
the commands, also all of them, and possibly inside one (`CutOff`: a file with part of
its bytes, an inode with part of mode, uid and gid). It needs an operation, since without
one debugfs is not run.

`EveryCommandApplies`: the order of phases and keys never lets a command meet a
missing parent, a path still taken, a directory not yet empty.
`SyncedOrHalfway`: a call that returns leaves the wanted tree in every path and its
metadata; a refused one leaves the image alone; one that throws after debugfs began
leaves a tree in which every path is as before, as wanted, removed for its replacement,
or made without its mode and owner, so a path that is not to change is never touched, as
the build plan demands (`docs/superpowers/plans/2026-09-07-cnb-loopless-burn-build.md:120`).
All three except at and below a path the space, or debugfs itself, ended at.

`rootfs_sync` (111,571 states) checks all pairs of trees over five paths in three
levels with three kinds of nodes, two contents and two sets of metadata: every
change of kind at every level, with and without children, on both sides.
`rootfs_promise` is a finding (section 11).

## 9. BurnPackage and AndroidSparse: what is burned

**State.** The files of the package directory: `rootfs` and `tree` of the present
build, `data` (the sparse file) with the `source` it was made from and its `writer`,
`loader` (its partition table and the one its BL2 digest was computed over),
`boot`, `slot`; and the last `verdict`.

**Actions** are the commands of `burn-image.mjs`, in any order, over files of this
build or of one before (`Rebuild`): the writer block by block (`SparseOpen`,
`SparseBlock`, `SparseClose`), `EmbedDosMbr`/`EmbedRootfsMbr` and `Reseal` as two
writes, `MakeFat`, `MakeBoot`, `ReplaceTree`; `CutData` is a copy that breaks off,
`Interrupt` a command that does; `Check` is the validator of the layout (`EmmcValid`,
`OphubValid`, `VendorValid`).

`SparseFaithful`: a finished file is accepted and unpacks to its source on an
erased eMMC, for every pattern of holes and at the limit of a raw chunk; a cut-off
one is refused. `AcceptedBoots`: a package the checks accept has a loader the boot
ROM runs, the whole root file system where the table says, a command line for
the file system that is there and agreeing device trees. The vendor layout is exempt from
one of these: its check reads only the UUID of the data file, so a package whose data file
is cut off is accepted (section 11).

`burn` (133,188 states): all root file systems of up to five blocks, two blocks
per raw chunk (500 in the code), room for four, two later builds, two trees. A
chunk can be empty, full and one over; a file system can fit and not.

## 10. Proofs

All proofs are for arbitrary constants under the named assumptions of each module
(`ConstantsOK`, `CnbAssumption`, `BuildAssumption`, `WeeklyAssumption`, …), which TLC evaluates in every run;
none of the results is assumed.

**HcodecM2M_proofs.** `JobOnOwnHardware` is not inductive: that a job's hardware
is right when it *starts* depends on what was true while it was waiting. The
invariant `IInv` adds
* `LockInv`: while an ioctl of `c` sleeps with the lock, no job of `c` is scheduled;
* `StreamInv`: a streaming queue belongs to an open handle and has buffers (so
  S_FMT gets -EBUSY on both queues of a stream that runs);
* `LeaseInv`: who streams both queues holds the lease and has `hw_ready`;
* `ReadyInv`: `hw_ready` tells the truth about the hardware, and only the lease
  holder has it;
* `JobInv`: a scheduled or running job's context streams both queues and has a
  buffer in each;
* `WaitInv`: a drain that waits for a CAPTURE buffer (`next_buf_last`) has none at the
  driver, so that the next one queued is the one to flag. Without it a second
  buffer could be flagged, or a stopped stream could still be scheduled.

Every action preserves each part (one lemma per part, one step per action).
Theorems: `TypeCorrect`, `OwnHardware`, `NoLeak`, `NoStarvedWork`, `Quiet`
(`StoppedIsQuiet`), `OneLast` (`LastExactlyOnce`), `NumbersGoOn` (`SequenceRestarts`);
`DrainsHaveEnding` (`DrainHasEnding`), which has `~StopMayRaceTail` as a hypothesis
because the race of section 11 refutes it, and carries `EndInv`: the last picture
of a drain is queued where `hc_work` will still look at it; and
`Implementation`: `Spec => ImplementsLease`, by mapping each action to an action of
`EncoderLease` or a stutter; a STREAMOFF that drops the lease is a `Drop` because
`JobInv` and the wait for the workqueue leave no job running.

**HcodecEncode_proofs.** `IInv` adds `QpInv` (when an attempt begins, the picture is
IDR or its QP is the headers') and `KeyInv` (the first picture of a stream is IDR from its
decision on; a request is `late` only between the read and the clear, and none is `open`
there, so the clear never wipes out one that came before the read). `OnlyLossGarbles` compares what the decoder has
with what the encoder assumes; `InStep` says between which steps they agree: as
long as nothing was lost since the last IDR, the decoder has the encoder's reference,
its PPS (unless headers have just been made for an IDR still to come) and its `frame_num`,
one or two numbers behind. `Following` says "the next number" without a modulo, which
the provers handle badly. Theorems: `TypeCorrect`, `SliceQp`, `Floor`, `KeyFrame`, `OnlyLoss`.

**GithubPublish_proofs.** For every list of files, manifest, report and bound.
`UploadsHidden` is inductive together with the types; that the public sees only
whole releases is not, because nothing is checked at the moment of publication.
`IInv` adds
* `Final => Settled`: from the end of the verification on, and as long as the
  release is public, the release is valid for this report, whole, and all its
  digests are shown (so a late `DigestReady` cannot touch it);
* `NoProofYet`: until the evidence job uploads, its name is free, so that its file
  replaces nothing;
* `pc = "done"` only over a public release.

`ValidDraftSettled` gets `Settled` out of `DraftValid`; the lemmas `FlagsIrrelevant` and
`ProofAdded` say that neither the draft flag nor an evidence file changes what
`ReleaseAssetsValid` finds. Theorems: `TypeCorrect`, `Hidden`, `Accepted`, and
`Refines`: `Spec => Implements`, where `Publish` is the abstract `Publish`, a `Withdraw` on
a public release the abstract one, `Confirm` is `Succeed`, a `Rerun` after success is
`StartOver`, and everything else a stutter since `Visible` is a function of `Public`.

**CnbRelease_proofs.** For every number of files, bundles and runs. The job checks
one file at a time and never the whole, so the invariant follows its loop. `IInv`
adds
* `Placed`: which release the job works on, with whose notes, and whether what
  `publishRelease` believes of its draft flag is true;
* `PassedGood`: the files the loop has passed are in the release, byte for byte and
  with their digest;
* `ViewHolds`: what the job believes of the files still to come is true, since
  nobody but the job removes an asset. This is what lets it skip a file it saw.

Replacing a file disturbs no file passed before because no two files of a bundle
have the same name; `CnbAssumption` says so. `Idempotent` needs one more invariant,
`Calm`: a run that found the release finished, whole and with its notes, has only
steps that change nothing. `DoneIsAuditable` needs what the release does *not* hold:
`Tidy` (one asset per name, and no name that a run for this tag did not bring); with
`BuildAssumption`, what `cnb-weekly-raw-build.sh:120-142` puts into a bundle, only one image is left.
Theorems: `TypeCorrect`, `JobLeavesWhole` (`DoneIsWhole`), `DraftsComeOutWhole`
(`ExposesWhole`), `RepeatingChangesNothing` (`Idempotent`), `AuditAcceptsDone` (`DoneIsAuditable`).

**WeeklyBuild_proofs.** For all InRelease files, base images, kernels, builders,
runs and faults. `NeverRollsBack` speaks of all pairs of releases and each run
compares with one predecessor. Two things connect them. The order is transitive:
`LessAt` and `LeastNat` give two different versions a first part in which they
differ, and `NotLessTransitive` follows (without it, comparing with the newest only
would be wrong). And the comparison of detect still counts when the job publishes:
`Compared` says that a manifest under way or parked that was compared with the newest release is
no rollback of it. `ResolvableFacts` are what every manifest that can be resolved
has in common, among them the tested kernel, which gives `KernelFrozen`.
`PublishedIsBound` is carried by `AcceptedImage` (what validate found out is true of
the image) and `ValidCandidate` (what publish compares ties the files to that
image). The assumptions are what `validateManifest` (`src/upstream.mjs:150-262`)
demands of a manifest: versions are numbers and dots, a schema from 3 on has the
signed Debian record whose major is the first part of its version. Theorems:
`TypeCorrect`, `ReleasesNeverRollBack`, `ReleasesKeepTheKernel`, `ReleasesAreBound`.

**RootfsSync_proofs.** For any two trees, of any depth and with any names, and any
number of commands that run out of space, wherever debugfs stops. `TreesAssumption` is what `collectTree` can
return: every ancestor of a path is a directory of the tree, and a directory has
no bytes. `SyncedOrHalfway` is not inductive, since the image is neither tree while
debugfs runs. `IInv` adds
* `Right` for every path: as in `before` while an operation on it is pending or its
  removal is next, absent while its creation is next, with its old owner or debugfs's
  default (`Unowned`) while its metadata are next, and as in `after` when nothing is left
  to do on it; a call that throws stops in such a state (`RightPlaces`);
* `Stage`: the commands left are the rest of one operation, and no pending operation
  had to come before it.

`OneOperation` and `NoOperation` say that a path has at most one operation, and none only
when both trees agree on it. The sort keys enter in two lemmas: `ParentFirst` (what makes a
directory comes before what goes into it) and `ChildFirst` (what empties a directory
comes before what removes it); `CommandApplies` follows from them and `Right`. Theorems:
`TypeCorrect` (whatever fails, the image stays a tree), `OrderApplies`
(`EveryCommandApplies`), `Synchronises` (`SyncedOrHalfway`).

**BurnPackage_proofs.** For every root file system, raw limit, room and number of
rebuilds. `AndroidSparse` counts the blocks of a file as a cardinality (of `Cells`, all
pairs of a chunk and an index in it) and not as a sum: what appending a chunk does
then follows from facts about finite sets, without an induction over the chunks, of
which there can be any number. `AppendChunk` says that a new chunk starts where the
blocks before it end; `AppendHolds` that a file that holds the first `n` blocks of a
root holds the first `n + m` after a chunk with the next `m`; `HeldIsBurned` that a file
that holds all of them unpacks to them on an erased eMMC. `SparseFaithful` speaks of
finished files only and is not inductive. `IInv` adds
* `Writing`: what the writer has read is in its chunks (`Kept`), and after them in the
  run of raw or of zero blocks it is collecting, of which one is always empty;
* `Finished`: a file with a header is of the size of its source, has at most as many
  chunks as its header says, and holds its source if it has that many (so a cut-off
  one is known by its chunks being fewer);
* `Checked`: a verdict is about the files as they are, since every command that
  changes one of them withdraws it.

Theorems: `TypeCorrect`, `WritesFaithfully` (`SparseFaithful`), `AcceptedStarts`
(`AcceptedBoots`), and its other side, `WellMadeAccepted`: the checks refuse no package
of the three layouts that was made in one go and fits. A check that refused everything
would satisfy the first three.

With this every safety and action property of a passing run is a theorem.

**The safety behind the liveness properties.** TLAPS proves nothing about fairness or
ENABLED here, so `WaitingIoctlReturns`, `DrainEnds`, `WorkEnds`, `RerunRecovers`,
`RunRecovers` and `ChangesArrive` are **only model-checked**. What the code contributes to
each is proved, for all constants, as an action property over a measure; what is left to
TLC is that fair steps of a decreasing measure come to their end.

| liveness | theorem | measure or statement |
| --- | --- | --- |
| `WorkEnds` | `WorkIsBounded` | `WorkLeft`, at most `2 * (QpTop + Tries) + 5`: every step of `hc_work` lowers it and no control raises it |
| `WaitingIoctlReturns` | `WaitIsBounded` | `JobsLeft`: while an ioctl sleeps nothing but the steps of jobs happens, each lowers it, and at 0 the ioctl can go on |
| `DrainEnds` | `DrainsCountDown` | `LastAt(c, i)`, the place of the drain's last picture in OUTPUT: a job moves it from `i` to `i - 1` or, at 1, marks LAST and stops |
| `RerunRecovers` | `RunsAreBounded`, `HealthyRunsSucceed` (GithubPublish) | `CallsLeft`; an undisturbed run has no step to `failed` |
| `RunRecovers` | `RunsAreBounded`, `HealthyRunsSucceed` (CnbRelease) | `StepsLeft`; a healthy run has no step to `failed` after the audit |
| `ChangesArrive` | `UndisturbedRunsSettle` | `Rank`, from 6: a run that ends with nothing having gone wrong leaves `Settled` |

`WaitIsBounded` counts one stream's pictures only, since by `LeaseInv` and `JobInv` no other
stream has a job; a job that ends may schedule its stream's next one, also while an
ioctl sleeps, so it counts four steps for each picture in OUTPUT. `DrainsCountDown` needs
`Distinct` (no buffer is twice in a queue; vb2 refuses that), which says which of the
queued pictures is the last one. `HealthyRunsSucceed` of the GitHub job has the hypothesis
`WellBuilt`: the candidate passes `DraftValid` once its files are in a draft. The job
establishes this itself, with `validate-candidate-artifacts.mjs`, before its first call,
and TLC's instance is one that satisfies it. It carries `Mending`, what an undisturbed run
makes of any release it finds: one asset of each name, and the files passed are stored
as they should be. `UndisturbedRunsSettle` uses `GarbageAssumption`: a damaged file is not
by chance a good one.

Two more theorems are about what these rest on. `JobUndisturbed`: nothing an ioctl of
any handle does reaches a job between its start and its end, although `hc_work` takes no
lock; the lease, the hardware and the geometry stay, and the buffers it peeked at are
the ones it takes. `VersionOrder`: `compareVersions` is a strict weak order on versions of
any length, which `NeverRollsBack` and the choice of the newest base image rely on.

## 11. What the models found

* **A STOP in the tail of a job has no end** (`hcodec_stoprace`). ENC_CMD_STOP
  between `:1121` and `:1126` records a picture that has already passed the check.
  If no other picture follows, no buffer is ever flagged LAST: the hang which the
  comment at `:1114-1120` describes, left in one window.
* **A failed IDR leaves its PPS behind** (`encode_pps`). `hc_headers` sets
  `hc_hdr_qp` before the IDR is delivered. When the IDR then fails (`:1069`, `:1086`),
  the next P picture is quantised at a QP the decoder was not told, which is what
  `tests/hcodec-encoder.test.mjs:10-14` says must not be.
* **The floor rises on one timeout** (`encode_tries`). `retries` is not reset at a
  raise (`:1074-1081`), so "retry 3 times" holds for the first raise of a picture only.
* Not a run: `docs/hcodec-encoder-plan.md:273` and the comment at `:791-793` say that the second
  `open()` returns -EBUSY. The code, and the comment at `:1224-1227`, put the gate at
  STREAMON; the model follows the code.
* **debugfs fails in silence** (`rootfs_promise`). `debugfs -f` exits with 0 after
  failed commands and begins its messages with the name of the command; the
  filter at `scripts/sync-rootfs-tree.mjs:288-294` looks for `debugfs:`. A file that
  ran out of space is reported as synchronised. The build plan and a test promise
  the opposite; the test replaces debugfs by a script that prints the prefix.

Observed while modelling, without a run:

* A FORCE_KEY_FRAME that comes between `:1016` and `:1018` of `meson_hcodec.c` while
  `hc_work` starts a P picture is wiped out, and with GOP_SIZE 0, which the comment at
  `:1036` says WebRTC uses, no IDR need follow. A request whose IDR fails (no mapping,
  -ENOSPC, an ucode error) is not repeated either, since `force_idr` is already clear;
  only the first IDR of a stream is (`since_idr` is still 0). Nothing in the repository
  says that a request is never lost, so no run refutes anything here
  (`KeyFrameStaysDue`, section 4).
* A debugfs that is killed or exceeds the output limit of `spawnSync` leaves an image between
  the two trees and no record of where. `build-burn-payloads.sh:93` works on a copy in its
  temporary directory and ends with the error, so the image is thrown away.
* A publish job that is re-run on a release with device evidence turns it back
  into a draft and then always fails, because `validateExpectedAssets` wants
  exactly the local files: the release stays withdrawn (`RerunRecovers` excludes it).
* Re-running the failed jobs of an old run publishes its manifest over a newer
  release, since only detect compares (`stale` in `WeeklyBuild`).
* A create that failed after it took effect is repeated; the first draft stays
  (`orphans` in `GithubPublish`).
* On CNB, a retry whose image has another name leaves two images in the release,
  and the audit then refuses it in every later weekly run (`DoneIsAuditable` excludes
  it). A forced retry on a public release that dies leaves it half replaced.
* `migrateRelease` creates its releases public and fills them afterwards;
  `ExposesWhole` is about `publishRelease` only.
* The rollback check compares the Armbian version of the base image, not its
  kernel.
* The evidence files of `verify-device.yml` are uploaded by one command that refuses
  existing names: an upload that stops half-way cannot be completed by a re-run.
* The sparse file is right only on an erased eMMC, since its holes are not written.
  `board-inputs/aml_sdc_burn.ini:13` sets `erase_flash = 0`; `docs/burn-image.md:175` and
  `:253` therefore ask the user to tick the erase option of the burn tool. The
  vendor layout reads only the UUID of its data file, so a cut-off one is accepted there.
* After a crash between the table and the seal (`emmc-boot-chain.mjs:168`), embedding
  again refuses; `reseal-bl2` or a fresh copy of the loader recovers. The check
  refuses the state in between, which `AcceptedBoots` covers.

## 12. What is not modelled

* meson_hcodec: DQBUF, EXPBUF, poll and mmap (they change nothing the properties
  read); event queues and the lifetime of a `v4l2_fh`; TRY_FMT, S_PARM, colorimetry;
  the bytes of the stream; CREATE_BUFS of other sizes than the present format;
  power-on, ucode loading, module init and exit. S_FMT(CAPTURE) looks at the
  CAPTURE queue only (`:1458`) and can leave OUTPUT buffers smaller than the
  picture; the model lets that happen and no property speaks of it.
* Releases: answers of the GitHub API older than a call that has returned
  (beyond late digests); release notes and tags; the formats `validateManifest`
  checks field by field; the pages and retries of `fetchJson` (one failing step);
  the job keepalive and the CNB heartbeat, which only renew a file.
* Candidate: the RTL8189FS, hardware-capability and QEMU console evidence is bound
  in the same way as the evidence that is modelled and is left out;
  `scan-mounted-image.mjs` scans a mounted tree for names and is left out; RELEASE.md
  is bound by nothing.
* Images: hard links, extended attributes and special files, which `collectTree`
  refuses or ignores; FAT and ext4 themselves, also the bitmaps and counts a killed debugfs
  may leave inconsistent (a removal is one step, whole or not at all); FIP parsing and evidence of the ophub
  chain; the header of the Android boot image; the direct and mainline boot
  contracts and `burn-standalone-dtb.mjs`, which compare text with constants.
* Device evidence, the shell scripts around external tools and `tools/hcenc`, for
  the reasons `PROJECT.json` gives.
