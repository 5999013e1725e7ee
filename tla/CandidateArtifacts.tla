------------------------- MODULE CandidateArtifacts -------------------------
(***************************************************************************)
(* The files handed from job to job in the weekly build: the built image   *)
(* (scripts/build-raw-image.sh), the evidence the validate job collects    *)
(* about it (weekly-build.yml, scripts/validate-raw-image.sh) and the      *)
(* check that binds the candidate together before it is stored and again   *)
(* before it is published (scripts/validate-candidate-artifacts.mjs).      *)
(*                                                                         *)
(* A directory is a record of files; bytes stand for themselves and for    *)
(* their SHA-256.  A manifest stands for its fingerprint, and for what is  *)
(* reproducibly built from the sources it names.  An image is [identity,   *)
(* dtb, uboot]: the fingerprint inside it, and the manifest its device     *)
(* tree and its U-Boot overload come from.  NoManifest stands for bytes    *)
(* nothing can be made of.                                                 *)
(***************************************************************************)
EXTENDS ChangeDetection

Garbage == NoManifest

ImageOf(m) == [identity |-> m, dtb |-> m, uboot |-> m]

\* What a build that goes wrong may produce: a component left over from the
\* base image.
WrongImages(m) == {[ImageOf(m) EXCEPT !.dtb = Garbage], [ImageOf(m) EXCEPT !.uboot = Garbage]}

Built(m, image) == [manifest |-> m, image |-> image]

\* One file of a directory is cut off or damaged on its way.
Damaged(dir) == {[dir EXCEPT ![f] = Garbage] : f \in DOMAIN dir}

-----------------------------------------------------------------------------
(* The validate job.  The device tree and the overload are built again.     *)

IdentityFits(identity, m) == identity = m

ImageAccepted(dir, fingerprint) ==
    /\ dir.manifest = fingerprint
    /\ dir.image # Garbage
    /\ IdentityFits(dir.image.identity, dir.manifest)
    /\ dir.image.dtb = dir.manifest /\ dir.image.uboot = dir.manifest

ExpectedInputs(m) == [builder |-> m.builder, kernel |-> m.kernelVersion]

EvidenceOf(m, image) ==
    [components |-> [dtb |-> image.dtb, uboot |-> image.uboot],
     smoke      |-> [fingerprint |-> m, raw |-> image],
     filesystem |-> image, dtbBuild |-> m, ubootBuild |-> m]
EvidenceFiles == {"components", "smoke", "filesystem", "dtbBuild", "ubootBuild"}

\* SHA256SUMS is written anew from the image the job has received.
Candidate(m, image) ==
    LET evidence == EvidenceOf(m, image)
    IN  [manifest |-> m, image |-> image, sums |-> image, heads |-> ExpectedInputs(m),
         components |-> evidence.components, smoke |-> evidence.smoke,
         filesystem |-> evidence.filesystem,
         dtbBuild |-> evidence.dtbBuild, ubootBuild |-> evidence.ubootBuild,
         report |-> [fingerprint |-> m, image |-> image, evidence |-> evidence]]

-----------------------------------------------------------------------------
(* validateCandidateArtifacts                                              *)

\* readChecksum, and the digest it holds.
SumsFit(dir) == dir.sums # Garbage /\ dir.sums = dir.image

\* validateUbootBuild, and the overload among the boot components.
UbootFits(dir) ==
    dir.ubootBuild = dir.manifest /\ dir.components.uboot = dir.ubootBuild

\* validateDtbBuild, and the device tree among the boot components.
DtbFits(dir) ==
    dir.dtbBuild = dir.manifest /\ dir.components.dtb = dir.dtbBuild

\* validateQemuSystemEvidence
SmokeFits(dir) ==
    dir.smoke.fingerprint = dir.manifest /\ dir.smoke.raw = dir.image

\* mutant: the bindings of the candidate are not checked again.
CandidateBelieved(dir, fingerprint) ==
    /\ dir.report # Garbage /\ dir.report.fingerprint = dir.manifest
    /\ dir.manifest = fingerprint
CandidateValid(dir, fingerprint) ==
    /\ dir.report # Garbage /\ dir.report.fingerprint = dir.manifest
    /\ dir.manifest = fingerprint
    /\ dir.heads = ExpectedInputs(dir.manifest)
    /\ dir.report.image = dir.image /\ SumsFit(dir)
    /\ \A f \in EvidenceFiles : dir[f] = dir.report.evidence[f]
    /\ SmokeFits(dir) /\ DtbFits(dir) /\ UbootFits(dir)
=============================================================================
