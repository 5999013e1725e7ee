----------------------------- MODULE BurnPackage ----------------------------
(***************************************************************************)
(* The package directory a burn image is made from, in the three layouts   *)
(* of the project: "emmc" (scripts/build-burn-image.sh: FAT16 boot and     *)
(* ext4 root in an MBR inside the boot loader), "ophub" (one root          *)
(* partition) and "vendor" (stock boot loader, Android boot image).  The   *)
(* commands of scripts/burn-image.mjs work on its files one by one, in any *)
(* order, over files of this build or of one before it, and any of them    *)
(* may be interrupted; then the chain is checked.                          *)
(*                                                                         *)
(* The boot loader is [mbr, sealed]: the entries in its sector 0 and the   *)
(* entries the digest stored in BL2 was computed over.  The boot ROM runs  *)
(* it only if they agree.                                                  *)
(***************************************************************************)
EXTENDS AndroidSparse

CONSTANTS
    Layouts,      \* of this instance
    FirstRoots,   \* rootfs.ext4 of the first build, sequences of blocks
    LaterRoots,   \* and of builds after it
    Trees,        \* device trees, numbers from 1
    RawLimit,     \* blocks per raw chunk (500 in the code)
    BootLength,   \* length of the boot partition
    Room          \* blocks from the start of the data partition to the margin

ASSUME PackageAssumption ==
    /\ Layouts \subseteq {"emmc", "ophub", "vendor"}
    /\ \A root \in FirstRoots \cup LaterRoots :
           root \in Seq(Nat) /\ root # <<>> /\ root[1] \in DOMAIN UuidOf
    /\ Trees \subseteq Nat \ {0}
    /\ {RawLimit, BootLength, Room} \subseteq Nat \ {0}

VARIABLES
    layout,
    rootfs, tree,    \* rootfs.ext4 and linux.dtb of the present build
    data,            \* data.PARTITION
    source,          \* the root file system data was made from
    writer,          \* makeSparse: [open, pos, raw, zeros]
    loader,          \* bootloader.PARTITION
    embedding,       \* an embed command has written the MBR and not yet resealed
    boot,            \* boot.PARTITION: [kind, uuid, tree]
    slot,            \* device tree in the gxl_p211_1g slot of meson1.dtb, 0: Android's
    verdict          \* of the last check, "none" once a file has changed

build   == <<layout, rootfs, tree>>
sparse  == <<data, source, writer>>
loading == <<loader, embedding>>
vars == <<layout, rootfs, tree, data, source, writer, loader, embedding, boot, slot, verdict>>

NoData == [blocks |-> 0, count |-> 0, chunks |-> <<>>]
NoBoot == [kind |-> "none", uuid |-> 0, tree |-> 0]
Idle   == [open |-> FALSE, pos |-> 1, raw |-> <<>>, zeros |-> 0]
Stock  == [mbr |-> <<>>, sealed |-> <<>>]

\* writePartition: an MBR entry.
Entry(type, start, length, bootable) ==
    [type |-> type, start |-> start, length |-> length, bootable |-> bootable]

TypeOK ==
    /\ layout \in Layouts /\ rootfs \in FirstRoots \cup LaterRoots /\ tree \in Trees
    /\ data.blocks \in Nat /\ data.count \in Nat
    /\ \A i \in DOMAIN data.chunks : Len(data.chunks[i].data) \in 1..
          (IF data.chunks[i].type = "raw" THEN RawLimit ELSE data.blocks)
    /\ source \in FirstRoots \cup LaterRoots
    /\ writer.open \in BOOLEAN /\ writer.pos \in 1..(Len(source) + 1)
    /\ Len(writer.raw) < RawLimit /\ (writer.zeros = 0 \/ writer.raw = <<>>)
    /\ \A t \in {loader.mbr, loader.sealed} :
          Len(t) <= 2 /\ \A e \in Range(t) : e.length \in Nat /\ (e.bootable => Len(t) = 1)
    /\ embedding \in BOOLEAN
    /\ boot \in {NoBoot} \cup [kind : {"fat", "android"}, uuid : Range(UuidOf), tree : Trees]
    /\ slot \in Trees \cup {0}
    /\ verdict \in {"none", "accepted", "refused"}

Init ==
    /\ layout \in Layouts /\ rootfs \in FirstRoots /\ tree \in Trees
    /\ data = NoData /\ source = rootfs /\ writer = Idle
    /\ loader = Stock /\ embedding = FALSE
    /\ boot = NoBoot /\ slot = 0 /\ verdict = "none"

-----------------------------------------------------------------------------
(* The next build over the same directory: scripts/build-burn-payloads.sh. *)

Rebuild ==
    /\ ~writer.open /\ rootfs' \in LaterRoots /\ tree' \in Trees
    /\ UNCHANGED <<layout, sparse, loading, boot, slot, verdict>>

-----------------------------------------------------------------------------
(* makeSparse.  The number of chunks is put in the header at the very end. *)

SparseOpen ==
    /\ ~writer.open
    /\ data' = [NoData EXCEPT !.blocks = Len(rootfs)]
    /\ source' = rootfs /\ writer' = [Idle EXCEPT !.open = TRUE]
    /\ verdict' = "none"
    /\ UNCHANGED <<build, loading, boot, slot>>

WithRaw(chunks)   == IF writer.raw = <<>> THEN chunks ELSE Append(chunks, Raw(writer.raw))
WithZeros(chunks) == IF writer.zeros = 0 THEN chunks ELSE Append(chunks, DontCare(writer.zeros))

\* mutant: a raw chunk is closed one block too late.
RawFullLate(blocks) == Len(blocks) > RawLimit
RawFull(blocks) == Len(blocks) >= RawLimit

\* The writer after a block, with the run it is collecting.
Collecting(raw, zeros) == [open |-> TRUE, pos |-> writer.pos + 1, raw |-> raw, zeros |-> zeros]

SparseBlock ==
    /\ writer.open /\ writer.pos <= Len(source)
    /\ LET block == source[writer.pos]
           raw == Append(writer.raw, block)
       IN  \/ /\ block = 0
              /\ data' = [data EXCEPT !.chunks = WithRaw(@)]
              /\ writer' = Collecting(<<>>, writer.zeros + 1)
           \/ /\ block # 0 /\ RawFull(raw)
              /\ data' = [data EXCEPT !.chunks = Append(WithZeros(@), Raw(raw))]
              /\ writer' = Collecting(<<>>, 0)
           \/ /\ block # 0 /\ ~RawFull(raw)
              /\ data' = [data EXCEPT !.chunks = WithZeros(@)]
              /\ writer' = Collecting(raw, 0)
    /\ UNCHANGED <<build, source, loading, boot, slot, verdict>>

Close(chunks) ==
    /\ writer.open /\ writer.pos > Len(source)
    /\ data' = [blocks |-> data.blocks, count |-> Len(chunks), chunks |-> chunks]
    /\ writer' = Idle
    /\ UNCHANGED <<build, source, loading, boot, slot, verdict>>
\* mutant: the hole at the end of the image is not written.
SparseCloseRawOnly == Close(WithRaw(data.chunks))
SparseClose == Close(WithZeros(WithRaw(data.chunks)))

\* A copy of the finished file breaks off: cp, or ampack unpack.
CutData ==
    /\ ~writer.open
    /\ \E n \in 0..(Len(data.chunks) - 1) : data' = [data EXCEPT !.chunks = SubSeq(@, 1, n)]
    /\ verdict' = "none"
    /\ UNCHANGED <<build, source, writer, loading, boot, slot>>

-----------------------------------------------------------------------------
(* bootloader.PARTITION: the stock one, or one built from it with another  *)
(* BL33; then embedDosMbr or embedRootfsMbr, which write sector 0 and      *)
(* after that the digest.                                                  *)

CopyLoader ==
    /\ loader' = Stock /\ embedding' = FALSE /\ verdict' = "none"
    /\ UNCHANGED <<build, sparse, boot, slot>>

\* They refuse a sector 0 whose table area is in use.
WriteMbr(entries) ==
    /\ loader.mbr = <<>>
    /\ loader' = [loader EXCEPT !.mbr = entries]
    /\ embedding' = TRUE /\ verdict' = "none"
    /\ UNCHANGED <<build, sparse, boot, slot>>

EmbedDosMbr ==
    /\ layout = "emmc"
    /\ WriteMbr(<<Entry("fat16", "boot", BootLength, FALSE),
                  Entry("linux", "data", Len(rootfs), FALSE)>>)

EmbedRootfsMbr ==
    layout = "ophub" /\ WriteMbr(<<Entry("linux", "data", Len(rootfs), TRUE)>>)

\* The end of the embed command, or reseal-bl2 by itself.
Reseal ==
    /\ loader' = [loader EXCEPT !.sealed = loader.mbr]
    /\ embedding' = FALSE /\ verdict' = "none"
    /\ UNCHANGED <<build, sparse, boot, slot>>

-----------------------------------------------------------------------------
(* boot.PARTITION and meson1.dtb.                                          *)

Boot(kind, uuid) ==
    /\ boot' = [kind |-> kind, uuid |-> uuid, tree |-> tree] /\ verdict' = "none"
    /\ UNCHANGED <<build, sparse, loading, slot>>

\* FAT16 with extlinux.conf.
MakeFat == layout = "emmc" /\ Boot("fat", UuidOf[rootfs[1]])

\* makeBoot, with a command line for the file system found in data.PARTITION.
MakeBoot ==
    /\ layout = "vendor" /\ ~writer.open /\ Uuid(data) # 0
    /\ Boot("android", Uuid(data))

\* replaceLinuxTargetDtb
ReplaceTree ==
    /\ layout = "vendor" /\ slot' = tree /\ verdict' = "none"
    /\ UNCHANGED <<build, sparse, loading, boot>>

Interrupt ==
    /\ writer.open \/ embedding
    /\ writer' = Idle /\ embedding' = FALSE
    /\ UNCHANGED <<build, data, source, loader, boot, slot, verdict>>

-----------------------------------------------------------------------------
(* The checks before packing and after unpacking.                          *)

Sealed == loader.sealed = loader.mbr      \* verifyBl2Seal
Fits == Accepts(data) /\ data.blocks <= Room   \* validateSparseCapacity

\* inspectDosMbr and inspectRootfsMbr.
DosMbr == Len(loader.mbr) = 2 /\ loader.mbr[1].type = "fat16" /\ loader.mbr[2].type = "linux"
RootfsMbr ==
    /\ Len(loader.mbr) = 1
    /\ loader.mbr[1].type = "linux" /\ loader.mbr[1].bootable /\ loader.mbr[1].start = "data"

\* inspectFatBootImage and the files copied out of it.
FatBoot == boot.kind = "fat"

\* root=UUID= in extlinux.conf (parseExtlinuxConfig).
ConfiguredRoot == boot.uuid

\* mutant: the seal of BL2 is not checked.
EmmcValidUnsealed ==
    /\ DosMbr /\ Fits /\ FatBoot
    /\ loader.mbr[2].length = data.blocks /\ ConfiguredRoot = Uuid(data)
EmmcValid ==
    /\ DosMbr
    /\ Sealed
    /\ Fits /\ Uuid(data) # 0
    /\ loader.mbr[1].start = "boot" /\ loader.mbr[2].start = "data"
    /\ FatBoot /\ loader.mbr[1].length = BootLength
    /\ loader.mbr[2].length = data.blocks
    /\ ConfiguredRoot = Uuid(data)

\* The seal is checked on the BL2 stage taken out of the file just before.
OphubValid ==
    /\ RootfsMbr
    /\ Fits /\ Uuid(data) # 0
    /\ loader.mbr[1].length = data.blocks
    /\ Sealed

\* The device tree in the Android boot image (extractBootSecond), and the slot
\* of meson1.dtb that has to be the same (validateBurnDtbRoles).
SecondTree == IF boot.kind = "android" THEN boot.tree ELSE 0
DtbRoles == SecondTree # 0 /\ slot = SecondTree

\* The stock loader byte for byte, the device trees, and the command line for
\* the file system in data.
VendorValid ==
    /\ loader = Stock
    /\ DtbRoles
    /\ Uuid(data) # 0 /\ boot.uuid = Uuid(data)

Check ==
    /\ ~writer.open /\ ~embedding
    /\ verdict' = IF \/ layout = "emmc" /\ EmmcValid
                     \/ layout = "ophub" /\ OphubValid
                     \/ layout = "vendor" /\ VendorValid
                  THEN "accepted" ELSE "refused"
    /\ UNCHANGED <<build, sparse, loading, boot, slot>>

Next == \/ Rebuild \/ SparseOpen \/ SparseBlock \/ SparseClose \/ CutData
        \/ CopyLoader \/ EmbedDosMbr \/ EmbedRootfsMbr \/ Reseal
        \/ MakeFat \/ MakeBoot \/ ReplaceTree \/ Interrupt \/ Check

Spec == Init /\ [][Next]_vars

-----------------------------------------------------------------------------
(* Properties.                                                             *)

Erased == [i \in 1..data.blocks |-> 0]
Cut == Len(data.chunks) < data.count

\* makeSparse and the reader agree on every pattern of zero and other blocks
\* and on runs at the limit of a chunk: a finished file is accepted and puts the
\* whole root file system on an erased device; a file whose writer or copy was
\* interrupted is refused.
SparseFaithful ==
    IF data.count > 0 /\ ~Cut
    THEN Accepts(data) /\ Burned(data, Erased) = source /\ Uuid(data) = UuidOf[source[1]]
    ELSE ~Accepts(data)

\* Whatever commands, interruptions and files of an earlier build led to it, a
\* package the checks accept starts: the boot ROM runs the loader, the table
\* has the root file system at its place and in its full length, the kernel is
\* told the file system that is there and no device tree contradicts another.
\* (The vendor layout reads the UUID only, so its data file has to be whole.)
AcceptedBoots ==
    verdict = "accepted" /\ (layout = "vendor" => ~Cut) =>
        /\ Sealed
        /\ Burned(data, Erased) = source
        /\ layout # "vendor" =>
              /\ \E e \in Range(loader.mbr) :
                    e.type = "linux" /\ e.start = "data" /\ e.length = Len(source)
              /\ Len(source) <= Room
        /\ layout # "ophub" => boot.uuid = UuidOf[source[1]]
        /\ layout = "vendor" => slot = boot.tree
=============================================================================
