---------------------------- MODULE AndroidSparse ---------------------------
(***************************************************************************)
(* The Android sparse format as src/src/android-sparse.mjs reads it.  A     *)
(* file is [blocks, count, chunks]: the two totals of its header and the   *)
(* chunks that are there, which a cut-off file has fewer of than it says.  *)
(* A raw chunk carries blocks, a "dont_care" chunk only their number; what *)
(* the storage holds there is left as it is.  FILL and CRC32 chunks are    *)
(* never written.  A block is a number, 0 if all its bytes are zero; the   *)
(* first block of an ext4 file system holds its superblock.                *)
(***************************************************************************)
EXTENDS Integers, SequencesExt

CONSTANT UuidOf    \* blocks that hold an ext4 superblock |-> its UUID (not 0)

ASSUME SparseAssumption == DOMAIN UuidOf \subseteq Nat \ {0} /\ 0 \notin Range(UuidOf)

Raw(blocks) == [type |-> "raw", data |-> blocks]
DontCare(n) == [type |-> "dont_care", data |-> [i \in 1..n |-> 0]]

\* The blocks of all chunks, one by one, and how many there are.
Cells(chunks) == UNION {{i} \X DOMAIN chunks[i].data : i \in DOMAIN chunks}
Blocks(chunks) == Cardinality(Cells(chunks))

\* How many blocks lie before chunk i.
Start(chunks, i) == Cardinality({cell \in Cells(chunks) : cell[1] < i})

\* inspectSparseImage: the chunks are as many as the header says, end with the
\* file and cover its blocks.
Accepts(file) ==
    /\ file.blocks > 0 /\ file.count > 0
    /\ Len(file.chunks) = file.count
    /\ Blocks(file.chunks) = file.blocks

\* readSparseExt4Uuid, 0 when it throws: the chunk with the superblock is raw.
\* It reads no further than that chunk.
Uuid(file) ==
    LET first == file.chunks[1] IN
    IF file.count > 0 /\ file.chunks # <<>> /\ first.type = "raw"
         /\ first.data[1] \in DOMAIN UuidOf
    THEN UuidOf[first.data[1]] ELSE 0

\* The raw chunks with block k of the storage.
WritersOf(chunks, k) ==
    {i \in DOMAIN chunks : chunks[i].type = "raw" /\ k - Start(chunks, i) \in DOMAIN chunks[i].data}

\* What storage that held before contains once the file has been written to it.
Burned(file, before) ==
    [k \in DOMAIN before |->
        IF WritersOf(file.chunks, k) = {} THEN before[k]
        ELSE LET i == CHOOSE i \in WritersOf(file.chunks, k) : TRUE
             IN  file.chunks[i].data[k - Start(file.chunks, i)]]
=============================================================================
