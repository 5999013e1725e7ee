------------------------- MODULE BurnPackage_proofs -------------------------
(***************************************************************************)
(* Theorems about AndroidSparse and BurnPackage.  The lemmas of the first  *)
(* part say what appending a chunk does to a sparse file; with them the    *)
(* writer keeps, block by block, the part of the root file system it has   *)
(* read equal to the chunks it has closed and the run it is collecting.    *)
(***************************************************************************)
EXTENDS BurnPackage, FiniteSetTheorems, TLAPS

Chunk ==
    {c \in [type : {"raw", "dont_care"}, data : Seq(Nat)] :
        c.data # <<>> /\ (c.type = "dont_care" => \A j \in DOMAIN c.data : c.data[j] = 0)}

\* The chunks are the first n blocks of root.
Holds(chunks, root, n) ==
    /\ Blocks(chunks) = n
    /\ \A i \in DOMAIN chunks : \A j \in DOMAIN chunks[i].data :
          /\ Start(chunks, i) + j \in 1..n
          /\ chunks[i].data[j] = root[Start(chunks, i) + j]
    /\ \A k \in 1..n : \E i \in DOMAIN chunks : k - Start(chunks, i) \in DOMAIN chunks[i].data

\* No raw chunk is longer than the limit, no other longer than the file.
Sized(chunks, blocks) ==
    \A i \in DOMAIN chunks :
        Len(chunks[i].data) <= (IF chunks[i].type = "raw" THEN RawLimit ELSE blocks)

\* What the writer has made whenever it has closed a run: chunks of the right size that hold root up to block n.
Kept(cs, root, n) ==
    cs \in Seq(Chunk) /\ Sized(cs, Len(root)) /\ Blocks(cs) = n /\ Holds(cs, root, n)

-----------------------------------------------------------------------------
(* The inductive invariant.                                                *)

Roots == FirstRoots \cup LaterRoots

Tables ==
    {t \in Seq([type : {"fat16", "linux"}, start : {"boot", "data"},
                length : Nat, bootable : BOOLEAN]) :
        Len(t) <= 2 /\ \A e \in Range(t) : e.bootable => Len(t) = 1}

Shapes ==
    /\ layout \in Layouts /\ rootfs \in Roots /\ tree \in Trees /\ source \in Roots
    /\ data \in [blocks : Nat, count : Nat, chunks : Seq(Chunk)]
    /\ Sized(data.chunks, data.blocks)
    /\ writer \in [open : BOOLEAN, pos : Nat, raw : Seq(Nat), zeros : Nat]
    /\ loader \in [mbr : Tables, sealed : Tables]
    /\ embedding \in BOOLEAN
    /\ boot \in {NoBoot} \cup [kind : {"fat", "android"}, uuid : Range(UuidOf), tree : Trees]
    /\ slot \in Trees \cup {0}
    /\ verdict \in {"none", "accepted", "refused"}

\* What the writer has read is in its chunks and in the run it is collecting.
Writing ==
    IF writer.open
    THEN /\ data.blocks = Len(source) /\ data.count = 0 /\ verdict = "none"
         /\ writer.pos \in 1..(Len(source) + 1)
         /\ Len(writer.raw) < RawLimit /\ (writer.zeros = 0 \/ writer.raw = <<>>)
         /\ Blocks(data.chunks) + Len(writer.raw) + writer.zeros + 1 = writer.pos
         /\ Kept(data.chunks, source, Blocks(data.chunks))
         /\ \A j \in DOMAIN writer.raw : writer.raw[j] = source[Blocks(data.chunks) + j]
         /\ \A j \in 1..writer.zeros : source[Blocks(data.chunks) + j] = 0
    ELSE writer = Idle

Finished ==
    data.count > 0 =>
        /\ data.blocks = Len(source) /\ Len(data.chunks) <= data.count
        /\ Len(data.chunks) = data.count => Holds(data.chunks, source, Len(source))

\* A verdict is about the files as they are.
Checked ==
    verdict = "accepted" =>
        /\ layout = "emmc" => EmmcValid
        /\ layout = "ophub" => OphubValid
        /\ layout = "vendor" => VendorValid

IInv == Shapes /\ Writing /\ Finished /\ Checked
-----------------------------------------------------------------------------
(* Sparse files.                                                           *)

LEMMA ChunkFacts ==
    ASSUME NEW c \in Chunk
    PROVE  /\ c.type \in {"raw", "dont_care"} /\ c.data \in Seq(Nat)
           /\ Len(c.data) \in Nat \ {0} /\ DOMAIN c.data = 1..Len(c.data)
           /\ c.type = "dont_care" => \A j \in DOMAIN c.data : c.data[j] = 0
<1>1. /\ c.type \in {"raw", "dont_care"} /\ c.data \in Seq(Nat) /\ c.data # <<>>
      /\ c.type = "dont_care" => \A j \in DOMAIN c.data : c.data[j] = 0
  BY DEF Chunk
<1>2. QED  BY <1>1

LEMMA AppendFacts ==
    ASSUME NEW S, NEW s \in Seq(S), NEW c \in S
    PROVE  /\ Append(s, c) \in Seq(S) /\ Len(Append(s, c)) = Len(s) + 1
           /\ DOMAIN s = 1..Len(s) /\ DOMAIN Append(s, c) = 1..(Len(s) + 1)
           /\ \A i \in 1..Len(s) : Append(s, c)[i] = s[i]
           /\ Append(s, c)[Len(s) + 1] = c
OBVIOUS

\* A sparse file has finitely many blocks.
LEMMA CellsFinite ==
    ASSUME NEW cs \in Seq(Chunk)
    PROVE  IsFiniteSet(Cells(cs)) /\ Blocks(cs) \in Nat
<1> DEFINE Row(i) == {i} \X DOMAIN cs[i].data
<1>1. IsFiniteSet(1..Len(cs)) /\ DOMAIN cs = 1..Len(cs)
  BY FS_Interval
<1>2. IsFiniteSet({Row(i) : i \in DOMAIN cs})
  <2> DEFINE f == [i \in DOMAIN cs |-> Row(i)]
             T == {Row(i) : i \in DOMAIN cs}
  <2> HIDE DEF Row
  <2>1. f \in Surjection(DOMAIN cs, T)
    BY DEF Surjection
  <2> HIDE DEF f, T
  <2>2. IsFiniteSet(T)
    BY <2>1, <1>1, FS_Surjection
  <2>3. QED  BY <2>2 DEF T
<1>3. ASSUME NEW i \in DOMAIN cs  PROVE IsFiniteSet(Row(i))
  <2>1. cs[i] \in Chunk
    BY <1>3
  <2>2. IsFiniteSet(DOMAIN cs[i].data)
    BY <2>1, ChunkFacts, FS_Interval
  <2>3. IsFiniteSet({i})
    BY FS_Singleton
  <2>4. QED  BY <2>2, <2>3, FS_Product
<1>4. IsFiniteSet(UNION {Row(i) : i \in DOMAIN cs})
  <2>1. \A T \in {Row(i) : i \in DOMAIN cs} : IsFiniteSet(T)
    BY <1>3
  <2> HIDE DEF Row
  <2>2. QED  BY <1>2, <2>1, FS_UNION
<1>5. QED  BY <1>4, FS_CardinalityType DEF Cells, Blocks

LEMMA StartNat ==
    ASSUME NEW cs \in Seq(Chunk), NEW i \in Nat
    PROVE  Start(cs, i) \in Nat
<1>1. IsFiniteSet({cell \in Cells(cs) : cell[1] < i})
  BY CellsFinite, FS_Subset
<1>2. QED  BY <1>1, FS_CardinalityType DEF Start

\* A file without chunks has no block, and the first chunk starts at the front.
LEMMA NoChunks ==
    Blocks(<<>>) = 0
<1>1. Cells(<<>>) = {}
  BY DEF Cells
<1>2. QED  BY <1>1, FS_EmptySet DEF Blocks

LEMMA FirstStart ==
    ASSUME NEW cs \in Seq(Chunk)
    PROVE  Start(cs, 1) = 0
<1>1. \A cell \in Cells(cs) : ~(cell[1] < 1)
  BY DEF Cells
<1>2. {cell \in Cells(cs) : cell[1] < 1} = {}
  BY <1>1
<1>3. QED  BY <1>2, FS_EmptySet DEF Start

\* A chunk put at the end starts where the file ended, moves no other chunk
\* and adds its own blocks.
LEMMA AppendChunk ==
    ASSUME NEW cs \in Seq(Chunk), NEW c \in Chunk
    PROVE  /\ Blocks(Append(cs, c)) = Blocks(cs) + Len(c.data)
           /\ \A i \in 1..Len(cs) : Start(Append(cs, c), i) = Start(cs, i)
           /\ Start(Append(cs, c), Len(cs) + 1) = Blocks(cs)
<1> DEFINE n == Len(cs) + 1
           ds == Append(cs, c)
           New == {n} \X (1..Len(c.data))
<1>1. /\ ds \in Seq(Chunk) /\ DOMAIN ds = 1..n /\ DOMAIN cs = 1..Len(cs) /\ n \in Nat
      /\ \A i \in 1..Len(cs) : ds[i] = cs[i]
      /\ ds[n] = c
  BY AppendFacts
<1>2. Len(c.data) \in Nat \ {0} /\ DOMAIN c.data = 1..Len(c.data)
  BY ChunkFacts
<1> HIDE DEF ds
<1>3. Cells(ds) = Cells(cs) \cup New
  <2>1. ASSUME NEW x \in Cells(ds)  PROVE x \in Cells(cs) \cup New
    <3>1. PICK i \in DOMAIN ds : x \in {i} \X DOMAIN ds[i].data
      BY DEF Cells
    <3>2. CASE i = n
      BY <3>1, <3>2, <1>1, <1>2
    <3>3. CASE i \in 1..Len(cs)
      <4>1. i \in DOMAIN cs /\ x \in {i} \X DOMAIN cs[i].data
        BY <3>1, <3>3, <1>1
      <4>2. QED  BY <4>1 DEF Cells
    <3>4. QED  BY <3>2, <3>3, <1>1
  <2>2. ASSUME NEW x \in Cells(cs)  PROVE x \in Cells(ds)
    <3>1. PICK i \in DOMAIN cs : x \in {i} \X DOMAIN cs[i].data
      BY DEF Cells
    <3>2. i \in DOMAIN ds /\ x \in {i} \X DOMAIN ds[i].data
      BY <3>1, <1>1
    <3>3. QED  BY <3>2 DEF Cells
  <2>3. ASSUME NEW x \in New  PROVE x \in Cells(ds)
    <3>1. n \in DOMAIN ds /\ x \in {n} \X DOMAIN ds[n].data
      BY <1>1, <1>2
    <3>2. QED  BY <3>1 DEF Cells
  <2>4. QED  BY <2>1, <2>2, <2>3
<1>4. ASSUME NEW x \in Cells(cs)  PROVE x[1] \in 1..Len(cs)
  BY <1>1 DEF Cells
<1>5. ASSUME NEW x \in New  PROVE x[1] = n
  OBVIOUS
<1>6. Blocks(ds) = Blocks(cs) + Len(c.data)
  <2>1. IsFiniteSet(New) /\ Cardinality(New) = Len(c.data)
    <3>1. IsFiniteSet({n}) /\ Cardinality({n}) = 1
      BY FS_Singleton
    <3>2. IsFiniteSet(1..Len(c.data)) /\ Cardinality(1..Len(c.data)) = Len(c.data)
      BY <1>2, FS_Interval
    <3>3. /\ IsFiniteSet({n} \X (1..Len(c.data)))
          /\ Cardinality({n} \X (1..Len(c.data))) = Cardinality({n}) * Cardinality(1..Len(c.data))
      BY <3>1, <3>2, FS_Product
    <3>4. QED  BY <3>1, <3>2, <3>3, <1>2
  <2>2. Cells(cs) \cap New = {}
    BY <1>4, <1>5
  <2>3. IsFiniteSet(Cells(cs)) /\ Cardinality(Cells(cs)) \in Nat
    BY CellsFinite DEF Blocks
  <2> HIDE DEF New
  <2>4. Cardinality(Cells(cs) \cup New) =
            Cardinality(Cells(cs)) + Cardinality(New) - Cardinality({})
    BY <2>1, <2>2, <2>3, FS_Union
  <2>5. QED  BY <2>1, <2>3, <2>4, <1>2, <1>3, FS_EmptySet DEF Blocks
<1>7. ASSUME NEW i \in 1..Len(cs)  PROVE Start(ds, i) = Start(cs, i)
  <2>1. {cell \in Cells(ds) : cell[1] < i} = {cell \in Cells(cs) : cell[1] < i}
    <3>1. ASSUME NEW x \in New  PROVE ~(x[1] < i)
      BY <1>5
    <3> HIDE DEF New
    <3>2. QED  BY <3>1, <1>3
  <2>2. QED  BY <2>1 DEF Start
<1>8. Start(ds, n) = Blocks(cs)
  <2>1. {cell \in Cells(ds) : cell[1] < n} = Cells(cs)
    <3>1. ASSUME NEW x \in New  PROVE ~(x[1] < n)
      BY <1>5
    <3>2. ASSUME NEW x \in Cells(cs)  PROVE x[1] < n
      BY <1>4
    <3> HIDE DEF New
    <3>3. QED  BY <3>1, <3>2, <1>3
  <2>2. QED  BY <2>1 DEF Start, Blocks
<1>9. QED  BY <1>6, <1>7, <1>8 DEF ds

\* A file that holds the first blocks of root and then gets a chunk with the
\* blocks that come next holds these too.
LEMMA AppendHolds ==
    ASSUME NEW cs \in Seq(Chunk), NEW root, NEW c \in Chunk,
           Holds(cs, root, Blocks(cs)),
           \A j \in 1..Len(c.data) : c.data[j] = root[Blocks(cs) + j]
    PROVE  Holds(Append(cs, c), root, Blocks(cs) + Len(c.data))
<1> DEFINE last == Len(cs) + 1
           ds == Append(cs, c)
           n == Blocks(cs)
           m == Len(c.data)
<1>1. /\ ds \in Seq(Chunk) /\ DOMAIN ds = 1..last /\ DOMAIN cs = 1..Len(cs)
      /\ Len(cs) \in Nat /\ \A i \in 1..Len(cs) : ds[i] = cs[i]
      /\ ds[last] = c
  BY AppendFacts
<1>2. m \in Nat \ {0} /\ DOMAIN c.data = 1..m /\ n \in Nat
  BY ChunkFacts, CellsFinite
<1>3. /\ Blocks(ds) = n + m
      /\ \A i \in 1..Len(cs) : Start(ds, i) = Start(cs, i)
      /\ Start(ds, last) = n
  BY AppendChunk
<1> HIDE DEF ds, n, m
<1>4. ASSUME NEW i \in DOMAIN ds, NEW j \in DOMAIN ds[i].data
      PROVE  Start(ds, i) + j \in 1..(n + m) /\ ds[i].data[j] = root[Start(ds, i) + j]
  <2>1. CASE i \in 1..Len(cs)
    <3>1. i \in DOMAIN cs /\ j \in DOMAIN cs[i].data /\ ds[i] = cs[i] /\ Start(ds, i) = Start(cs, i)
      BY <2>1, <1>1, <1>3
    <3>2. Start(cs, i) + j \in 1..n /\ cs[i].data[j] = root[Start(cs, i) + j]
      BY <3>1 DEF Holds, n
    <3>3. QED  BY <3>1, <3>2, <1>2
  <2>2. CASE i = last
    <3>1. ds[i] = c /\ Start(ds, i) = n /\ j \in 1..m
      BY <2>2, <1>1, <1>2, <1>3
    <3>2. c.data[j] = root[n + j]
      BY <3>1 DEF n, m
    <3>3. QED  BY <3>1, <3>2, <1>2
  <2>3. QED  BY <2>1, <2>2, <1>1
<1>5. ASSUME NEW k \in 1..(n + m)
      PROVE  \E i \in DOMAIN ds : k - Start(ds, i) \in DOMAIN ds[i].data
  <2>1. CASE k \in 1..n
    <3>1. PICK i \in DOMAIN cs : k - Start(cs, i) \in DOMAIN cs[i].data
      BY <2>1 DEF Holds, n
    <3>2. i \in DOMAIN ds /\ k - Start(ds, i) \in DOMAIN ds[i].data
      BY <3>1, <1>1, <1>3
    <3>3. QED  BY <3>2
  <2>2. CASE k \notin 1..n
    <3>1. k - n \in 1..m
      BY <2>2, <1>2
    <3>2. last \in DOMAIN ds /\ k - Start(ds, last) \in DOMAIN ds[last].data
      BY <3>1, <1>1, <1>2, <1>3
    <3>3. QED  BY <3>2
  <2>3. QED  BY <2>1, <2>2
<1>6. QED  BY <1>3, <1>4, <1>5 DEF Holds, ds, n, m

LEMMA NothingHeld ==
    ASSUME NEW root
    PROVE  Holds(<<>>, root, Blocks(<<>>))
BY NoChunks DEF Holds

\* A file that holds all of root is accepted by the loader's checks, puts root
\* on erased storage and shows its UUID.
LEMMA HeldIsBurned ==
    ASSUME NEW root \in Roots, NEW count \in Nat \ {0}, NEW cs \in Seq(Chunk), Len(cs) = count,
           Holds(cs, root, Len(root))
    PROVE  LET file == [blocks |-> Len(root), count |-> count, chunks |-> cs]
           IN  /\ Accepts(file)
               /\ Burned(file, [i \in 1..Len(root) |-> 0]) = root
               /\ Uuid(file) = UuidOf[root[1]]
<1> DEFINE file == [blocks |-> Len(root), count |-> count, chunks |-> cs]
           erased == [i \in 1..Len(root) |-> 0]
<1>1. /\ root \in Seq(Nat) /\ Len(root) \in Nat \ {0} /\ DOMAIN root = 1..Len(root)
      /\ root[1] \in DOMAIN UuidOf /\ root[1] # 0
  <2>1. root \in Seq(Nat) /\ root # <<>> /\ root[1] \in DOMAIN UuidOf
    BY PackageAssumption DEF Roots
  <2>2. QED  BY <2>1, SparseAssumption
<1>2. DOMAIN cs = 1..Len(cs)
  OBVIOUS
<1>3. ASSUME NEW i \in DOMAIN cs
      PROVE  /\ Start(cs, i) \in Nat /\ cs[i] \in Chunk
             /\ cs[i].type \in {"raw", "dont_care"} /\ Len(cs[i].data) \in Nat \ {0}
             /\ DOMAIN cs[i].data = 1..Len(cs[i].data)
             /\ cs[i].type = "dont_care" => \A j \in DOMAIN cs[i].data : cs[i].data[j] = 0
             /\ \A j \in DOMAIN cs[i].data : cs[i].data[j] = root[Start(cs, i) + j]
  <2>1. cs[i] \in Chunk /\ i \in Nat
    BY <1>2
  <2>2. \A j \in DOMAIN cs[i].data : cs[i].data[j] = root[Start(cs, i) + j]
    BY DEF Holds
  <2>3. QED  BY <2>1, <2>2, StartNat, ChunkFacts
<1>4. Accepts(file)
  BY <1>1 DEF Accepts, Holds
<1>5. Burned(file, erased) = root
  <2> DEFINE b == Burned(file, erased)
  <2>1. b = [k \in 1..Len(root) |->
               IF WritersOf(cs, k) = {} THEN 0
               ELSE LET i == CHOOSE i \in WritersOf(cs, k) : TRUE
                    IN  cs[i].data[k - Start(cs, i)]]
    BY DEF Burned
  <2>2. ASSUME NEW k \in 1..Len(root)  PROVE b[k] = root[k]
    <3>1. CASE WritersOf(cs, k) = {}
      <4>1. PICK i \in DOMAIN cs : k - Start(cs, i) \in DOMAIN cs[i].data
        BY DEF Holds
      <4>2. cs[i].type = "dont_care"
        BY <3>1, <4>1, <1>3 DEF WritersOf
      <4>3. cs[i].data[k - Start(cs, i)] = 0
        BY <4>1, <4>2, <1>3
      <4>4. cs[i].data[k - Start(cs, i)] = root[Start(cs, i) + (k - Start(cs, i))]
        BY <4>1, <1>3
      <4>5. Start(cs, i) + (k - Start(cs, i)) = k
        BY <4>1, <1>3
      <4>6. QED  BY <2>1, <3>1, <4>3, <4>4, <4>5
    <3>2. CASE WritersOf(cs, k) # {}
      <4>1. PICK i \in WritersOf(cs, k) : b[k] = cs[i].data[k - Start(cs, i)]
        BY <2>1, <3>2
      <4>2. i \in DOMAIN cs /\ k - Start(cs, i) \in DOMAIN cs[i].data
        BY DEF WritersOf
      <4>3. cs[i].data[k - Start(cs, i)] = root[Start(cs, i) + (k - Start(cs, i))]
        BY <4>2, <1>3
      <4>4. Start(cs, i) + (k - Start(cs, i)) = k
        BY <4>2, <1>3
      <4>5. QED  BY <4>1, <4>3, <4>4
    <3>3. QED  BY <3>1, <3>2
  <2>3. DOMAIN b = DOMAIN root /\ b = [k \in DOMAIN b |-> b[k]]
    BY <2>1, <1>1
  <2>4. root = [k \in DOMAIN root |-> root[k]]
    BY <1>1
  <2> HIDE DEF b
  <2>5. b = root
    BY <2>2, <2>3, <2>4, <1>1
  <2>6. QED  BY <2>5 DEF b
<1>6. Uuid(file) = UuidOf[root[1]]
  <2>1. cs # <<>> /\ 1 \in DOMAIN cs
    BY <1>2
  <2>2. Start(cs, 1) = 0
    BY FirstStart
  <2>3. cs[1].data[1] = root[1] /\ 1 \in DOMAIN cs[1].data
    BY <2>1, <2>2, <1>3
  <2>4. cs[1].type = "raw"
    BY <2>1, <2>3, <1>1, <1>3
  <2>5. QED  BY <2>1, <2>3, <2>4, <1>1 DEF Uuid
<1>7. QED  BY <1>4, <1>5, <1>6

-----------------------------------------------------------------------------
(* The writer.                                                             *)

\* What a chunk at the end of the file does to both of its promises.
LEMMA AppendSized ==
    ASSUME NEW cs \in Seq(Chunk), NEW c \in Chunk, NEW blocks, Sized(cs, blocks),
           Len(c.data) <= (IF c.type = "raw" THEN RawLimit ELSE blocks)
    PROVE  Sized(Append(cs, c), blocks)
<1>1. /\ DOMAIN Append(cs, c) = 1..(Len(cs) + 1) /\ DOMAIN cs = 1..Len(cs)
      /\ \A i \in 1..Len(cs) : Append(cs, c)[i] = cs[i]
      /\ Append(cs, c)[Len(cs) + 1] = c
  BY AppendFacts
<1>2. ASSUME NEW i \in DOMAIN Append(cs, c)
      PROVE  Len(Append(cs, c)[i].data) <=
                (IF Append(cs, c)[i].type = "raw" THEN RawLimit ELSE blocks)
  <2>1. CASE i \in DOMAIN cs
    <3>1. Append(cs, c)[i] = cs[i]
      BY <2>1, <1>1
    <3>2. QED  BY <2>1, <3>1 DEF Sized
  <2>2. CASE i \notin DOMAIN cs
    <3>1. i = Len(cs) + 1
      BY <2>2, <1>1
    <3>2. QED  BY <3>1, <1>1
  <2>3. QED  BY <2>1, <2>2
<1>3. QED  BY <1>2 DEF Sized

LEMMA RawIsChunk ==
    ASSUME NEW d \in Seq(Nat), d # <<>>
    PROVE  /\ Raw(d) \in Chunk /\ Raw(d).data = d /\ Raw(d).type = "raw"
BY DEF Raw, Chunk

LEMMA DontCareIsChunk ==
    ASSUME NEW n \in Nat \ {0}
    PROVE  /\ DontCare(n) \in Chunk /\ DontCare(n).type = "dont_care"
           /\ Len(DontCare(n).data) = n /\ \A j \in 1..n : DontCare(n).data[j] = 0
<1> DEFINE d == [i \in 1..n |-> 0]
<1>1. d \in Seq(Nat) /\ Len(d) = n /\ DOMAIN d = 1..n /\ d # <<>> /\ \A j \in 1..n : d[j] = 0
  OBVIOUS
<1> HIDE DEF d
<1>2. DontCare(n) = [type |-> "dont_care", data |-> d]
  BY DEF DontCare, d
<1>3. QED  BY <1>1, <1>2 DEF Chunk

LEMMA KeepRaw ==
    ASSUME NEW cs, NEW root, NEW n, Kept(cs, root, n),
           NEW d \in Seq(Nat), d # <<>>, Len(d) <= RawLimit,
           \A j \in 1..Len(d) : d[j] = root[n + j]
    PROVE  Kept(Append(cs, Raw(d)), root, n + Len(d))
<1>1. cs \in Seq(Chunk) /\ Sized(cs, Len(root)) /\ Blocks(cs) = n /\ Holds(cs, root, Blocks(cs))
  BY DEF Kept
<1>2. Raw(d) \in Chunk /\ Raw(d).data = d /\ Raw(d).type = "raw"
  BY RawIsChunk
<1>3. Append(cs, Raw(d)) \in Seq(Chunk) /\ Sized(Append(cs, Raw(d)), Len(root))
  BY <1>1, <1>2, AppendSized, AppendFacts
<1>4. Blocks(Append(cs, Raw(d))) = n + Len(d)
  BY <1>1, <1>2, AppendChunk
<1>5. Holds(Append(cs, Raw(d)), root, n + Len(d))
  BY <1>1, <1>2, AppendHolds
<1>6. QED  BY <1>3, <1>4, <1>5 DEF Kept

LEMMA KeepZeros ==
    ASSUME NEW cs, NEW root, NEW n, Kept(cs, root, n),
           NEW m \in Nat \ {0}, m <= Len(root),
           \A j \in 1..m : root[n + j] = 0
    PROVE  Kept(Append(cs, DontCare(m)), root, n + m)
<1> DEFINE c == DontCare(m)
<1>1. cs \in Seq(Chunk) /\ Sized(cs, Len(root)) /\ Blocks(cs) = n /\ Holds(cs, root, Blocks(cs))
  BY DEF Kept
<1>2. c \in Chunk /\ c.type = "dont_care" /\ Len(c.data) = m /\ \A j \in 1..m : c.data[j] = 0
  BY DontCareIsChunk
<1> HIDE DEF c
<1>3. Append(cs, c) \in Seq(Chunk) /\ Sized(Append(cs, c), Len(root))
  BY <1>1, <1>2, AppendSized, AppendFacts
<1>4. Blocks(Append(cs, c)) = n + m
  BY <1>1, <1>2, AppendChunk
<1>5. \A j \in 1..Len(c.data) : c.data[j] = root[Blocks(cs) + j]
  BY <1>1, <1>2
<1>6. Holds(Append(cs, c), root, n + m)
  BY <1>1, <1>2, <1>5, AppendHolds
<1>7. QED  BY <1>3, <1>4, <1>6 DEF Kept, c

LEMMA RootFacts ==
    ASSUME NEW root \in Roots
    PROVE  /\ root \in Seq(Nat) /\ Len(root) \in Nat \ {0} /\ DOMAIN root = 1..Len(root)
           /\ \A i \in 1..Len(root) : root[i] \in Nat
           /\ root[1] \in DOMAIN UuidOf
<1>1. root \in Seq(Nat) /\ root # <<>> /\ root[1] \in DOMAIN UuidOf
  BY PackageAssumption DEF Roots
<1>2. QED  BY <1>1

\* The writer between two blocks.
LEMMA WriterFacts ==
    ASSUME Shapes, Writing, writer.open
    PROVE  /\ Blocks(data.chunks) \in Nat /\ Kept(data.chunks, source, Blocks(data.chunks))
           /\ writer.raw \in Seq(Nat) /\ Len(writer.raw) \in Nat /\ Len(writer.raw) < RawLimit
           /\ writer.zeros \in Nat /\ (writer.zeros = 0 \/ Len(writer.raw) = 0)
           /\ Blocks(data.chunks) + Len(writer.raw) + writer.zeros + 1 = writer.pos
           /\ writer.zeros <= Len(source)
           /\ \A j \in 1..Len(writer.raw) : writer.raw[j] = source[Blocks(data.chunks) + j]
           /\ \A j \in 1..writer.zeros : source[Blocks(data.chunks) + j] = 0
           /\ data = [blocks |-> Len(source), count |-> 0, chunks |-> data.chunks]
           /\ data.chunks \in Seq(Chunk)
<1>1. data.chunks \in Seq(Chunk) /\ source \in Roots
      /\ writer \in [open : BOOLEAN, pos : Nat, raw : Seq(Nat), zeros : Nat]
      /\ data \in [blocks : Nat, count : Nat, chunks : Seq(Chunk)]
  BY DEF Shapes
<1>2. Blocks(data.chunks) \in Nat
  BY <1>1, CellsFinite
<1>3. Len(source) \in Nat
  BY <1>1, RootFacts
<1>4. /\ data.blocks = Len(source) /\ data.count = 0
      /\ writer.pos \in 1..(Len(source) + 1)
      /\ Len(writer.raw) < RawLimit /\ (writer.zeros = 0 \/ writer.raw = <<>>)
      /\ Blocks(data.chunks) + Len(writer.raw) + writer.zeros + 1 = writer.pos
      /\ Kept(data.chunks, source, Blocks(data.chunks))
      /\ \A j \in DOMAIN writer.raw : writer.raw[j] = source[Blocks(data.chunks) + j]
      /\ \A j \in 1..writer.zeros : source[Blocks(data.chunks) + j] = 0
  BY DEF Writing
<1>5. /\ writer.raw \in Seq(Nat) /\ Len(writer.raw) \in Nat /\ writer.zeros \in Nat
      /\ DOMAIN writer.raw = 1..Len(writer.raw)
  BY <1>1
<1>6. writer.zeros <= Len(source)
  BY <1>2, <1>3, <1>4, <1>5
<1>7. data = [blocks |-> Len(source), count |-> 0, chunks |-> data.chunks]
  BY <1>1, <1>4
<1>8. QED  BY <1>1, <1>2, <1>4, <1>5, <1>6, <1>7

\* Closing a raw run: it started where the closed chunks, and the zeros if there
\* were any, end.
LEMMA WithRawKeeps ==
    ASSUME Shapes, Writing, writer.open
    PROVE  Kept(WithRaw(data.chunks), source, Blocks(data.chunks) + Len(writer.raw))
<1>1. CASE writer.raw = <<>>
  <2>1. WithRaw(data.chunks) = data.chunks /\ Len(writer.raw) = 0
    BY <1>1 DEF WithRaw
  <2>2. QED  BY <2>1, WriterFacts
<1>2. CASE writer.raw # <<>>
  <2>1. WithRaw(data.chunks) = Append(data.chunks, Raw(writer.raw))
    BY <1>2 DEF WithRaw
  <2>2. Len(writer.raw) <= RawLimit
    BY WriterFacts, PackageAssumption
  <2>3. QED  BY <1>2, <2>1, <2>2, WriterFacts, KeepRaw
<1>3. QED  BY <1>1, <1>2

LEMMA WithZerosKeeps ==
    ASSUME Shapes, Writing, writer.open, NEW cs, NEW n, Kept(cs, source, n),
           \A j \in 1..writer.zeros : source[n + j] = 0
    PROVE  Kept(WithZeros(cs), source, n + writer.zeros)
<1>1. writer.zeros \in Nat /\ writer.zeros <= Len(source)
  BY WriterFacts
<1>2. CASE writer.zeros = 0
  <2>1. n \in Nat
    BY CellsFinite DEF Kept
  <2>2. WithZeros(cs) = cs /\ n + writer.zeros = n
    BY <1>2, <2>1 DEF WithZeros
  <2>3. QED  BY <2>2
<1>3. CASE writer.zeros # 0
  <2>1. WithZeros(cs) = Append(cs, DontCare(writer.zeros)) /\ writer.zeros \in Nat \ {0}
    BY <1>1, <1>3 DEF WithZeros
  <2>2. QED  BY <2>1, <1>1, KeepZeros
<1>4. QED  BY <1>2, <1>3

\* The file between two blocks, and with other chunks.
LEMMA DataUpdate ==
    ASSUME Shapes, Writing, writer.open
    PROVE  \A cs : [data EXCEPT !.chunks = cs] = [blocks |-> Len(source), count |-> 0, chunks |-> cs]
<1>1. ASSUME NEW blocks, NEW count, NEW chunks, NEW cs
      PROVE  [[blocks |-> blocks, count |-> count, chunks |-> chunks] EXCEPT !.chunks = cs]
               = [blocks |-> blocks, count |-> count, chunks |-> cs]
  OBVIOUS
<1>2. data = [blocks |-> Len(source), count |-> 0, chunks |-> data.chunks]
  BY WriterFacts
<1>3. \A cs : [[blocks |-> Len(source), count |-> 0, chunks |-> data.chunks] EXCEPT !.chunks = cs]
                = [blocks |-> Len(source), count |-> 0, chunks |-> cs]
  BY <1>1
<1>4. QED  BY <1>2, <1>3, Zenon

\* A new state of the file and of the writer in which all the writer's promises
\* hold again: what the three branches of SparseBlock have in common.
LEMMA WritingAgain ==
    ASSUME NEW cs, NEW n \in Nat, NEW raw \in Seq(Nat), NEW zeros \in Nat,
           IInv, writer.open, writer.pos <= Len(source),
           Kept(cs, source, n), Len(raw) < RawLimit, zeros = 0 \/ raw = <<>>,
           n + Len(raw) + zeros = writer.pos,
           \A j \in 1..Len(raw) : raw[j] = source[n + j],
           \A j \in 1..zeros : source[n + j] = 0,
           data' = [blocks |-> Len(source), count |-> 0, chunks |-> cs],
           writer' = Collecting(raw, zeros),
           UNCHANGED <<build, source, loading, boot, slot, verdict>>
    PROVE  IInv'
<1>1. Shapes /\ Writing /\ data.count = 0 /\ verdict = "none" /\ source \in Roots
      /\ writer.pos \in 1..(Len(source) + 1)
  BY DEF IInv, Writing, Shapes
<1>2. data' = [blocks |-> Len(source), count |-> 0, chunks |-> cs]
  OBVIOUS
<1>3. cs \in Seq(Chunk) /\ Sized(cs, Len(source)) /\ Blocks(cs) = n
  BY DEF Kept
<1>4. Len(source) \in Nat \ {0} /\ DOMAIN raw = 1..Len(raw) /\ Len(raw) \in Nat
  BY <1>1, RootFacts
<1>5. data' \in [blocks : Nat, count : Nat, chunks : Seq(Chunk)] /\ Sized(data.chunks', data.blocks')
  BY <1>2, <1>3, <1>4
<1>6. writer' \in [open : BOOLEAN, pos : Nat, raw : Seq(Nat), zeros : Nat]
  BY <1>1 DEF Collecting
<1>7. Shapes'
  BY <1>1, <1>5, <1>6 DEF Shapes, build, loading
<1>8. Writing'
  <2>1. writer.pos + 1 \in 1..(Len(source) + 1) /\ n + Len(raw) + zeros + 1 = writer.pos + 1
    BY <1>1, <1>4
  <2>2. /\ data.blocks' = Len(source) /\ data.count' = 0 /\ data.chunks' = cs
        /\ writer.open' /\ writer.pos' = writer.pos + 1 /\ writer.raw' = raw /\ writer.zeros' = zeros
        /\ verdict' = "none" /\ source' = source
    BY <1>1, <1>2 DEF Collecting
  <2>3. Kept(data.chunks, source, Blocks(data.chunks))'
    BY <2>2, <1>3
  <2>4. QED  BY <2>1, <2>2, <2>3, <1>3, <1>4 DEF Writing
<1>9. Finished' /\ Checked'
  BY <1>1, <1>2 DEF Finished, Checked
<1>10. QED  BY <1>7, <1>8, <1>9 DEF IInv

LEMMA SparseBlockStep ==
    ASSUME IInv, SparseBlock
    PROVE  IInv'
<1> DEFINE n == Blocks(data.chunks)
           block == source[writer.pos]
           raw == Append(writer.raw, block)
<1>1. Shapes /\ Writing /\ writer.open /\ writer.pos <= Len(source)
      /\ UNCHANGED <<build, source, loading, boot, slot, verdict>>
  BY DEF IInv, SparseBlock
<1>2. source \in Roots /\ writer.pos \in 1..Len(source)
  BY <1>1 DEF Shapes, Writing
<1>3. /\ n \in Nat /\ Kept(data.chunks, source, n)
      /\ writer.raw \in Seq(Nat) /\ Len(writer.raw) \in Nat /\ Len(writer.raw) < RawLimit
      /\ writer.zeros \in Nat /\ (writer.zeros = 0 \/ Len(writer.raw) = 0)
      /\ n + Len(writer.raw) + writer.zeros + 1 = writer.pos
      /\ \A j \in 1..Len(writer.raw) : writer.raw[j] = source[n + j]
      /\ \A j \in 1..writer.zeros : source[n + j] = 0
  BY <1>1, WriterFacts
<1>4. /\ n \in Nat /\ Len(writer.raw) \in Nat /\ writer.zeros \in Nat
      /\ (writer.zeros = 0 \/ Len(writer.raw) = 0)
      /\ n + Len(writer.raw) + writer.zeros + 1 = writer.pos
  BY <1>3
<1>5. block \in Nat /\ RawLimit \in Nat \ {0}
  BY <1>2, RootFacts, PackageAssumption
<1> HIDE DEF n, block
<1>6. /\ raw \in Seq(Nat) /\ Len(raw) = Len(writer.raw) + 1 /\ raw # <<>>
      /\ \A j \in 1..Len(writer.raw) : raw[j] = writer.raw[j]
      /\ raw[Len(raw)] = block
  <2>1. writer.raw \in Seq(Nat) /\ block \in Nat
    BY <1>3, <1>5
  <2>2. /\ raw \in Seq(Nat) /\ Len(raw) = Len(writer.raw) + 1 /\ Len(writer.raw) \in Nat
        /\ \A j \in 1..Len(writer.raw) : raw[j] = writer.raw[j]
        /\ raw[Len(writer.raw) + 1] = block
    BY <2>1, AppendFacts
  <2> HIDE DEF raw
  <2>3. raw # <<>>
    BY <2>2
  <2>4. QED  BY <2>2, <2>3
<1> HIDE DEF raw
<1>7. /\ <<>> \in Seq(Nat) /\ Len(<<>>) = 0
      /\ \A base : \A j \in 1..Len(<<>>) : <<>>[j] = source[base + j]
  OBVIOUS
<1>8. CASE /\ block = 0
           /\ data' = [data EXCEPT !.chunks = WithRaw(@)]
           /\ writer' = Collecting(<<>>, writer.zeros + 1)
  <2> DEFINE m == n + Len(writer.raw)
  <2>1. Kept(WithRaw(data.chunks), source, m)
    BY <1>1, WithRawKeeps DEF n
  <2>2. m \in Nat /\ m + writer.zeros + 1 = writer.pos
    BY <1>3
  <2>3. ASSUME NEW j \in 1..(writer.zeros + 1)  PROVE source[m + j] = 0
    <3>1. CASE j = writer.zeros + 1
      <4>1. m + j = writer.pos
        BY <2>2, <3>1, <1>3
      <4>2. QED  BY <4>1, <1>8 DEF block
    <3>2. CASE j # writer.zeros + 1
      <4>1. j \in 1..writer.zeros /\ m = n
        BY <3>2, <1>4
      <4>2. QED  BY <4>1, <1>3
    <3>3. QED  BY <3>1, <3>2
  <2>4. data' = [blocks |-> Len(source), count |-> 0, chunks |-> WithRaw(data.chunks)]
    BY <1>1, <1>8, DataUpdate
  <2> HIDE DEF m
  <2>5. writer.zeros + 1 \in Nat /\ writer.pos \in Nat /\ Len(<<>>) < RawLimit
    <3>1. writer.zeros \in Nat /\ Len(<<>>) = 0
      BY <1>4, <1>7
    <3>2. writer.zeros + 1 \in Nat /\ Len(<<>>) < RawLimit
      BY <3>1, <1>5
    <3>3. writer.pos \in Nat
      BY <1>2, <1>4
    <3>4. QED  BY <3>2, <3>3
  <2>6. m + Len(<<>>) + (writer.zeros + 1) = writer.pos
    BY <1>4, <1>7, <2>2
  <2>7. /\ <<>> \in Seq(Nat) /\ Len(<<>>) = 0
        /\ \A j \in 1..Len(<<>>) : <<>>[j] = source[m + j]
    BY <1>7
  <2>8. QED  BY <1>1, <1>8, <2>1, <2>2, <2>3, <2>4, <2>5, <2>6, <2>7, WritingAgain
<1>9. /\ Kept(WithZeros(data.chunks), source, n + writer.zeros) /\ n + writer.zeros \in Nat
      /\ n + writer.zeros + Len(raw) = writer.pos
      /\ \A j \in 1..Len(raw) : raw[j] = source[n + writer.zeros + j]
  <2>1. Kept(WithZeros(data.chunks), source, n + writer.zeros)
    BY <1>1, <1>3, WithZerosKeeps
  <2>2. n + writer.zeros \in Nat /\ n + writer.zeros + Len(raw) = writer.pos
    <3>1. Len(raw) = Len(writer.raw) + 1
      BY <1>6
    <3>2. QED  BY <1>4, <3>1
  <2>3. ASSUME NEW j \in 1..Len(raw)  PROVE raw[j] = source[n + writer.zeros + j]
    <3>1. CASE j = Len(raw)
      <4>1. n + writer.zeros + j = writer.pos
        BY <2>2, <3>1
      <4>2. QED  BY <3>1, <4>1, <1>6 DEF block
    <3>2. CASE j # Len(raw)
      <4>1. Len(raw) = Len(writer.raw) + 1
        BY <1>6
      <4>2. j \in 1..Len(writer.raw)
        BY <3>2, <4>1, <1>4
      <4>3. n + writer.zeros = n
        <5>1. writer.zeros = 0
          BY <4>2, <1>4
        <5>2. QED  BY <5>1, <1>4
      <4>4. writer.raw[j] = source[n + j]
        BY <4>2, <1>3
      <4>5. raw[j] = writer.raw[j]
        BY <4>2, <1>6
      <4>6. QED  BY <4>3, <4>4, <4>5
    <3>3. QED  BY <3>1, <3>2
  <2>4. QED  BY <2>1, <2>2, <2>3
<1>10. CASE /\ RawFull(raw)
           /\ data' = [data EXCEPT !.chunks = Append(WithZeros(@), Raw(raw))]
           /\ writer' = Collecting(<<>>, 0)
  <2> DEFINE m == n + writer.zeros + Len(raw)
             cs == Append(WithZeros(data.chunks), Raw(raw))
  <2>1. Len(raw) <= RawLimit
    BY <1>3, <1>5, <1>6
  <2>2. Kept(cs, source, m)
    BY <2>1, <1>6, <1>9, KeepRaw
  <2>3. data' = [blocks |-> Len(source), count |-> 0, chunks |-> cs]
    BY <1>1, <1>10, DataUpdate
  <2>4. m \in Nat /\ m = writer.pos
    <3>1. m = writer.pos
      BY <1>9
    <3>2. writer.pos \in Nat
      BY <1>4
    <3> HIDE DEF m
    <3>3. QED  BY <3>1, <3>2
  <2> HIDE DEF m, cs
  <2>5. /\ <<>> \in Seq(Nat) /\ Len(<<>>) = 0 /\ Len(<<>>) < RawLimit
        /\ \A j \in 1..Len(<<>>) : <<>>[j] = source[m + j]
        /\ \A j \in 1..0 : source[m + j] = 0
        /\ m + Len(<<>>) + 0 = writer.pos
    <3>1. Len(<<>>) = 0
      BY <1>7
    <3>2. Len(<<>>) < RawLimit
      BY <3>1, <1>5
    <3>3. m + Len(<<>>) + 0 = writer.pos
      BY <3>1, <2>4
    <3>4. \A j \in 1..0 : source[m + j] = 0
      OBVIOUS
    <3>5. <<>> \in Seq(Nat) /\ \A j \in 1..Len(<<>>) : <<>>[j] = source[m + j]
      BY <1>7
    <3>6. QED  BY <3>1, <3>2, <3>3, <3>4, <3>5
  <2>6. 0 \in Nat
    OBVIOUS
  <2>7. QED  BY <1>1, <1>10, <2>2, <2>3, <2>4, <2>5, <2>6, WritingAgain
<1>11. CASE /\ ~RawFull(raw)
           /\ data' = [data EXCEPT !.chunks = WithZeros(@)]
           /\ writer' = Collecting(raw, 0)
  <2> DEFINE m == n + writer.zeros
             cs == WithZeros(data.chunks)
  <2>1. Len(raw) < RawLimit
    BY <1>3, <1>5, <1>6, <1>11 DEF RawFull
  <2>2. data' = [blocks |-> Len(source), count |-> 0, chunks |-> cs]
    BY <1>1, <1>11, DataUpdate
  <2>3. /\ m \in Nat /\ Kept(cs, source, m) /\ m + Len(raw) + 0 = writer.pos
        /\ \A j \in 1..Len(raw) : raw[j] = source[m + j]
        /\ \A j \in 1..0 : source[m + j] = 0
    BY <1>6, <1>9
  <2> HIDE DEF m, cs
  <2>4. QED  BY <1>1, <1>6, <1>11, <2>1, <2>2, <2>3, WritingAgain
<1>12. QED
  <2>1. \/ /\ block = 0
             /\ data' = [data EXCEPT !.chunks = WithRaw(@)]
             /\ writer' = Collecting(<<>>, writer.zeros + 1)
        \/ /\ block # 0 /\ RawFull(raw)
             /\ data' = [data EXCEPT !.chunks = Append(WithZeros(@), Raw(raw))]
             /\ writer' = Collecting(<<>>, 0)
        \/ /\ block # 0 /\ ~RawFull(raw)
             /\ data' = [data EXCEPT !.chunks = WithZeros(@)]
             /\ writer' = Collecting(raw, 0)
    BY DEF SparseBlock, block, raw
  <2>2. QED  BY <2>1, <1>8, <1>10, <1>11

LEMMA SparseCloseStep ==
    ASSUME IInv, SparseClose
    PROVE  IInv'
<1> DEFINE n == Blocks(data.chunks)
           m == n + Len(writer.raw)
           cs == WithZeros(WithRaw(data.chunks))
<1>1. Shapes /\ Writing /\ writer.open /\ writer.pos > Len(source)
      /\ UNCHANGED <<build, source, loading, boot, slot, verdict>>
      /\ data' = [blocks |-> data.blocks, count |-> Len(cs), chunks |-> cs]
      /\ writer' = Idle
  BY DEF IInv, SparseClose, Close
<1>2. source \in Roots /\ writer.pos \in 1..(Len(source) + 1) /\ verdict = "none"
      /\ data.blocks = Len(source)
  BY <1>1 DEF Shapes, Writing
<1>3. Len(source) \in Nat \ {0}
  BY <1>2, RootFacts
<1>4. /\ n \in Nat /\ Len(writer.raw) \in Nat /\ writer.zeros \in Nat
      /\ (writer.zeros = 0 \/ Len(writer.raw) = 0)
      /\ n + Len(writer.raw) + writer.zeros + 1 = writer.pos
      /\ \A j \in 1..writer.zeros : source[n + j] = 0
  BY <1>1, WriterFacts
<1>5. Kept(WithRaw(data.chunks), source, m)
  BY <1>1, WithRawKeeps
<1> HIDE DEF n
<1>6. \A j \in 1..writer.zeros : source[m + j] = 0
  <2>1. CASE writer.zeros = 0
    BY <2>1
  <2>2. CASE Len(writer.raw) = 0
    <3>1. m = n
      BY <2>2, <1>4
    <3>2. QED  BY <3>1, <1>4
  <2>3. QED  BY <2>1, <2>2, <1>4
<1>7. m + writer.zeros = Len(source)
  BY <1>1, <1>2, <1>3, <1>4
<1> HIDE DEF m
<1>8. Kept(cs, source, Len(source))
  BY <1>1, <1>5, <1>6, <1>7, WithZerosKeeps
<1>9. cs \in Seq(Chunk) /\ Sized(cs, Len(source)) /\ Holds(cs, source, Len(source))
      /\ Len(cs) \in Nat
  BY <1>8 DEF Kept
<1> HIDE DEF cs
<1>10. Shapes'
  <2>1. data' \in [blocks : Nat, count : Nat, chunks : Seq(Chunk)] /\ Sized(data.chunks', data.blocks')
    BY <1>1, <1>2, <1>3, <1>9
  <2>2. writer' \in [open : BOOLEAN, pos : Nat, raw : Seq(Nat), zeros : Nat]
    BY <1>1 DEF Idle
  <2>3. QED  BY <1>1, <2>1, <2>2 DEF Shapes, build, loading
<1>11. Writing'
  BY <1>1 DEF Writing, Idle
<1>12. Finished'
  <2>1. /\ data.blocks' = Len(source)' /\ data.count' = Len(cs) /\ data.chunks' = cs
        /\ source' = source
    BY <1>1, <1>2
  <2>2. QED  BY <2>1, <1>9 DEF Finished
<1>13. Checked'
  BY <1>1, <1>2 DEF Checked
<1>14. QED  BY <1>10, <1>11, <1>12, <1>13 DEF IInv

LEMMA SparseOpenStep ==
    ASSUME IInv, SparseOpen
    PROVE  IInv'
<1>1. /\ Shapes /\ source' = rootfs /\ verdict' = "none"
      /\ UNCHANGED <<build, loading, boot, slot>>
  BY DEF IInv, SparseOpen
<1>2. /\ data' = [blocks |-> Len(rootfs), count |-> 0, chunks |-> <<>>]
      /\ writer' = [open |-> TRUE, pos |-> 1, raw |-> <<>>, zeros |-> 0]
  BY DEF SparseOpen, NoData, Idle
<1>3. rootfs \in Roots /\ RawLimit \in Nat \ {0}
  BY <1>1, PackageAssumption DEF Shapes
<1>4. Len(rootfs) \in Nat \ {0}
  BY <1>3, RootFacts
<1>5. Sized(<<>>, Len(rootfs)) /\ <<>> \in Seq(Chunk) /\ <<>> \in Seq(Nat) /\ Len(<<>>) = 0
      /\ DOMAIN <<>> = {}
  BY DEF Sized
<1>6. Shapes'
  <2>1. data' \in [blocks : Nat, count : Nat, chunks : Seq(Chunk)] /\ Sized(data.chunks', data.blocks')
    BY <1>2, <1>4, <1>5
  <2>2. writer' \in [open : BOOLEAN, pos : Nat, raw : Seq(Nat), zeros : Nat]
    BY <1>2, <1>5
  <2>3. source' \in Roots
    BY <1>1, <1>3
  <2>4. QED  BY <1>1, <2>1, <2>2, <2>3 DEF Shapes, build, loading
<1>7. Writing'
  <2>1. Kept(<<>>, rootfs, Blocks(<<>>)) /\ Blocks(<<>>) = 0
    BY <1>5, NothingHeld, NoChunks DEF Kept
  <2>2. /\ data.blocks' = Len(rootfs) /\ data.count' = 0 /\ data.chunks' = <<>>
        /\ writer.open' /\ writer.pos' = 1 /\ writer.raw' = <<>> /\ writer.zeros' = 0
    BY <1>2
  <2>3. Kept(data.chunks, source, Blocks(data.chunks))' /\ Blocks(data.chunks)' = 0
    BY <1>1, <2>1, <2>2
  <2>4. QED  BY <1>1, <1>3, <1>4, <1>5, <2>2, <2>3 DEF Writing
<1>8. Finished' /\ Checked'
  BY <1>1, <1>2 DEF Finished, Checked
<1>9. QED  BY <1>6, <1>7, <1>8 DEF IInv

\* A copy that broke off has fewer chunks than its header says.
LEMMA CutDataStep ==
    ASSUME IInv, CutData
    PROVE  IInv'
<1>1. /\ Shapes /\ Finished /\ ~writer.open /\ verdict' = "none"
      /\ UNCHANGED <<build, source, writer, loading, boot, slot>>
  BY DEF IInv, CutData
<1>2. PICK k \in 0..(Len(data.chunks) - 1) :
          data' = [data EXCEPT !.chunks = SubSeq(data.chunks, 1, k)]
  BY DEF CutData
<1> DEFINE cs == SubSeq(data.chunks, 1, k)
<1>3. data \in [blocks : Nat, count : Nat, chunks : Seq(Chunk)] /\ Sized(data.chunks, data.blocks)
  BY <1>1 DEF Shapes
<1>4. /\ cs \in Seq(Chunk) /\ Len(cs) = k /\ k < Len(data.chunks) /\ Len(data.chunks) \in Nat
      /\ DOMAIN cs = 1..k /\ \A i \in 1..k : cs[i] = data.chunks[i] /\ i \in DOMAIN data.chunks
  <2>1. data.chunks \in Seq(Chunk)
    BY <1>3
  <2>2. QED  BY <2>1
<1>5. Sized(cs, data.blocks)
  <2> HIDE DEF cs
  <2>1. ASSUME NEW i \in DOMAIN cs
        PROVE  Len(cs[i].data) <= (IF cs[i].type = "raw" THEN RawLimit ELSE data.blocks)
    <3>1. i \in DOMAIN data.chunks /\ cs[i] = data.chunks[i]
      BY <1>4
    <3>2. QED  BY <3>1, <1>3 DEF Sized
  <2>2. QED  BY <2>1 DEF Sized
<1> HIDE DEF cs
<1>6. /\ data' \in [blocks : Nat, count : Nat, chunks : Seq(Chunk)] /\ data.chunks' = cs
      /\ data.blocks' = data.blocks /\ data.count' = data.count
  BY <1>2, <1>3, <1>4 DEF cs
<1>7. Shapes'
  BY <1>1, <1>5, <1>6 DEF Shapes, build, loading
<1>8. Writing'
  BY <1>1 DEF IInv, Writing
<1>9. Finished'
  BY <1>1, <1>3, <1>4, <1>6 DEF Finished
<1>10. Checked'
  BY <1>1 DEF Checked
<1>11. QED  BY <1>7, <1>8, <1>9, <1>10 DEF IInv

\* The steps that leave the sparse file and its writer alone.
LEMMA OtherFilesKeep ==
    ASSUME IInv, UNCHANGED sparse, Shapes', Checked', writer.open => verdict' = "none"
    PROVE  IInv'
<1>1. Writing' /\ Finished'
  BY DEF IInv, Writing, Finished, sparse
<1>2. QED  BY <1>1 DEF IInv

LEMMA RebuildStep ==
    ASSUME IInv, Rebuild
    PROVE  IInv'
<1>1. UNCHANGED sparse /\ ~writer.open /\ UNCHANGED <<layout, loading, boot, slot, verdict>>
      /\ rootfs' \in Roots /\ tree' \in Trees
  BY DEF Rebuild, Roots
<1>2. Shapes'
  BY <1>1 DEF IInv, Shapes, loading, sparse
<1>3. Checked'
  BY <1>1 DEF IInv, Checked, EmmcValid, OphubValid, VendorValid, DosMbr, RootfsMbr, Sealed, Fits,
              FatBoot, ConfiguredRoot, DtbRoles, SecondTree, loading, sparse
<1>4. QED  BY <1>1, <1>2, <1>3, OtherFilesKeep

LEMMA InterruptStep ==
    ASSUME IInv, Interrupt
    PROVE  IInv'
<1>1. writer' = Idle /\ embedding' = FALSE
      /\ UNCHANGED <<build, data, source, loader, boot, slot, verdict>>
  BY DEF Interrupt
<1>2. Shapes'
  <2>1. Idle \in [open : BOOLEAN, pos : Nat, raw : Seq(Nat), zeros : Nat]
    BY DEF Idle
  <2>2. QED  BY <1>1, <2>1 DEF IInv, Shapes, build
<1>3. Writing' /\ Finished'
  BY <1>1 DEF IInv, Writing, Finished, Idle
<1>4. Checked'
  BY <1>1 DEF IInv, Checked, EmmcValid, OphubValid, VendorValid, DosMbr, RootfsMbr, Sealed, Fits,
              FatBoot, ConfiguredRoot, DtbRoles, SecondTree, build
<1>5. QED  BY <1>2, <1>3, <1>4 DEF IInv

LEMMA CheckStep ==
    ASSUME IInv, Check
    PROVE  IInv'
<1>1. ~writer.open /\ UNCHANGED <<build, sparse, loading, boot, slot>>
      /\ verdict' = IF \/ layout = "emmc" /\ EmmcValid
                       \/ layout = "ophub" /\ OphubValid
                       \/ layout = "vendor" /\ VendorValid
                    THEN "accepted" ELSE "refused"
  BY DEF Check
<1>2. Shapes'
  BY <1>1 DEF IInv, Shapes, build, sparse, loading
<1>3. Checked'
  BY <1>1 DEF Checked, EmmcValid, OphubValid, VendorValid, DosMbr, RootfsMbr, Sealed, Fits,
              FatBoot, ConfiguredRoot, DtbRoles, SecondTree, build, sparse, loading
<1>4. QED  BY <1>1, <1>2, <1>3, OtherFilesKeep

\* The boot loader: every table a command writes is one of Tables.
LEMMA LoaderStep ==
    ASSUME IInv, CopyLoader \/ EmbedDosMbr \/ EmbedRootfsMbr \/ Reseal
    PROVE  IInv'
<1>1. Shapes /\ UNCHANGED <<build, sparse, boot, slot>> /\ verdict' = "none"
      /\ embedding' \in BOOLEAN
  BY DEF IInv, CopyLoader, EmbedDosMbr, EmbedRootfsMbr, WriteMbr, Reseal
<1>2. loader \in [mbr : Tables, sealed : Tables]
  BY <1>1 DEF Shapes
<1>3. BootLength \in Nat /\ Len(rootfs) \in Nat
  <2>1. rootfs \in Roots
    BY <1>1 DEF Shapes
  <2>2. QED  BY <2>1, RootFacts, PackageAssumption
<1>4. ASSUME NEW t \in Tables  PROVE [loader EXCEPT !.mbr = t] \in [mbr : Tables, sealed : Tables]
  BY <1>2
<1>5. loader' \in [mbr : Tables, sealed : Tables]
  <2>1. CASE CopyLoader
    <3>1. <<>> \in Tables
      BY DEF Tables, Range
    <3>2. QED  BY <2>1, <3>1 DEF CopyLoader, Stock
  <2>2. CASE EmbedDosMbr
    <3> DEFINE a == Entry("fat16", "boot", BootLength, FALSE)
               b == Entry("linux", "data", Len(rootfs), FALSE)
    <3>1. /\ a \in [type : {"fat16", "linux"}, start : {"boot", "data"}, length : Nat, bootable : BOOLEAN]
          /\ b \in [type : {"fat16", "linux"}, start : {"boot", "data"}, length : Nat, bootable : BOOLEAN]
          /\ ~a.bootable /\ ~b.bootable
      BY <1>3 DEF Entry
    <3> HIDE DEF a, b
    <3>2. <<a, b>> \in Tables
      BY <3>1 DEF Tables, Range
    <3>3. loader' = [loader EXCEPT !.mbr = <<a, b>>]
      BY <2>2 DEF EmbedDosMbr, WriteMbr, a, b
    <3>4. QED  BY <1>4, <3>2, <3>3
  <2>3. CASE EmbedRootfsMbr
    <3> DEFINE a == Entry("linux", "data", Len(rootfs), TRUE)
    <3>1. a \in [type : {"fat16", "linux"}, start : {"boot", "data"}, length : Nat, bootable : BOOLEAN]
      BY <1>3 DEF Entry
    <3> HIDE DEF a
    <3>2. <<a>> \in Tables
      BY <3>1 DEF Tables, Range
    <3>3. loader' = [loader EXCEPT !.mbr = <<a>>]
      BY <2>3 DEF EmbedRootfsMbr, WriteMbr, a
    <3>4. QED  BY <1>4, <3>2, <3>3
  <2>4. CASE Reseal
    BY <1>2, <2>4 DEF Reseal
  <2>5. QED  BY <2>1, <2>2, <2>3, <2>4
<1>6. Shapes'
  BY <1>1, <1>5 DEF Shapes, build, sparse
<1>7. Checked'
  BY <1>1 DEF Checked
<1>8. QED  BY <1>1, <1>6, <1>7, OtherFilesKeep

LEMMA UuidInRange ==
    ASSUME NEW file, Uuid(file) # 0
    PROVE  Uuid(file) \in Range(UuidOf)
BY DEF Uuid, Range

LEMMA BootStep ==
    ASSUME IInv, MakeFat \/ MakeBoot \/ ReplaceTree
    PROVE  IInv'
<1>1. Shapes /\ UNCHANGED <<build, sparse, loading>> /\ verdict' = "none"
  BY DEF IInv, MakeFat, MakeBoot, ReplaceTree, Boot
<1>2. rootfs \in Roots /\ tree \in Trees
  BY <1>1 DEF Shapes
<1>3. /\ boot' \in {NoBoot} \cup [kind : {"fat", "android"}, uuid : Range(UuidOf), tree : Trees]
      /\ slot' \in Trees \cup {0}
  <2>1. CASE MakeFat
    <3>1. rootfs[1] \in DOMAIN UuidOf
      BY <1>2, RootFacts
    <3>2. UuidOf[rootfs[1]] \in Range(UuidOf)
      BY <3>1 DEF Range
    <3>3. QED  BY <1>1, <1>2, <2>1, <3>2 DEF MakeFat, Boot, Shapes
  <2>2. CASE MakeBoot
    <3>1. Uuid(data) \in Range(UuidOf)
      BY <2>2, UuidInRange DEF MakeBoot
    <3>2. QED  BY <1>1, <1>2, <2>2, <3>1 DEF MakeBoot, Boot, Shapes
  <2>3. CASE ReplaceTree
    BY <1>1, <1>2, <2>3 DEF ReplaceTree, Shapes
  <2>4. QED  BY <2>1, <2>2, <2>3
<1>4. Shapes'
  BY <1>1, <1>3 DEF Shapes, build, sparse, loading
<1>5. Checked'
  BY <1>1 DEF Checked
<1>6. QED  BY <1>1, <1>4, <1>5, OtherFilesKeep

LEMMA StutteringStep ==
    ASSUME IInv, UNCHANGED vars
    PROVE  IInv'
<1>1. UNCHANGED sparse /\ (writer.open => verdict' = "none")
  BY DEF IInv, Writing, vars, sparse
<1>2. Shapes'
  BY DEF IInv, Shapes, vars
<1>3. Checked'
  BY DEF IInv, Checked, EmmcValid, OphubValid, VendorValid, DosMbr, RootfsMbr, Sealed, Fits,
         FatBoot, ConfiguredRoot, DtbRoles, SecondTree, vars
<1>4. QED  BY <1>1, <1>2, <1>3, OtherFilesKeep

LEMMA InitIInv ==
    ASSUME Init
    PROVE  IInv
<1>1. /\ data = [blocks |-> 0, count |-> 0, chunks |-> <<>>]
      /\ writer = Idle /\ writer = [open |-> FALSE, pos |-> 1, raw |-> <<>>, zeros |-> 0]
      /\ loader = [mbr |-> <<>>, sealed |-> <<>>] /\ source \in Roots /\ rootfs \in Roots
  BY DEF Init, NoData, Idle, Stock, Roots
<1>2. <<>> \in Seq(Chunk) /\ Sized(<<>>, 0) /\ <<>> \in Seq(Nat) /\ <<>> \in Tables
  BY DEF Sized, Tables, Range
<1>3. /\ data \in [blocks : Nat, count : Nat, chunks : Seq(Chunk)] /\ Sized(data.chunks, data.blocks)
      /\ writer \in [open : BOOLEAN, pos : Nat, raw : Seq(Nat), zeros : Nat]
      /\ loader \in [mbr : Tables, sealed : Tables]
  BY <1>1, <1>2
<1>4. Shapes
  BY <1>1, <1>3 DEF Init, Shapes
<1>5. Writing /\ Finished /\ Checked
  BY <1>1 DEF Init, Writing, Finished, Checked
<1>6. QED  BY <1>4, <1>5 DEF IInv

-----------------------------------------------------------------------------
(* Theorems.                                                               *)

\* The invariant is inductive: whatever command runs or is interrupted, the
\* writer's chunks and its run are the blocks it has read, a file with a chunk
\* count holds the whole root file system unless a copy broke off, and an
\* "accepted" stands for the files as they are.
THEOREM Invariance == Spec => []IInv
<1>1. Init => IInv
  BY InitIInv
<1>2. IInv /\ [Next]_vars => IInv'
  <2> SUFFICES ASSUME IInv, [Next]_vars  PROVE IInv'
    OBVIOUS
  <2>1. CASE Rebuild          BY <2>1, RebuildStep
  <2>2. CASE SparseOpen       BY <2>2, SparseOpenStep
  <2>3. CASE SparseBlock      BY <2>3, SparseBlockStep
  <2>4. CASE SparseClose      BY <2>4, SparseCloseStep
  <2>5. CASE CutData          BY <2>5, CutDataStep
  <2>6. CASE CopyLoader \/ EmbedDosMbr \/ EmbedRootfsMbr \/ Reseal
    BY <2>6, LoaderStep
  <2>7. CASE MakeFat \/ MakeBoot \/ ReplaceTree
    BY <2>7, BootStep
  <2>8. CASE Interrupt        BY <2>8, InterruptStep
  <2>9. CASE Check            BY <2>9, CheckStep
  <2>10. CASE UNCHANGED vars  BY <2>10, StutteringStep
  <2>11. QED
    BY <2>1, <2>2, <2>3, <2>4, <2>5, <2>6, <2>7, <2>8, <2>9, <2>10 DEF Next
<1>3. QED  BY <1>1, <1>2, PTL DEF Spec

\* A file with a chunk count and all its chunks is one the invariant vouches for.
LEMMA WholeFile ==
    ASSUME IInv, data.count > 0, ~Cut
    PROVE  /\ Accepts(data) /\ Burned(data, Erased) = source
           /\ Uuid(data) = UuidOf[source[1]] /\ data.blocks = Len(source)
<1>1. /\ source \in Roots /\ data \in [blocks : Nat, count : Nat, chunks : Seq(Chunk)]
      /\ Finished
  BY DEF IInv, Shapes
<1>2. data.chunks \in Seq(Chunk) /\ Len(data.chunks) \in Nat /\ data.count \in Nat \ {0}
  BY <1>1
<1>3. /\ data.blocks = Len(source) /\ Len(data.chunks) = data.count
      /\ Holds(data.chunks, source, Len(source))
  BY <1>1, <1>2 DEF Finished, Cut
<1>4. data = [blocks |-> Len(source), count |-> data.count, chunks |-> data.chunks]
  BY <1>1, <1>3
<1>5. Erased = [i \in 1..Len(source) |-> 0]
  BY <1>3 DEF Erased
<1> DEFINE count == data.count
           cs == data.chunks
           file == [blocks |-> Len(source), count |-> count, chunks |-> cs]
<1>6. /\ Accepts(file) /\ Burned(file, [i \in 1..Len(source) |-> 0]) = source
      /\ Uuid(file) = UuidOf[source[1]]
  <2>1. source \in Roots /\ count \in Nat \ {0} /\ cs \in Seq(Chunk) /\ Len(cs) = count
        /\ Holds(cs, source, Len(source))
    BY <1>1, <1>2, <1>3
  <2> HIDE DEF count, cs
  <2>2. QED  BY <2>1, HeldIsBurned
<1>7. file = data
  BY <1>4
<1> HIDE DEF file
<1>8. QED  BY <1>3, <1>5, <1>6, <1>7

LEMMA IInvTypeOK == IInv => TypeOK
<1> SUFFICES ASSUME IInv  PROVE TypeOK
  OBVIOUS
<1>1. Shapes /\ Writing
  BY DEF IInv
<1>2. source \in Roots /\ rootfs \in Roots
  BY <1>1 DEF Shapes
<1>3. ASSUME NEW i \in DOMAIN data.chunks
      PROVE  Len(data.chunks[i].data) \in 1..
                (IF data.chunks[i].type = "raw" THEN RawLimit ELSE data.blocks)
  <2>1. data.chunks \in Seq(Chunk) /\ Sized(data.chunks, data.blocks) /\ data.blocks \in Nat
    BY <1>1 DEF Shapes
  <2>2. data.chunks[i] \in Chunk
    BY <2>1
  <2>3. Len(data.chunks[i].data) \in Nat \ {0}
    BY <2>2, ChunkFacts
  <2>4. Len(data.chunks[i].data) <= (IF data.chunks[i].type = "raw" THEN RawLimit ELSE data.blocks)
    BY <2>1 DEF Sized
  <2>5. QED  BY <2>1, <2>3, <2>4, PackageAssumption
<1>4. /\ writer.open \in BOOLEAN /\ writer.pos \in 1..(Len(source) + 1)
      /\ Len(writer.raw) < RawLimit /\ (writer.zeros = 0 \/ writer.raw = <<>>)
  <2>1. Len(source) \in Nat \ {0} /\ RawLimit \in Nat \ {0}
    BY <1>2, RootFacts, PackageAssumption
  <2>2. writer.open \in BOOLEAN
    BY <1>1 DEF Shapes
  <2>3. QED  BY <1>1, <2>1, <2>2 DEF Writing, Idle
<1>5. ASSUME NEW t \in {loader.mbr, loader.sealed}
      PROVE  Len(t) <= 2 /\ \A e \in Range(t) : e.length \in Nat /\ (e.bootable => Len(t) = 1)
  <2>1. t \in Tables
    BY <1>1 DEF Shapes
  <2> DEFINE R == [type : {"fat16", "linux"}, start : {"boot", "data"},
                   length : Nat, bootable : BOOLEAN]
  <2>2. t \in Seq(R) /\ Len(t) <= 2 /\ \A e \in Range(t) : e.bootable => Len(t) = 1
    BY <2>1 DEF Tables
  <2>3. ASSUME NEW e \in Range(t)  PROVE e.length \in Nat
    <3>1. PICK i \in DOMAIN t : e = t[i]
      BY DEF Range
    <3>2. e \in R
      <4> HIDE DEF R
      <4>1. QED  BY <2>2, <3>1
    <3>3. QED  BY <3>2
  <2>4. QED  BY <2>2, <2>3
<1>6. data.blocks \in Nat /\ data.count \in Nat
  BY <1>1 DEF Shapes
<1>7. QED  BY <1>1, <1>2, <1>3, <1>4, <1>5, <1>6 DEF TypeOK, Shapes, Roots

\* Types, for every set of root file systems and trees and every chunk limit.
THEOREM TypeCorrect == Spec => []TypeOK
BY Invariance, IInvTypeOK, PTL

LEMMA IInvFaithful == IInv => SparseFaithful
<1> SUFFICES ASSUME IInv  PROVE SparseFaithful
  OBVIOUS
<1>1. data.chunks \in Seq(Chunk) /\ data.count \in Nat
  BY DEF IInv, Shapes
<1>2. CASE data.count > 0 /\ ~Cut
  BY <1>2, WholeFile DEF SparseFaithful
<1>3. CASE ~(data.count > 0 /\ ~Cut)
  BY <1>1, <1>3 DEF SparseFaithful, Accepts, Cut
<1>4. QED  BY <1>2, <1>3

\* makeSparse against the reader and the burning tool, for file systems of every
\* length and content and every limit on raw chunks: a finished file is accepted
\* and puts back the file system, block by block; an unfinished one is refused.
THEOREM WritesFaithfully == Spec => []SparseFaithful
BY Invariance, IInvFaithful, PTL

LEMMA IInvBoots == IInv => AcceptedBoots
<1> SUFFICES ASSUME IInv, verdict = "accepted", layout = "vendor" => ~Cut
             PROVE  /\ Sealed
                    /\ Burned(data, Erased) = source
                    /\ layout # "vendor" =>
                          /\ \E e \in Range(loader.mbr) :
                                e.type = "linux" /\ e.start = "data" /\ e.length = Len(source)
                          /\ Len(source) <= Room
                    /\ layout # "ophub" => boot.uuid = UuidOf[source[1]]
                    /\ layout = "vendor" => slot = boot.tree
  BY DEF AcceptedBoots
<1>1. /\ layout \in {"emmc", "ophub", "vendor"} /\ Checked
      /\ loader \in [mbr : Tables, sealed : Tables]
  BY PackageAssumption DEF IInv, Shapes
<1>2. Accepts(data) => data.count > 0 /\ ~Cut
  BY IInvFaithful DEF SparseFaithful
<1>3. CASE layout = "emmc"
  <2>1. EmmcValid
    BY <1>1, <1>3 DEF Checked
  <2>2. Accepts(data) /\ data.blocks <= Room /\ Len(loader.mbr) = 2
        /\ loader.mbr[2].type = "linux" /\ loader.mbr[2].start = "data"
        /\ loader.mbr[2].length = data.blocks /\ boot.uuid = Uuid(data) /\ Sealed
    BY <2>1 DEF EmmcValid, Fits, DosMbr, ConfiguredRoot
  <2>3. loader.mbr \in Seq([type : {"fat16", "linux"}, start : {"boot", "data"},
                            length : Nat, bootable : BOOLEAN])
    BY <1>1 DEF Tables
  <2>4. loader.mbr[2] \in Range(loader.mbr)
    BY <2>2, <2>3 DEF Range
  <2>5. QED  BY <1>2, <1>3, <2>2, <2>4, WholeFile
<1>4. CASE layout = "ophub"
  <2>1. OphubValid
    BY <1>1, <1>4 DEF Checked
  <2>2. Accepts(data) /\ data.blocks <= Room /\ Len(loader.mbr) = 1
        /\ loader.mbr[1].type = "linux" /\ loader.mbr[1].start = "data"
        /\ loader.mbr[1].length = data.blocks /\ Sealed
    BY <2>1 DEF OphubValid, Fits, RootfsMbr
  <2>3. loader.mbr \in Seq([type : {"fat16", "linux"}, start : {"boot", "data"},
                            length : Nat, bootable : BOOLEAN])
    BY <1>1 DEF Tables
  <2>4. loader.mbr[1] \in Range(loader.mbr)
    BY <2>2, <2>3 DEF Range
  <2>5. QED  BY <1>2, <1>4, <2>2, <2>4, WholeFile
<1>5. CASE layout = "vendor"
  <2>1. VendorValid
    BY <1>1, <1>5 DEF Checked
  <2>2. loader = Stock /\ DtbRoles /\ Uuid(data) # 0 /\ boot.uuid = Uuid(data)
    BY <2>1 DEF VendorValid
  <2>3. Sealed
    BY <2>2 DEF Sealed, Stock
  <2>4. slot = boot.tree
    BY <2>2 DEF DtbRoles, SecondTree
  <2>5. data.count > 0
    BY <2>2 DEF Uuid
  <2>6. QED  BY <1>5, <2>2, <2>3, <2>4, <2>5, WholeFile
<1>6. QED  BY <1>1, <1>3, <1>4, <1>5

\* What the checks of a package are for: accepted means it starts, after any
\* sequence of commands, interruptions and rebuilds.
THEOREM AcceptedStarts == Spec => []AcceptedBoots
BY Invariance, IInvBoots, PTL

-----------------------------------------------------------------------------
(* Good packages are not refused.                                          *)

\* Made by the commands of its layout from one root file system, none of them
\* interrupted, and no larger than the data partition.
WellMade ==
    /\ data.count > 0 /\ ~Cut
    /\ layout # "vendor" => loader.sealed = loader.mbr /\ Len(source) <= Room
    /\ layout = "emmc" =>
          /\ loader.mbr = <<Entry("fat16", "boot", BootLength, FALSE),
                            Entry("linux", "data", Len(source), FALSE)>>
          /\ boot.kind = "fat"
    /\ layout = "ophub" => loader.mbr = <<Entry("linux", "data", Len(source), TRUE)>>
    /\ layout = "vendor" => loader = Stock /\ boot.kind = "android" /\ slot = boot.tree
    /\ layout # "ophub" => boot.uuid = UuidOf[source[1]]

LEMMA TableFacts ==
    /\ \A e : Len(<<e>>) = 1 /\ <<e>>[1] = e
    /\ \A e, f : Len(<<e, f>>) = 2 /\ <<e, f>>[1] = e /\ <<e, f>>[2] = f
OBVIOUS

LEMMA WellMadeValid ==
    ASSUME IInv, WellMade
    PROVE  /\ layout = "emmc" => EmmcValid
           /\ layout = "ophub" => OphubValid
           /\ layout = "vendor" => VendorValid
<1>1. /\ Accepts(data) /\ Uuid(data) = UuidOf[source[1]]
      /\ data.blocks = Len(source)
  BY IInvFaithful DEF WellMade, SparseFaithful, IInv, Finished
<1>2. UuidOf[source[1]] # 0
  BY RootFacts, SparseAssumption DEF IInv, Shapes, Roots, Range
<1>3. layout # "vendor" => Fits /\ Uuid(data) # 0 /\ Sealed
  BY <1>1, <1>2 DEF WellMade, Fits, Sealed
<1>4. CASE layout = "emmc"
  <2> DEFINE t == loader.mbr
  <2>1. /\ Len(t) = 2
        /\ t[1] = Entry("fat16", "boot", BootLength, FALSE)
        /\ t[2] = Entry("linux", "data", Len(source), FALSE)
    <3>1. t = <<Entry("fat16", "boot", BootLength, FALSE),
                Entry("linux", "data", Len(source), FALSE)>>
      BY <1>4 DEF WellMade
    <3> HIDE DEF t
    <3>2. QED  BY <3>1, TableFacts
  <2>2. /\ t[1].type = "fat16" /\ t[1].start = "boot" /\ t[1].length = BootLength
        /\ t[2].type = "linux" /\ t[2].start = "data" /\ t[2].length = Len(source)
    BY <2>1 DEF Entry
  <2>3. boot.kind = "fat" /\ boot.uuid = UuidOf[source[1]]
    BY <1>4 DEF WellMade
  <2>4. QED
    BY <1>1, <1>3, <1>4, <2>1, <2>2, <2>3 DEF EmmcValid, DosMbr, FatBoot, ConfiguredRoot
<1>5. CASE layout = "ophub"
  <2> DEFINE t == loader.mbr
  <2>1. Len(t) = 1 /\ t[1] = Entry("linux", "data", Len(source), TRUE)
    <3>1. t = <<Entry("linux", "data", Len(source), TRUE)>>
      BY <1>5 DEF WellMade
    <3> HIDE DEF t
    <3>2. QED  BY <3>1, TableFacts
  <2>2. t[1].type = "linux" /\ t[1].start = "data" /\ t[1].length = Len(source) /\ t[1].bootable
    BY <2>1 DEF Entry
  <2>3. QED
    BY <1>1, <1>3, <1>5, <2>1, <2>2 DEF OphubValid, RootfsMbr
<1>6. CASE layout = "vendor"
  <2>1. boot.kind = "android" /\ slot = boot.tree /\ loader = Stock
        /\ boot.uuid = UuidOf[source[1]]
    BY <1>6 DEF WellMade
  <2>2. boot.tree \in Trees /\ boot.tree # 0
    BY <2>1, PackageAssumption DEF IInv, Shapes, NoBoot
  <2>3. QED
    BY <1>1, <1>2, <1>6, <2>1, <2>2 DEF VendorValid, DtbRoles, SecondTree
<1>7. QED
  BY <1>4, <1>5, <1>6

\* The other side of AcceptedStarts: the checks before packing and after
\* unpacking accept every package of the three layouts that was made in one go
\* and fits, whatever the root file system looks like and however its zero and
\* other blocks alternate.
THEOREM WellMadeAccepted ==
    Spec => [][Check /\ WellMade => verdict' = "accepted"]_vars
<1>1. ASSUME IInv, Check, WellMade  PROVE verdict' = "accepted"
  <2>1. layout \in {"emmc", "ophub", "vendor"}
    BY <1>1, PackageAssumption DEF IInv, Shapes
  <2>2. QED
    BY <1>1, <2>1, WellMadeValid DEF Check
<1>2. IInv /\ [Next]_vars => [Check /\ WellMade => verdict' = "accepted"]_vars
  BY <1>1
<1>3. QED
  BY Invariance, <1>2, PTL DEF Spec
=============================================================================
