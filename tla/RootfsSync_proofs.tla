-------------------------- MODULE RootfsSync_proofs --------------------------
(***************************************************************************)
(* Theorems about RootfsSync, for any two trees of any depth and any       *)
(* number of commands that run out of space, whether debugfs comes to the  *)
(* end of them or not.  The invariant says of every path where it is on    *)
(* its way from one tree to the other.                                     *)
(***************************************************************************)
EXTENDS RootfsSync, SequenceTheorems, TLAPS

Paths == DOMAIN before \cup DOMAIN after

Pending(p) == \E op \in todo : op.path = p
Busy(p) == doing # <<>> /\ Head(doing).path = p
At(names, p) == Busy(p) /\ Head(doing).name \in names

\* debugfs has been run.
Ran == result \in {"run", "ok", "thrown"}

\* The mode and owner of p before its inode command.
OldMeta(p) == IF p \in Common \ Replaced THEN before[p].meta ELSE DefaultMeta

\* A node made by this call that has not got its mode and owner yet, or a
\* directory that is about to get new ones.
Unowned(p) ==
    /\ p \in DOMAIN image /\ p \in DOMAIN after
    /\ image[p].kind = after[p].kind /\ image[p].data = after[p].data
    /\ image[p].meta = OldMeta(p)

Right(p) ==
    /\ Pending(p) \/ At({"rm", "rmdir"}, p) => As(before, p)
    /\ At({"create"}, p) => p \notin DOMAIN image
    /\ At({"inode"}, p) => Unowned(p)
    /\ ~Pending(p) /\ ~Busy(p) => As(after, p)

\* What is left of operation op.
Doing(op) ==
    \/ op.kind = "remove" /\ doing = <<RemoveCommand(op.path)>>
    \/ /\ op.kind = "replace"
       /\ doing = <<RemoveCommand(op.path), Command("create", op.path), Command("inode", op.path)>>
    \/ /\ op.kind \notin {"remove", "metadata"}
       /\ doing = <<Command("create", op.path), Command("inode", op.path)>>
    \/ op.kind # "remove" /\ doing = <<Command("inode", op.path)>>

Stage ==
    doing # <<>> =>
        \E op \in Operations \ todo :
            Doing(op) /\ \A other \in todo : ~Earlier(other, op)

Untouched ==
    result \in {"plan", "refused"} =>
        image = before /\ todo = {} /\ doing = <<>> /\ failed = {}

OnTheWay ==
    Ran =>
        /\ Collects(after) /\ DOMAIN image \subseteq Paths
        /\ \A p \in DOMAIN image : IsNode(image[p])
        /\ \A p \in Paths : ~Spoiled(p) => Right(p)

Finished == result = "ok" => todo = {} /\ doing = <<>>

IInv == TypeOK /\ todo \subseteq Operations /\ Stage /\ Untouched /\ OnTheWay /\ Finished

-----------------------------------------------------------------------------
(* Paths and trees.                                                        *)

LEMMA PrefixFacts ==
  ASSUME NEW p \in Seq(Names), NEW q \in Seq(Names)
  PROVE  /\ IsStrictPrefix(p, q) <=> p \in Above(q)
         /\ IsStrictPrefix(p, q) => IsPrefix(p, q) /\ Len(p) < Len(q) /\ q # <<>>
         /\ \A r \in Seq(Names) : IsPrefix(p, q) /\ IsPrefix(q, r) => IsPrefix(p, r)
         /\ \A r \in Seq(Names) : IsPrefix(p, r) /\ IsPrefix(q, r) =>
                IsPrefix(p, q) \/ IsStrictPrefix(q, p)
<1>1. IsStrictPrefix(p, q) => p \in Above(q)
  <2>1. SUFFICES ASSUME IsStrictPrefix(p, q) PROVE p = SubSeq(q, 1, Len(p)) /\ Len(p) \in 0..Len(q) - 1
    BY DEF Above
  <2>2. QED
    BY <2>1 DEF IsStrictPrefix, IsPrefix
<1>2. p \in Above(q) => IsStrictPrefix(p, q)
  BY DEF Above, IsStrictPrefix, IsPrefix
<1>3. IsStrictPrefix(p, q) => IsPrefix(p, q) /\ Len(p) < Len(q) /\ q # <<>>
  BY DEF IsStrictPrefix, IsPrefix
<1>4. ASSUME NEW r \in Seq(Names), IsPrefix(p, q), IsPrefix(q, r) PROVE IsPrefix(p, r)
  BY <1>4 DEF IsPrefix
<1>5. ASSUME NEW r \in Seq(Names), IsPrefix(p, r), IsPrefix(q, r)
      PROVE  IsPrefix(p, q) \/ IsStrictPrefix(q, p)
  BY <1>5 DEF IsPrefix, IsStrictPrefix
<1>6. QED
  BY <1>1, <1>2, <1>3, <1>4, <1>5

LEMMA Parent ==
  ASSUME NEW p \in Seq(Names), p # <<>>
  PROVE  Front(p) \in Seq(Names) /\ IsStrictPrefix(Front(p), p)
  BY DEF Front, IsStrictPrefix, IsPrefix

LEMMA TreeFacts ==
  ASSUME TypeOK, NEW t \in {before, after}
  PROVE  /\ Root \in DOMAIN t /\ t[Root].kind = "directory"
         /\ DOMAIN t \subseteq Seq(Names)
         /\ \A p \in DOMAIN t : IsNode(t[p])
         /\ \A p \in DOMAIN t : \A q \in Seq(Names) :
                IsStrictPrefix(q, p) => q \in DOMAIN t /\ t[q].kind = "directory"
<1>1. t \in BeforeTrees \cup AfterTrees
  BY DEF TypeOK
<1>2. /\ DOMAIN t \subseteq Seq(Names) /\ IsTree(t)
      /\ \A p \in DOMAIN t : IsNode(t[p])
  BY <1>1, TreesAssumption
<1>3. QED
  BY <1>2, PrefixFacts DEF IsTree

-----------------------------------------------------------------------------
(* Operations.                                                             *)

LEMMA PhaseNumbers ==
  \A op : /\ op.kind = "remove" => Phase(op) = 1
          /\ op.kind = "replace" => Phase(op) = 2
          /\ op.kind = "directory" => Phase(op) = 3
          /\ op.kind = "file" => Phase(op) = 4
          /\ op.kind = "symlink" => Phase(op) = 5
          /\ op.kind = "metadata" => Phase(op) = 6
  BY DEF Phase, Phases

LEMMA OperationFacts ==
  ASSUME TypeOK, NEW op \in Operations
  PROVE  /\ op = [kind |-> op.kind, path |-> op.path]
         /\ op.path \in Paths
         /\ \/ op.kind = "remove" /\ op.path \in DOMAIN before \ DOMAIN after
            \/ op.kind = "replace" /\ op.path \in Replaced
            \/ /\ op.kind \in Kinds /\ op.path \in DOMAIN after \ DOMAIN before
               /\ after[op.path].kind = op.kind
            \/ /\ op.kind = "metadata" /\ op.path \in Common \ Replaced
               /\ before[op.path].kind = "directory" /\ after[op.path].kind = "directory"
         /\ op.kind \notin {"metadata"} => op.path # Root
<1>1. \/ op \in Op("remove", DOMAIN before \ DOMAIN after)
      \/ op \in Op("replace", Replaced)
      \/ \E kind \in Kinds : op \in Op(kind, {p \in DOMAIN after \ DOMAIN before : after[p].kind = kind})
      \/ op \in Op("metadata", {p \in Common \ Replaced : ~SameNode(p)})
  BY DEF Operations
<1>2. Root \in Common /\ Root \notin Replaced
  BY TreeFacts DEF Common, Replaced
<1>3. CASE op \in Op("remove", DOMAIN before \ DOMAIN after)
  BY <1>2, <1>3 DEF Op, Paths, Common
<1>4. CASE op \in Op("replace", Replaced)
  BY <1>2, <1>4 DEF Op, Paths, Common, Replaced
<1>5. ASSUME NEW kind \in Kinds, op \in Op(kind, {p \in DOMAIN after \ DOMAIN before : after[p].kind = kind})
      PROVE  /\ op = [kind |-> op.kind, path |-> op.path] /\ op.path \in Paths /\ op.path # Root
             /\ op.kind \in Kinds /\ op.path \in DOMAIN after \ DOMAIN before
             /\ after[op.path].kind = op.kind
  BY <1>2, <1>5 DEF Op, Paths, Common
<1>6. CASE op \in Op("metadata", {p \in Common \ Replaced : ~SameNode(p)})
  <2>1. PICK p \in Common \ Replaced : ~SameNode(p) /\ op = [kind |-> "metadata", path |-> p]
    BY <1>6 DEF Op
  <2>2. before[p].kind = "directory" /\ after[p].kind = "directory"
    BY <2>1 DEF Replaced
  <2>3. QED
    BY <2>1, <2>2 DEF Paths, Common
<1>7. QED
  BY <1>1, <1>3, <1>4, <1>5, <1>6

\* A path has at most one operation, and none when it is as wanted.
LEMMA OneOperation ==
  ASSUME TypeOK, NEW op \in Operations, NEW other \in Operations, op.path = other.path
  PROVE  op = other
<1>1. /\ op = [kind |-> op.kind, path |-> op.path]
      /\ other = [kind |-> other.kind, path |-> other.path]
  BY OperationFacts
<1>2. op.kind = other.kind
  BY OperationFacts DEF Common, Replaced, Kinds
<1>3. QED
  BY <1>1, <1>2

LEMMA NoOperation ==
  ASSUME TypeOK, Collects(after), NEW p \in Paths, \A op \in Operations : op.path # p
  PROVE  p \in DOMAIN before /\ p \in DOMAIN after /\ before[p] = after[p]
<1>1. p \in DOMAIN after
  <2>1. SUFFICES ASSUME p \in DOMAIN before \ DOMAIN after PROVE FALSE
    BY DEF Paths
  <2>2. [kind |-> "remove", path |-> p] \in Operations
    BY <2>1 DEF Operations, Op
  <2>3. QED
    BY <2>2
<1>2. p \in DOMAIN before
  <2>1. SUFFICES ASSUME p \notin DOMAIN before PROVE FALSE
    OBVIOUS
  <2>2. after[p].kind \in Kinds
    BY <1>1 DEF Collects
  <2>3. [kind |-> after[p].kind, path |-> p] \in Operations
    BY <1>1, <2>1, <2>2 DEF Operations, Op
  <2>4. QED
    BY <2>3
<1>3. p \notin Replaced
  <2>1. SUFFICES ASSUME p \in Replaced PROVE FALSE
    OBVIOUS
  <2>2. [kind |-> "replace", path |-> p] \in Operations
    BY <2>1 DEF Operations, Op
  <2>3. QED
    BY <2>2
<1>4. SameNode(p)
  <2>1. SUFFICES ASSUME ~SameNode(p) PROVE FALSE
    OBVIOUS
  <2>2. [kind |-> "metadata", path |-> p] \in Operations
    BY <1>1, <1>2, <1>3, <2>1 DEF Operations, Op, Common
  <2>3. QED
    BY <2>2
<1>5. before[p].kind = after[p].kind
  BY <1>1, <1>2, <1>3 DEF Common, Replaced
<1>6. IsNode(before[p]) /\ IsNode(after[p])
  BY <1>1, <1>2, TreeFacts
<1>7. QED
  BY <1>1, <1>2, <1>4, <1>5, <1>6 DEF SameNode, SameContent, IsNode

-----------------------------------------------------------------------------
(* The order of the operations.                                            *)

\* What creates the parent of a path, or changes its type, comes first.
LEMMA ParentFirst ==
  ASSUME TypeOK, NEW op \in Operations, op.kind \notin {"remove", "metadata"}
  PROVE  /\ op.path \in Seq(Names) /\ op.path # Root
         /\ Front(op.path) \in DOMAIN after /\ after[Front(op.path)].kind = "directory"
         /\ \A other \in Operations :
                other.path = Front(op.path) => other.kind = "metadata" \/ Earlier(other, op)
<1> DEFINE f == Front(op.path)
<1>1. op.path \in Seq(Names) /\ op.path # Root /\ op.path \in DOMAIN after
  BY OperationFacts, TreeFacts DEF Replaced, Common
<1>2. f \in Seq(Names) /\ IsStrictPrefix(f, op.path) /\ Len(f) < Len(op.path)
  BY <1>1, Parent, PrefixFacts DEF Root
<1>3. f \in DOMAIN after /\ after[f].kind = "directory"
  BY <1>1, <1>2, TreeFacts
<1>4. op.path \in DOMAIN before => f \in DOMAIN before
  BY <1>2, TreeFacts
<1>5. ASSUME NEW other \in Operations, other.path = f, other.kind # "metadata"
      PROVE  Earlier(other, op)
  <2>1. \/ op.kind = "replace" /\ op.path \in DOMAIN before
        \/ op.kind \in {"directory", "file", "symlink"}
    BY OperationFacts DEF Replaced, Common, Kinds
  <2>2. \/ other.kind = "replace"
        \/ other.kind = "directory" /\ f \notin DOMAIN before
    BY <1>3, <1>5, OperationFacts DEF Kinds
  <2>3. QED
    BY <1>2, <1>4, <1>5, <2>1, <2>2, PhaseNumbers DEF Earlier
<1>6. QED
  BY <1>1, <1>3, <1>5

\* What empties a directory comes before what removes it.
LEMMA ChildFirst ==
  ASSUME TypeOK, NEW op \in Operations, op.kind \in {"remove", "replace"},
         before[op.path].kind = "directory",
         NEW q \in Paths, IsStrictPrefix(op.path, q)
  PROVE  /\ q \notin DOMAIN after
         /\ \A other \in Operations : other.path = q => Earlier(other, op)
<1>1. op.path \in Seq(Names) /\ q \in Seq(Names)
  BY OperationFacts, TreeFacts DEF Paths
<1>2. op.path \notin DOMAIN after \/ after[op.path].kind # "directory"
  BY OperationFacts DEF Replaced, Common, Kinds
<1>3. q \notin DOMAIN after
  BY <1>1, <1>2, TreeFacts
<1>4. ASSUME NEW other \in Operations, other.path = q PROVE Earlier(other, op)
  <2>1. other.kind = "remove"
    BY <1>3, <1>4, OperationFacts DEF Replaced, Common
  <2>2. Len(other.path) > Len(op.path)
    BY <1>1, <1>4, PrefixFacts
  <2>3. QED
    BY <2>1, <2>2, PhaseNumbers DEF Earlier
<1>5. QED
  BY <1>3, <1>4

LEMMA DoingFacts ==
  ASSUME NEW op, Doing(op)
  PROVE  /\ doing # <<>> /\ Head(doing).path = op.path
         /\ \/ /\ Head(doing).name \in {"rm", "rmdir"} /\ Head(doing) = RemoveCommand(op.path)
               /\ \/ op.kind = "remove" /\ Tail(doing) = <<>>
                  \/ /\ op.kind = "replace"
                     /\ Tail(doing) = <<Command("create", op.path), Command("inode", op.path)>>
            \/ /\ Head(doing).name = "create" /\ op.kind \notin {"remove", "metadata"}
               /\ Tail(doing) = <<Command("inode", op.path)>>
            \/ /\ Head(doing).name = "inode" /\ op.kind # "remove"
               /\ Tail(doing) = <<>>
<1>1. /\ RemoveCommand(op.path).path = op.path
      /\ RemoveCommand(op.path).name \in {"rm", "rmdir"}
  BY DEF RemoveCommand, Command
<1>2. \A name : Command(name, op.path).path = op.path /\ Command(name, op.path).name = name
  BY DEF Command
<1>3. \A a, b, c : /\ Head(<<a, b, c>>) = a /\ Tail(<<a, b, c>>) = <<b, c>>
                   /\ Head(<<b, c>>) = b /\ Tail(<<b, c>>) = <<c>>
                   /\ Head(<<c>>) = c /\ Tail(<<c>>) = <<>>
                   /\ <<a, b, c>> # <<>> /\ <<b, c>> # <<>> /\ <<c>> # <<>>
  OBVIOUS
<1>4. CASE op.kind = "remove" /\ doing = <<RemoveCommand(op.path)>>
  BY <1>1, <1>3, <1>4
<1>5. CASE /\ op.kind = "replace"
           /\ doing = <<RemoveCommand(op.path), Command("create", op.path), Command("inode", op.path)>>
  BY <1>1, <1>3, <1>5
<1>6. CASE /\ op.kind \notin {"remove", "metadata"}
           /\ doing = <<Command("create", op.path), Command("inode", op.path)>>
  BY <1>2, <1>3, <1>6
<1>7. CASE op.kind # "remove" /\ doing = <<Command("inode", op.path)>>
  BY <1>2, <1>3, <1>7
<1>8. QED
  BY <1>4, <1>5, <1>6, <1>7 DEF Doing

-----------------------------------------------------------------------------
(* Every command applies.                                                  *)

LEMMA AppliesFacts ==
  ASSUME NEW c
  PROVE  /\ c.name = "rm" =>
              (Applies(c) <=> c.path \in DOMAIN image /\ image[c.path].kind # "directory")
         /\ c.name = "rmdir" =>
              (Applies(c) <=> /\ c.path \in DOMAIN image /\ image[c.path].kind = "directory"
                              /\ \A q \in DOMAIN image : ~IsStrictPrefix(c.path, q))
         /\ c.name = "create" =>
              (Applies(c) <=> /\ c.path \notin DOMAIN image
                              /\ Front(c.path) \in DOMAIN image
                              /\ image[Front(c.path)].kind = "directory")
         /\ c.name = "inode" => (Applies(c) <=> c.path \in DOMAIN image)
  BY DEF Applies

LEMMA CommandApplies ==
  ASSUME IInv, Ran
  PROVE  EveryCommandApplies
<1> DEFINE p == Head(doing).path
<1> SUFFICES ASSUME doing # <<>>, ~Spoiled(p) PROVE Applies(Head(doing))
  BY DEF EveryCommandApplies
<1>1. PICK op \in Operations \ todo : Doing(op) /\ \A other \in todo : ~Earlier(other, op)
  BY DEF IInv, Stage
<1>2. /\ TypeOK /\ todo \subseteq Operations /\ p = op.path /\ p \in Paths
      /\ p \in Seq(Names) /\ Right(p) /\ Busy(p) /\ DOMAIN image \subseteq Paths
      /\ Paths \subseteq Seq(Names)
      /\ \A r \in Paths : ~Spoiled(r) => Right(r)
  BY <1>1, DoingFacts, OperationFacts, TreeFacts DEF IInv, OnTheWay, Busy, Paths
<1>3. failed \subseteq DOMAIN after
  BY <1>2 DEF TypeOK
<1>4. CASE Head(doing).name \in {"rm", "rmdir"}
  <2>1. op.kind \in {"remove", "replace"} /\ Head(doing) = RemoveCommand(p)
    BY <1>1, <1>2, <1>4, DoingFacts
  <2>2. p \in DOMAIN before /\ p \in DOMAIN image /\ image[p] = before[p]
    <3>1. p \in DOMAIN before
      BY <1>1, <1>2, <2>1, OperationFacts DEF Replaced, Common, Kinds
    <3>2. As(before, p)
      BY <1>2, <1>4 DEF Right, At
    <3>3. QED
      BY <3>1, <3>2 DEF As
  <2>3. CASE before[p].kind # "directory"
    <3>1. Head(doing).name = "rm"
      BY <2>1, <2>3 DEF RemoveCommand, Command
    <3>2. QED
      BY <2>2, <2>3, <3>1, AppliesFacts
  <2>4. CASE before[p].kind = "directory"
    <3>1. ASSUME NEW q \in DOMAIN image, IsStrictPrefix(p, q) PROVE FALSE
      <4>1. /\ q \in Paths /\ q \in Seq(Names) /\ q \notin DOMAIN after /\ q # p
            /\ \A other \in Operations : other.path = q => Earlier(other, op)
        BY <1>1, <1>2, <2>1, <2>4, <3>1, ChildFirst, PrefixFacts
      <4>2. ~Pending(q) /\ ~Busy(q)
        BY <1>1, <1>2, <4>1 DEF Pending, Busy
      <4>3. ASSUME NEW r \in failed, IsPrefix(r, q) PROVE FALSE
        <5>1. r \in Paths /\ r \in Seq(Names) /\ IsPrefix(p, q)
          BY <1>2, <1>3, <3>1, <4>1, PrefixFacts DEF Paths
        <5>2. IsPrefix(r, p) \/ IsStrictPrefix(p, r)
          BY <1>2, <4>1, <4>3, <5>1, PrefixFacts
        <5>3. ~IsStrictPrefix(p, r)
          BY <1>1, <1>2, <1>3, <2>1, <2>4, <5>1, ChildFirst
        <5>4. QED
          BY <4>3, <5>2, <5>3 DEF Spoiled
      <4>4. Right(q)
        BY <1>2, <4>1, <4>3 DEF Spoiled
      <4>5. QED
        BY <3>1, <4>1, <4>2, <4>4 DEF Right, As
    <3>2. Head(doing).name = "rmdir"
      BY <2>1, <2>4 DEF RemoveCommand, Command
    <3>3. QED
      BY <2>2, <2>4, <3>1, <3>2, AppliesFacts
  <2>5. QED
    BY <2>3, <2>4
<1>5. CASE Head(doing).name = "create"
  <2> DEFINE f == Front(p)
  <2>1. op.kind \notin {"remove", "metadata"}
    BY <1>1, <1>5, DoingFacts
  <2>2. /\ p # Root /\ f \in DOMAIN after /\ after[f].kind = "directory"
        /\ \A other \in Operations :
               other.path = f => other.kind = "metadata" \/ Earlier(other, op)
    BY <1>1, <1>2, <2>1, ParentFirst
  <2>3. f \in Seq(Names) /\ f \in Paths /\ IsPrefix(f, p) /\ f # p
    BY <1>2, <2>2, Parent, PrefixFacts DEF Root, Paths
  <2>4. ~Spoiled(f)
    <3>1. SUFFICES ASSUME NEW r \in failed, IsPrefix(r, f) PROVE FALSE
      BY DEF Spoiled
    <3>2. r \in Seq(Names)
      BY <1>2, <1>3 DEF Paths
    <3>3. IsPrefix(r, p)
      BY <1>2, <2>3, <3>1, <3>2, PrefixFacts
    <3>4. QED
      BY <3>3 DEF Spoiled
  <2>5. Right(f) /\ ~Busy(f)
    BY <1>2, <2>3, <2>4 DEF Busy
  <2>6. f \in DOMAIN image /\ image[f].kind = "directory"
    <3>1. CASE Pending(f)
      <4>1. PICK other \in todo : other.path = f
        BY <3>1 DEF Pending
      <4>2. other.kind = "metadata"
        BY <1>1, <1>2, <2>2, <4>1
      <4>3. f \in DOMAIN before /\ before[f].kind = "directory"
        BY <1>2, <4>1, <4>2, OperationFacts DEF Common, Kinds
      <4>4. QED
        BY <2>5, <3>1, <4>3 DEF Right, As
    <3>2. CASE ~Pending(f)
      BY <2>2, <2>5, <3>2 DEF Right, As
    <3>3. QED
      BY <3>1, <3>2
  <2>7. p \notin DOMAIN image
    BY <1>2, <1>5 DEF Right, At
  <2>8. QED
    BY <1>5, <2>6, <2>7, AppliesFacts
<1>6. CASE Head(doing).name = "inode"
  BY <1>2, <1>6, AppliesFacts DEF Right, At, Unowned
<1>7. QED
  BY <1>1, <1>4, <1>5, <1>6, DoingFacts

-----------------------------------------------------------------------------
(* The image stays a tree, whatever applies.                               *)

LEMMA EffectFacts ==
  ASSUME NEW c
  PROVE  /\ c.name \in {"rm", "rmdir"} =>
              Effect(c) = [q \in DOMAIN image \ {c.path} |-> image[q]]
         /\ c.name = "create" =>
              Effect(c) = With(c.path, [after[c.path] EXCEPT !.meta = DefaultMeta])
         /\ c.name = "inode" =>
              Effect(c) = [image EXCEPT ![c.path].meta = after[c.path].meta]
  BY DEF Effect

Trunk ==
  /\ DOMAIN image \subseteq Seq(Names) /\ IsTree(image)
  /\ \A p \in DOMAIN image : IsNode(image[p]) /\ image[p].kind \in Kinds

LEMMA RemoveKeepsTree ==
  ASSUME Trunk, NEW c, c.name \in {"rm", "rmdir"}, Applies(c),
         c.path \in Seq(Names), c.path # Root, image' = Effect(c)
  PROVE  Trunk'
<1>1. image' = [q \in DOMAIN image \ {c.path} |-> image[q]]
  BY EffectFacts
<1>2. ASSUME NEW q \in DOMAIN image, c.path \in Above(q) PROVE FALSE
  <2>1. q \in Seq(Names) /\ IsStrictPrefix(c.path, q)
    BY <1>2, PrefixFacts DEF Trunk
  <2>2. image[c.path].kind = "directory"
    BY <1>2 DEF Trunk, IsTree
  <2>3. QED
    BY <1>2, <2>1, <2>2, AppliesFacts
<1>3. IsTree(image')
  BY <1>1, <1>2 DEF Trunk, IsTree
<1>4. QED
  BY <1>1, <1>3 DEF Trunk

LEMMA WithKeepsTree ==
  ASSUME Trunk, NEW c, c.name = "create", Applies(c), c.path \in Seq(Names), c.path # Root,
         NEW node, IsNode(node), node.kind \in Kinds, image' = With(c.path, node)
  PROVE  Trunk'
<1> DEFINE f == Front(c.path)
<1>1. /\ DOMAIN image' = DOMAIN image \cup {c.path} /\ image'[c.path] = node
      /\ \A q \in DOMAIN image \ {c.path} : image'[q] = image[q]
      /\ c.path \notin DOMAIN image /\ f \in DOMAIN image /\ image[f].kind = "directory"
  BY AppliesFacts DEF With
<1>2. ASSUME NEW q \in Above(c.path) PROVE q \in DOMAIN image /\ image[q].kind = "directory"
  <2>1. f \in Seq(Names) /\ Len(f) = Len(c.path) - 1 /\ f = SubSeq(c.path, 1, Len(c.path) - 1)
    BY DEF Front, Root
  <2>2. PICK n \in 0..Len(c.path) - 1 : q = SubSeq(c.path, 1, n)
    BY DEF Above
  <2>3. CASE n = Len(c.path) - 1
    BY <1>1, <2>1, <2>2, <2>3
  <2>4. CASE n # Len(c.path) - 1
    <3>1. n \in 0..Len(f) - 1 /\ q = SubSeq(f, 1, n)
      BY <2>1, <2>2, <2>4
    <3>2. q \in Above(f)
      BY <3>1 DEF Above
    <3>3. QED
      BY <1>1, <3>2 DEF Trunk, IsTree
  <2>5. QED
    BY <2>3, <2>4
<1>3. IsTree(image')
  <2>1. ASSUME NEW p \in DOMAIN image', NEW q \in Above(p)
        PROVE  q \in DOMAIN image /\ image[q].kind = "directory"
    BY <1>1, <1>2, <2>1 DEF Trunk, IsTree
  <2>2. QED
    BY <1>1, <2>1 DEF Trunk, IsTree
<1>4. QED
  BY <1>1, <1>3 DEF Trunk

LEMMA OwnerKeepsTree ==
  ASSUME Trunk, NEW c, c.name = "inode", Applies(c), image' = Effect(c)
  PROVE  /\ Trunk' /\ DOMAIN image' = DOMAIN image
         /\ \A q \in DOMAIN image \ {c.path} : image'[q] = image[q]
         /\ image'[c.path] = [image[c.path] EXCEPT !.meta = after[c.path].meta]
         /\ image'[c.path].kind = image[c.path].kind
         /\ image'[c.path].data = image[c.path].data
         /\ image'[c.path].meta = after[c.path].meta
<1>1. /\ DOMAIN image' = DOMAIN image
      /\ \A q \in DOMAIN image \ {c.path} : image'[q] = image[q]
      /\ c.path \in DOMAIN image
      /\ image'[c.path] = [image[c.path] EXCEPT !.meta = after[c.path].meta]
  <2>1. image' = [image EXCEPT ![c.path].meta = after[c.path].meta]
    BY EffectFacts
  <2>2. c.path \in DOMAIN image
    BY AppliesFacts
  <2>3. QED
    BY <2>1, <2>2
<1>2. IsNode(image[c.path])
  BY <1>1 DEF Trunk
<1>3. /\ IsNode(image'[c.path]) /\ image'[c.path].kind = image[c.path].kind
      /\ image'[c.path].data = image[c.path].data /\ image'[c.path].meta = after[c.path].meta
  BY <1>1, <1>2 DEF IsNode
<1>4. \A q \in DOMAIN image : image'[q].kind = image[q].kind /\ IsNode(image'[q])
  BY <1>1, <1>3 DEF Trunk
<1>5. IsTree(image')
  BY <1>1, <1>4 DEF Trunk, IsTree, Root
<1>6. QED
  BY <1>1, <1>3, <1>4, <1>5 DEF Trunk

LEMMA NewNode ==
  ASSUME TypeOK, Collects(after), NEW p \in DOMAIN after
  PROVE  LET n == [after[p] EXCEPT !.meta = DefaultMeta]
         IN  /\ IsNode(n) /\ n.kind = after[p].kind /\ n.data = after[p].data
             /\ n.meta = DefaultMeta /\ n.kind \in Kinds
<1>1. IsNode(after[p]) /\ after[p].kind \in Kinds
  BY TreeFacts DEF Collects
<1>2. QED
  BY <1>1 DEF IsNode

-----------------------------------------------------------------------------
(* The invariant.                                                          *)

LEMMA Three ==
  ASSUME NEW a, NEW b, NEW c
  PROVE  <<a>> \o <<b, c>> = <<a, b, c>>
<1> DEFINE S == {a, b, c}
           s == <<a>>
           t == <<b, c>>
           r == <<a, b, c>>
<1>1. /\ s \in Seq(S) /\ t \in Seq(S) /\ r \in Seq(S)
      /\ Len(s) = 1 /\ Len(t) = 2 /\ Len(r) = 3
  OBVIOUS
<1>2. s[1] = r[1] /\ t[1] = r[2] /\ t[2] = r[3]
  OBVIOUS
<1> HIDE DEF S, s, t, r
<1>3. /\ s \o t \in Seq(S) /\ Len(s \o t) = Len(s) + Len(t)
      /\ \A i \in 1..Len(s) + Len(t) :
             (s \o t)[i] = IF i <= Len(s) THEN s[i] ELSE t[i - Len(s)]
  <2>1. s \in Seq(S) /\ t \in Seq(S)
    BY <1>1
  <2>2. QED
    BY <2>1, ConcatProperties
<1>4. /\ Len(s \o t) = 3
      /\ (s \o t)[1] = s[1] /\ (s \o t)[2] = t[1] /\ (s \o t)[3] = t[2]
  BY <1>1, <1>3
<1>5. ASSUME NEW i \in 1..3 PROVE (s \o t)[i] = r[i]
  <2>1. i = 1 \/ i = 2 \/ i = 3
    OBVIOUS
  <2>2. QED
    BY <1>2, <1>4, <2>1
<1>6. s \o t = r
  BY <1>1, <1>3, <1>4, <1>5, SeqEqual
<1>7. QED
  BY <1>6 DEF s, t, r

LEMMA InitInv == Init => IInv
<1> SUFFICES ASSUME Init PROVE IInv
  OBVIOUS
<1>1. IsTree(before)
  BY TreesAssumption DEF Init
<1>2. TypeOK
  BY <1>1 DEF Init, TypeOK
<1>3. Stage /\ Untouched /\ OnTheWay /\ Finished /\ todo \subseteq Operations
  BY DEF Init, Stage, Untouched, OnTheWay, Ran, Finished
<1>4. QED
  BY <1>2, <1>3 DEF IInv

LEMMA OperationsStay ==
  ASSUME before' = before, after' = after
  PROVE  Operations' = Operations
  BY DEF Operations, Op, Replaced, Common, SameNode, SameContent

LEMMA OldMetaStays ==
  ASSUME before' = before, after' = after, NEW p
  PROVE  OldMeta(p)' = OldMeta(p)
  BY DEF OldMeta, Replaced, Common, SameNode, SameContent

\* What does not touch a path leaves it as right as it was.
LEMMA OtherPaths ==
  ASSUME NEW q, Right(q), ~Busy(q), ~Busy(q)', Pending(q)' <=> Pending(q),
         before' = before, after' = after,
         q \in DOMAIN image' <=> q \in DOMAIN image,
         q \in DOMAIN image => image'[q] = image[q]
  PROVE  Right(q)'
  BY OldMetaStays DEF Right, At, As

LEMMA PlanStep ==
  ASSUME IInv, Plan
  PROVE  IInv'
<1>1. TypeOK /\ image = before /\ todo = {} /\ doing = <<>> /\ failed = {}
  BY DEF IInv, Untouched, Plan
<1>2. before' = before /\ after' = after /\ image' = image /\ doing' = doing /\ failed' = failed
  BY DEF Plan
<1>3. Operations' = Operations /\ Stage'
  BY <1>1, <1>2, OperationsStay DEF Stage
<1>4. CASE result' = "refused" /\ todo' = todo
  <2>1. TypeOK'
    BY <1>1, <1>2, <1>4 DEF TypeOK
  <2>2. QED
    BY <1>1, <1>2, <1>3, <1>4, <2>1 DEF IInv, Untouched, OnTheWay, Ran, Finished
<1>5. CASE result' = "run" /\ todo' = Operations /\ Collects(before) /\ Collects(after)
  <2>1. TypeOK'
    BY <1>1, <1>2, <1>5, OperationFacts DEF TypeOK, Paths, Collects
  <2>2. ASSUME NEW q \in Paths PROVE Right(q)'
    <3>1. As(before, q)' /\ ~Busy(q)'
      BY <1>1, <1>2 DEF As, Busy
    <3>2. ~Pending(q)' => As(after, q)'
      BY <1>1, <1>2, <1>5, NoOperation DEF Pending, As
    <3>3. QED
      BY <3>1, <3>2, <1>2 DEF Right, At
  <2>3. \A q \in DOMAIN image : IsNode(image[q])
    BY <1>1, TreeFacts
  <2>4. OnTheWay'
    BY <1>1, <1>2, <1>5, <2>2, <2>3 DEF OnTheWay, Collects, Paths
  <2>5. QED
    BY <1>3, <1>5, <2>1, <2>4 DEF IInv, Untouched, Finished
<1>6. QED
  BY <1>4, <1>5 DEF Plan

LEMMA BeginStep ==
  ASSUME IInv, Begin
  PROVE  IInv'
<1>1. /\ TypeOK /\ result = "run" /\ doing = <<>> /\ todo \subseteq Operations
      /\ Collects(after) /\ DOMAIN image \subseteq Paths
      /\ \A p \in DOMAIN image : IsNode(image[p])
      /\ \A q \in Paths : ~Spoiled(q) => Right(q)
  BY DEF IInv, Begin, OnTheWay, Ran
<1>2. UNCHANGED <<before, after, image, failed, result>>
  BY DEF Begin
<1>3. PICK op \in todo : /\ \A other \in todo : ~Earlier(other, op)
                         /\ todo' = todo \ {op} /\ doing' = CommandsOf(op)
  BY DEF Begin
<1> DEFINE p == op.path
<1>4. Operations' = Operations /\ op \in Operations
  BY <1>1, <1>2, <1>3, OperationsStay
<1>5. Doing(op)'
  <2>1. /\ op.kind = "remove" => CommandsOf(op) = <<RemoveCommand(p)>>
        /\ op.kind = "replace" => CommandsOf(op) = <<RemoveCommand(p)>> \o CreateCommands(p)
        /\ op.kind = "metadata" => CommandsOf(op) = <<Command("inode", p)>>
        /\ op.kind \notin {"remove", "replace", "metadata"} => CommandsOf(op) = CreateCommands(p)
    BY DEF CommandsOf
  <2>2. RemoveCommand(p)' = RemoveCommand(p)
    BY <1>2 DEF RemoveCommand
  <2>3. QED
    BY <1>3, <2>1, <2>2, Three DEF Doing, CreateCommands
<1>6. Stage'
  BY <1>3, <1>4, <1>5 DEF Stage, Earlier
<1>7. TypeOK'
  BY <1>1, <1>2, <1>3 DEF TypeOK
<1>8. /\ doing' # <<>> /\ Head(doing').path = p
      /\ \/ Head(doing').name \in {"rm", "rmdir"} /\ op.kind \in {"remove", "replace"}
         \/ Head(doing').name = "create" /\ op.kind \notin {"remove", "replace", "metadata"}
         \/ Head(doing').name = "inode" /\ op.kind = "metadata"
  <2>1. /\ RemoveCommand(p).path = p /\ RemoveCommand(p).name \in {"rm", "rmdir"}
        /\ \A name : Command(name, p).path = p /\ Command(name, p).name = name
    BY DEF RemoveCommand, Command
  <2>2. \A a, b, c : /\ Head(<<a, b, c>>) = a /\ <<a, b, c>> # <<>>
                     /\ Head(<<b, c>>) = b /\ <<b, c>> # <<>>
                     /\ Head(<<c>>) = c /\ <<c>> # <<>>
    OBVIOUS
  <2>3. CASE op.kind = "remove"
    BY <1>3, <2>1, <2>2, <2>3 DEF CommandsOf
  <2>4. CASE op.kind = "replace"
    BY <1>3, <2>1, <2>2, <2>4, Three DEF CommandsOf, CreateCommands
  <2>5. CASE op.kind = "metadata"
    BY <1>3, <2>1, <2>2, <2>5 DEF CommandsOf
  <2>6. CASE op.kind \notin {"remove", "replace", "metadata"}
    BY <1>3, <2>1, <2>2, <2>6 DEF CommandsOf, CreateCommands
  <2>7. QED
    BY <2>3, <2>4, <2>5, <2>6
<1>9. ASSUME NEW q \in Paths, ~Spoiled(q) PROVE Right(q)'
  <2>1. Right(q) /\ ~Busy(q)
    BY <1>1, <1>9 DEF Busy
  <2>2. CASE q # p
    <3>1. ~Busy(q)'
      BY <1>8, <2>2 DEF Busy
    <3>2. Pending(q)' <=> Pending(q)
      BY <1>3, <2>2 DEF Pending
    <3>3. QED
      BY <1>2, <2>1, <3>1, <3>2, OtherPaths
  <2>3. CASE q = p
    <3>1. As(before, q)
      BY <1>3, <2>1, <2>3 DEF Right, Pending
    <3>2. ~Pending(q)' /\ Busy(q)'
      <4>1. ASSUME NEW other \in todo', other.path = q PROVE FALSE
        BY <1>1, <1>3, <1>4, <2>3, <4>1, OneOperation
      <4>2. QED
        BY <1>8, <2>3, <4>1 DEF Pending, Busy
    <3>3. CASE Head(doing').name \in {"rm", "rmdir"}
      BY <1>2, <3>1, <3>2, <3>3 DEF Right, At, As
    <3>4. CASE Head(doing').name = "create" /\ op.kind \notin {"remove", "replace", "metadata"}
      <4>1. p \notin DOMAIN image
        BY <1>1, <1>4, <2>3, <3>1, <3>4, OperationFacts DEF As
      <4>2. QED
        BY <1>2, <2>3, <3>2, <3>4, <4>1 DEF Right, At
    <3>5. CASE Head(doing').name = "inode" /\ op.kind = "metadata"
      <4>1. /\ p \in DOMAIN before /\ p \in DOMAIN after /\ p \in Common \ Replaced
            /\ before[p].kind = "directory" /\ after[p].kind = "directory"
        BY <1>1, <1>4, <3>5, OperationFacts DEF Common, Kinds
      <4>2. Unowned(p)
        BY <1>1, <2>3, <3>1, <4>1, TreeFacts DEF As, Unowned, OldMeta, IsNode
      <4>3. QED
        BY <1>2, <2>3, <3>2, <3>5, <4>2, OldMetaStays DEF Right, At, Unowned
    <3>6. QED
      BY <1>8, <3>3, <3>4, <3>5
  <2>4. QED
    BY <2>2, <2>3
<1>10. OnTheWay'
  BY <1>1, <1>2, <1>9 DEF OnTheWay, Collects, Paths, Spoiled
<1>11. QED
  BY <1>1, <1>2, <1>3, <1>4, <1>6, <1>7, <1>10 DEF IInv, Untouched, Finished

\* What the steps of debugfs have in common: they are at one command, p is its
\* path, and they are through with it.
CommandDone ==
  /\ result = "run" /\ doing # <<>> /\ doing' = Tail(doing)
  /\ UNCHANGED <<before, after, todo, result>>

LEMMA CommandFacts ==
  ASSUME IInv, CommandDone, NEW p, p = Head(doing).path
  PROVE  /\ TypeOK /\ Collects(after) /\ p \in Paths /\ p \in Seq(Names)
         /\ DOMAIN image \subseteq Paths /\ Paths \subseteq Seq(Names)
         /\ Paths' = Paths /\ (todo \subseteq Operations)' /\ Stage'
         /\ doing' # <<>> => Head(doing').path = p
         /\ ~Pending(p) /\ ~Pending(p)'
         /\ Head(doing).name \in {"rm", "rmdir"} =>
                p # Root /\ ((doing' = <<>> /\ p \notin DOMAIN after) \/ At({"create"}, p)')
         /\ Head(doing).name = "create" =>
                /\ p # Root /\ p \in DOMAIN after /\ p \notin Common \ Replaced
                /\ At({"inode"}, p)'
         /\ Head(doing).name = "inode" => doing' = <<>> /\ p \in DOMAIN after
         /\ Head(doing).name \in {"rm", "rmdir", "create", "inode"}
         /\ Trunk
<1>1. /\ TypeOK /\ Collects(after) /\ DOMAIN image \subseteq Paths /\ todo \subseteq Operations
      /\ \A q \in DOMAIN image : IsNode(image[q])
  BY DEF IInv, OnTheWay, Ran, CommandDone
<1>2. Paths \subseteq Seq(Names) /\ Paths' = Paths /\ Operations' = Operations
  BY <1>1, TreeFacts, OperationsStay DEF Paths, CommandDone
<1>3. PICK op \in Operations \ todo : Doing(op) /\ \A other \in todo : ~Earlier(other, op)
  BY DEF IInv, Stage, CommandDone
<1>4. p = op.path /\ p \in Paths /\ (op.kind # "metadata" => p # Root)
  BY <1>1, <1>3, DoingFacts, OperationFacts
<1>5. /\ op.kind = "remove" => p \notin DOMAIN after
      /\ op.kind # "remove" => p \in DOMAIN after
      /\ op.kind \notin {"remove", "metadata"} => p \notin Common \ Replaced
  BY <1>1, <1>3, <1>4, OperationFacts DEF Replaced, Common, Kinds
<1>6. ~Pending(p) /\ ~Pending(p)'
  <2>1. ASSUME NEW other \in todo, other.path = p PROVE FALSE
    BY <1>1, <1>3, <1>4, <2>1, OneOperation
  <2>2. QED
    BY <2>1 DEF Pending, CommandDone
<1>7. \A a, b : /\ Head(<<a, b>>) = a /\ <<a, b>> # <<>>
                /\ Head(<<b>>) = b /\ <<b>> # <<>>
  OBVIOUS
<1>8. \A name : Command(name, p).path = p /\ Command(name, p).name = name
  BY DEF Command
<1>9. Trunk
  BY <1>1, <1>2 DEF Trunk, TypeOK, CommandDone
<1>10. CASE /\ Head(doing).name \in {"rm", "rmdir"} /\ op.kind = "remove" /\ Tail(doing) = <<>>
  BY <1>1, <1>2, <1>4, <1>5, <1>6, <1>9, <1>10 DEF CommandDone, Stage
<1>11. CASE /\ Head(doing).name \in {"rm", "rmdir"} /\ op.kind = "replace"
            /\ Tail(doing) = <<Command("create", p), Command("inode", p)>>
  <2>1. Doing(op)'
    BY <1>4, <1>11 DEF Doing, CommandDone
  <2>2. Stage'
    BY <1>2, <1>3, <2>1 DEF Stage, CommandDone, Earlier
  <2>3. Head(doing') = Command("create", p) /\ doing' # <<>>
    BY <1>7, <1>11 DEF CommandDone
  <2>4. Head(doing').name = "create" /\ Head(doing').path = p
    BY <1>8, <2>3
  <2>5. At({"create"}, p)'
    BY <2>3, <2>4 DEF At, Busy
  <2>6. QED
    BY <1>1, <1>2, <1>4, <1>5, <1>6, <1>9, <1>11, <2>2, <2>4, <2>5 DEF CommandDone
<1>12. CASE /\ Head(doing).name = "create" /\ op.kind \notin {"remove", "metadata"}
            /\ Tail(doing) = <<Command("inode", p)>>
  <2>1. Doing(op)'
    BY <1>4, <1>12 DEF Doing, CommandDone
  <2>2. Stage'
    BY <1>2, <1>3, <2>1 DEF Stage, CommandDone, Earlier
  <2>3. Head(doing') = Command("inode", p) /\ doing' # <<>>
    BY <1>7, <1>12 DEF CommandDone
  <2>4. Head(doing').name = "inode" /\ Head(doing').path = p
    BY <1>8, <2>3
  <2>5. At({"inode"}, p)'
    BY <2>3, <2>4 DEF At, Busy
  <2>6. QED
    BY <1>1, <1>2, <1>4, <1>5, <1>6, <1>9, <1>12, <2>2, <2>4, <2>5 DEF CommandDone
<1>13. CASE Head(doing).name = "inode" /\ op.kind # "remove" /\ Tail(doing) = <<>>
  BY <1>1, <1>2, <1>4, <1>5, <1>6, <1>9, <1>13 DEF CommandDone, Stage
<1>14. QED
  BY <1>3, <1>4, <1>10, <1>11, <1>12, <1>13, DoingFacts

\* A step at p is as good as what it makes of p, or spoils p.
LEMMA CommandStep ==
  ASSUME IInv, CommandDone, NEW p, p = Head(doing).path,
         Trunk', DOMAIN image' \subseteq DOMAIN image \cup {p},
         \A q \in (DOMAIN image \cup DOMAIN image') \ {p} :
             q \in DOMAIN image /\ q \in DOMAIN image' /\ image'[q] = image[q],
         failed \subseteq failed', failed' \subseteq DOMAIN after,
         ~Spoiled(p)' => Right(p)'
  PROVE  IInv'
<1>1. \A q : ~Spoiled(q)' => ~Spoiled(q)
  BY DEF Spoiled
<1>2. ASSUME NEW q \in Paths, ~Spoiled(q)' PROVE Right(q)'
  <2>1. CASE q = p
    BY <1>2, <2>1
  <2>2. CASE q # p
    <3>1. Right(q)
      BY <1>1, <1>2 DEF IInv, OnTheWay, Ran, CommandDone
    <3>2. ~Busy(q) /\ ~Busy(q)'
      BY <2>2, CommandFacts DEF Busy
    <3>3. Pending(q)' <=> Pending(q)
      BY DEF Pending, CommandDone
    <3>4. QED
      BY <2>2, <3>1, <3>2, <3>3, OtherPaths DEF CommandDone
  <2>3. QED
    BY <2>1, <2>2
<1>3. DOMAIN image' \subseteq Paths
  BY CommandFacts
<1>4. OnTheWay'
  BY <1>2, <1>3, CommandFacts DEF OnTheWay, Ran, Collects, CommandDone, Trunk
<1>5. TypeOK'
  BY CommandFacts DEF TypeOK, Trunk, CommandDone
<1>6. QED
  BY <1>4, <1>5, CommandFacts DEF IInv, Untouched, Finished, CommandDone

LEMMA ExecuteStep ==
  ASSUME IInv, Execute
  PROVE  IInv'
<1>0. PICK c, p : c = Head(doing) /\ p = c.path
  OBVIOUS
<1>1. CommandDone /\ failed' = failed /\ c = Head(doing) /\ p = c.path /\ p = Head(doing).path
  BY <1>0 DEF Execute, CommandDone
<1>2. failed \subseteq DOMAIN after /\ Trunk /\ p \in Seq(Names)
  BY <1>1, CommandFacts DEF IInv, TypeOK
<1>3. CASE ~Applies(c)
  <2>1. image' = image
    BY <1>1, <1>3 DEF Execute
  <2>2. Spoiled(p)
    BY <1>1, <1>3, CommandApplies DEF CommandDone, Ran, EveryCommandApplies
  <2>3. Spoiled(p)'
    BY <1>1, <2>2 DEF Spoiled
  <2>4. Trunk'
    BY <1>2, <2>1 DEF Trunk, IsTree
  <2>5. QED
    BY <1>1, <1>2, <2>1, <2>3, <2>4, CommandStep
<1>4. CASE Applies(c)
  <2>1. image' = Effect(c)
    BY <1>1, <1>4 DEF Execute
  <2>2. CASE c.name \in {"rm", "rmdir"}
    <3>1. image' = [q \in DOMAIN image \ {p} |-> image[q]]
      BY <1>1, <2>1, <2>2, EffectFacts
    <3>2. Trunk'
      BY <1>1, <1>2, <1>4, <2>1, <2>2, CommandFacts, RemoveKeepsTree
    <3>3. p \notin DOMAIN image'
      BY <3>1
    <3>4. Right(p)'
      <4>1. ~Pending(p)'
        BY <1>1, CommandFacts
      <4>2. CASE doing' = <<>> /\ p \notin DOMAIN after
        BY <1>1, <3>3, <4>1, <4>2 DEF Right, At, Busy, As, CommandDone
      <4>3. CASE At({"create"}, p)'
        BY <3>3, <4>1, <4>3 DEF Right, At
      <4>4. QED
        BY <1>1, <2>2, <4>2, <4>3, CommandFacts
    <3>5. QED
      BY <1>1, <1>2, <3>1, <3>2, <3>4, CommandStep
  <2>3. CASE c.name = "create"
    <3> DEFINE n == [after[p] EXCEPT !.meta = DefaultMeta]
    <3>1. image' = With(p, n)
      BY <1>1, <2>1, <2>3, EffectFacts
    <3>2. /\ p \in DOMAIN after /\ p # Root /\ At({"inode"}, p)' /\ ~Pending(p)'
          /\ TypeOK /\ Collects(after) /\ p \notin Common \ Replaced
      BY <1>1, <2>3, CommandFacts
    <3>3. /\ IsNode(n) /\ n.kind = after[p].kind /\ n.data = after[p].data
          /\ n.meta = DefaultMeta /\ n.kind \in Kinds
      BY <3>2, NewNode
    <3>4. Trunk'
      BY <1>1, <1>2, <1>4, <2>3, <3>1, <3>2, <3>3, WithKeepsTree
    <3>5. /\ DOMAIN image' = DOMAIN image \cup {p} /\ image'[p] = n
          /\ \A q \in DOMAIN image \ {p} : image'[q] = image[q]
          /\ p \notin DOMAIN image
      BY <1>1, <1>4, <2>3, <3>1, AppliesFacts DEF With
    <3>6. Unowned(p)'
      BY <1>1, <3>2, <3>3, <3>5, OldMetaStays DEF Unowned, OldMeta, CommandDone
    <3>7. Right(p)'
      BY <3>2, <3>6 DEF Right, At
    <3>8. QED
      BY <1>1, <1>2, <3>4, <3>5, <3>7, CommandStep
  <2>4. CASE c.name = "inode"
    <3>1. /\ Trunk' /\ DOMAIN image' = DOMAIN image
          /\ \A q \in DOMAIN image \ {p} : image'[q] = image[q]
          /\ image'[p].kind = image[p].kind /\ image'[p].data = image[p].data
          /\ image'[p].meta = after[p].meta
      <4>1. /\ Trunk' /\ DOMAIN image' = DOMAIN image
            /\ \A q \in DOMAIN image \ {c.path} : image'[q] = image[q]
            /\ image'[c.path].kind = image[c.path].kind
            /\ image'[c.path].data = image[c.path].data
            /\ image'[c.path].meta = after[c.path].meta
        BY <1>2, <1>4, <2>1, <2>4, OwnerKeepsTree
      <4>2. QED
        BY <1>1, <4>1
    <3>2. p \in DOMAIN after /\ doing' = <<>> /\ ~Pending(p)' /\ p \in Paths /\ TypeOK
      BY <1>1, <2>4, CommandFacts
    <3>3. ASSUME ~Spoiled(p)' PROVE Right(p)'
      <4>1. Right(p)
        BY <1>1, <3>2, <3>3 DEF IInv, OnTheWay, Ran, CommandDone, Spoiled
      <4>2. Unowned(p)
        BY <1>1, <2>4, <4>1 DEF Right, At, Busy, CommandDone
      <4>3. IsNode(image'[p]) /\ IsNode(after[p])
        BY <3>1, <3>2, <4>2, TreeFacts DEF Trunk, Unowned
      <4>4. image'[p] = after[p] /\ p \in DOMAIN image'
        BY <3>1, <4>2, <4>3 DEF Unowned, IsNode
      <4>5. As(after, p)'
        BY <1>1, <3>2, <4>4 DEF As, CommandDone
      <4>6. QED
        BY <3>2, <4>5 DEF Right, At, Busy
    <3>4. QED
      BY <1>1, <1>2, <3>1, <3>3, CommandStep
  <2>5. QED
    BY <1>1, <2>2, <2>3, <2>4, CommandFacts
<1>5. QED
  BY <1>3, <1>4

LEMMA NoSpaceStep ==
  ASSUME IInv, NoSpace
  PROVE  IInv'
<1> DEFINE cut == [kind |-> "file", meta |-> DefaultMeta, data |-> Partial]
<1>0. PICK c, p : c = Head(doing) /\ p = c.path
  OBVIOUS
<1>1. /\ CommandDone /\ failed' = failed \cup {p} /\ c.name = "create" /\ Applies(c)
      /\ c = Head(doing) /\ p = c.path /\ p = Head(doing).path
  BY <1>0 DEF NoSpace, CommandDone
<1>2. failed \subseteq DOMAIN after /\ Trunk /\ p \in Seq(Names) /\ p # Root /\ p \in DOMAIN after
  BY <1>1, CommandFacts DEF IInv, TypeOK
<1>3. Spoiled(p)'
  BY <1>1, <1>2 DEF Spoiled, IsPrefix
<1>4. image' = image \/ image' = With(p, cut)
  BY <1>1 DEF NoSpace, Remains
<1>5. CASE image' = image
  <2>1. Trunk'
    BY <1>2, <1>5 DEF Trunk, IsTree
  <2>2. QED
    BY <1>1, <1>2, <1>3, <1>5, <2>1, CommandStep
<1>6. CASE image' = With(p, cut)
  <2>1. IsNode(cut) /\ cut.kind \in Kinds
    BY DEF IsNode, Kinds
  <2>2. Trunk'
    BY <1>1, <1>2, <1>6, <2>1, WithKeepsTree
  <2>3. /\ DOMAIN image' = DOMAIN image \cup {p}
        /\ \A q \in DOMAIN image \ {p} : image'[q] = image[q]
        /\ p \notin DOMAIN image
    BY <1>1, <1>6, AppliesFacts DEF With
  <2>4. QED
    BY <1>1, <1>2, <1>3, <2>2, <2>3, CommandStep
<1>7. QED
  BY <1>4, <1>5, <1>6

LEMMA ReturnStep ==
  ASSUME IInv, Return \/ UNCHANGED vars
  PROVE  IInv'
<1>1. UNCHANGED <<before, after, image, todo, doing, failed>>
  BY DEF Return, vars
<1>2. Operations' = Operations
  BY <1>1, OperationsStay
<1>3. TypeOK' /\ (todo \subseteq Operations)' /\ Stage'
  <2>1. TypeOK'
    BY <1>1 DEF IInv, TypeOK, IsTree, Return, vars
  <2>2. Stage'
    BY <1>1, <1>2 DEF IInv, Stage, Doing, RemoveCommand, Command, Earlier
  <2>3. QED
    BY <1>1, <1>2, <2>1, <2>2 DEF IInv
<1>4. ASSUME NEW q, Right(q) PROVE Right(q)'
  BY <1>1, <1>4, OldMetaStays DEF Right, At, Busy, Pending, As, Unowned
<1>5. \A q : Spoiled(q)' <=> Spoiled(q)
  BY <1>1 DEF Spoiled
<1>6. OnTheWay'
  BY <1>1, <1>4, <1>5 DEF IInv, OnTheWay, Ran, Collects, Paths, Return, vars
<1>7. Untouched' /\ Finished'
  BY <1>1 DEF IInv, Untouched, Finished, Return, vars
<1>8. QED
  BY <1>3, <1>6, <1>7 DEF IInv

\* debugfs stops, between two commands or in one.
LEMMA BreakStep ==
  ASSUME IInv, Break
  PROVE  IInv'
<1> DEFINE p == Head(doing).path
           cut == [kind |-> "file", meta |-> DefaultMeta, data |-> Partial]
<1>1. UNCHANGED <<before, after, todo, doing>> /\ result = "run" /\ result' = "thrown"
  BY DEF Break
<1>2. Operations' = Operations /\ Paths' = Paths
  BY <1>1, OperationsStay DEF Paths
<1>3. Stage' /\ (todo \subseteq Operations)'
  BY <1>1, <1>2 DEF IInv, Stage, Doing, RemoveCommand, Command, Earlier
<1>4. /\ TypeOK /\ Collects(after) /\ DOMAIN image \subseteq Paths /\ Trunk
      /\ Paths \subseteq Seq(Names)
      /\ \A q \in Paths : ~Spoiled(q) => Right(q)
  <2>1. /\ TypeOK /\ Collects(after) /\ DOMAIN image \subseteq Paths
        /\ \A q \in DOMAIN image : IsNode(image[q])
        /\ \A q \in Paths : ~Spoiled(q) => Right(q)
    BY <1>1 DEF IInv, OnTheWay, Ran
  <2>2. Paths \subseteq Seq(Names)
    BY <2>1, TreeFacts DEF Paths
  <2>3. QED
    BY <1>1, <2>1, <2>2 DEF Trunk, TypeOK
<1>5. SUFFICES /\ Trunk' /\ DOMAIN image' \subseteq Paths /\ failed' \subseteq DOMAIN after
               /\ \A q \in Paths : ~Spoiled(q)' => Right(q)'
  <2>1. ASSUME Trunk', DOMAIN image' \subseteq Paths, failed' \subseteq DOMAIN after,
               \A q \in Paths : ~Spoiled(q)' => Right(q)'
        PROVE  IInv'
    <3>1. OnTheWay'
      BY <1>1, <1>2, <1>4, <2>1 DEF OnTheWay, Collects, Trunk
    <3>2. TypeOK'
      BY <1>1, <1>4, <2>1 DEF TypeOK, Trunk
    <3>3. QED
      BY <1>1, <1>3, <3>1, <3>2 DEF IInv, Untouched, Finished
  <2>2. QED
    BY <2>1
<1>6. CASE UNCHANGED <<image, failed>>
  <2>1. ASSUME NEW q, Right(q) PROVE Right(q)'
    BY <1>1, <1>6, <2>1, OldMetaStays DEF Right, At, Busy, Pending, As, Unowned
  <2>2. QED
    BY <1>4, <1>6, <2>1 DEF Trunk, IsTree, TypeOK, Spoiled
<1>7. CASE /\ doing # <<>> /\ Applies(Head(doing))
           /\ image' \in CutOff(Head(doing)) /\ failed' = failed \cup {p}
  <2>1. PICK c : c = Head(doing)
    OBVIOUS
  <2>2. PICK op \in Operations : Doing(op)
    BY <1>7 DEF IInv, Stage
  <2>3. /\ c.path = p /\ p \in Paths /\ p \in Seq(Names)
        /\ c.name \in {"create", "inode"} => op.kind # "remove" /\ p \in DOMAIN after
        /\ c.name = "create" => p # Root
        /\ c.name \in {"rm", "rmdir", "create", "inode"}
    BY <1>4, <2>1, <2>2, DoingFacts, OperationFacts DEF Replaced, Common, Kinds
  <2>4. /\ c.name \in {"create", "inode"}
        /\ c.name = "create" => image' = image \/ image' = With(c.path, cut)
        /\ c.name = "inode" => image' = [image EXCEPT ![c.path].meta = MixedMeta]
    BY <1>7, <2>1, <2>3 DEF CutOff, Remains
  <2>5. /\ Trunk' /\ DOMAIN image' \subseteq DOMAIN image \cup {p}
        /\ \A q \in (DOMAIN image \cup DOMAIN image') \ {p} :
               q \in DOMAIN image /\ q \in DOMAIN image' /\ image'[q] = image[q]
    <3>1. CASE image' = image
      BY <1>4, <3>1 DEF Trunk, IsTree
    <3>2. CASE c.name = "create" /\ image' = With(c.path, cut)
      <4>1. IsNode(cut) /\ cut.kind \in Kinds
        BY DEF IsNode, Kinds
      <4>2. Trunk'
        BY <1>4, <1>7, <2>1, <2>3, <3>2, <4>1, WithKeepsTree
      <4>3. QED
        BY <2>3, <3>2, <4>2 DEF With
    <3>3. CASE c.name = "inode" /\ image' = [image EXCEPT ![c.path].meta = MixedMeta]
      <4>1. c.path \in DOMAIN image /\ IsNode(image[c.path])
        BY <1>4, <1>7, <2>1, <3>3, AppliesFacts DEF Trunk
      <4>2. /\ DOMAIN image' = DOMAIN image
            /\ \A q \in DOMAIN image \ {c.path} : image'[q] = image[q]
            /\ image'[c.path] = [image[c.path] EXCEPT !.meta = MixedMeta]
        BY <3>3, <4>1
      <4>3. IsNode(image'[c.path]) /\ image'[c.path].kind = image[c.path].kind
        BY <4>1, <4>2 DEF IsNode
      <4>4. \A q \in DOMAIN image : image'[q].kind = image[q].kind /\ IsNode(image'[q])
        BY <1>4, <4>2, <4>3 DEF Trunk
      <4>5. IsTree(image')
        BY <1>4, <4>2, <4>4 DEF Trunk, IsTree, Root
      <4>6. QED
        BY <1>4, <2>3, <4>2, <4>4, <4>5 DEF Trunk
    <3>4. QED
      BY <2>4, <3>1, <3>2, <3>3
  <2>6. ASSUME NEW q \in Paths, ~Spoiled(q)' PROVE Right(q)'
    <3>1. ~Spoiled(q) /\ q # p
      BY <1>4, <1>7, <2>6 DEF Spoiled, IsPrefix
    <3>2. ~Busy(q) /\ ~Busy(q)' /\ (Pending(q)' <=> Pending(q))
      BY <1>1, <3>1 DEF Busy, Pending
    <3>3. QED
      BY <1>1, <1>4, <2>5, <3>1, <3>2, OtherPaths
  <2>7. QED
    BY <1>4, <1>7, <2>3, <2>4, <2>5, <2>6 DEF TypeOK
<1>8. QED
  BY <1>6, <1>7 DEF Break

\* The invariant of the synchronisation, for every pair of trees.
THEOREM Invariance == Spec => []IInv
<1>1. IInv /\ [Next]_vars => IInv'
  BY PlanStep, BeginStep, ExecuteStep, NoSpaceStep, ReturnStep,
     BreakStep DEF Next
<1>2. QED
  BY InitInv, <1>1, PTL DEF Spec

-----------------------------------------------------------------------------
(* What follows.                                                           *)

\* The types of the synchronisation: whatever fails, the image stays a tree.
THEOREM TypeCorrect == Spec => []TypeOK
<1>1. IInv => TypeOK
  BY DEF IInv
<1>2. QED
  BY Invariance, <1>1, PTL

\* The phases and sort keys of diffRootfsTrees put the commands in an order
\* debugfs can carry out, for trees of any depth and any mixture of changes.
THEOREM OrderApplies == Spec => []EveryCommandApplies
<1>1. IInv => EveryCommandApplies
  <2>1. SUFFICES ASSUME IInv, doing # <<>> PROVE Ran
    BY CommandApplies DEF EveryCommandApplies
  <2>2. QED
    BY <2>1 DEF IInv, Untouched, TypeOK, Ran
<1>2. QED
  BY Invariance, <1>1, PTL

\* Where a path can be that is right.
LEMMA RightPlaces ==
  ASSUME TypeOK, Stage, todo \subseteq Operations, NEW p \in Paths, Right(p),
         \A q \in DOMAIN image : IsNode(image[q])
  PROVE  As(before, p) \/ As(after, p) \/ Between(p)
<1>1. CASE Pending(p) \/ At({"rm", "rmdir"}, p)
  BY <1>1 DEF Right
<1>2. CASE ~Pending(p) /\ ~Busy(p)
  BY <1>2 DEF Right
<1>3. CASE Busy(p)
  <2>1. PICK op \in Operations : Doing(op)
    BY <1>3 DEF Stage, Busy
  <2>2. p = op.path
    BY <1>3, <2>1, DoingFacts DEF Busy
  <2>3. CASE At({"create"}, p)
    <3>1. op.kind \notin {"remove", "metadata"} /\ p \notin DOMAIN image
      BY <2>1, <2>3, DoingFacts DEF Right, At
    <3>2. p \in Replaced \/ p \notin DOMAIN before
      BY <2>2, <3>1, OperationFacts DEF Kinds
    <3>3. QED
      BY <3>1, <3>2 DEF Between, As
  <2>4. CASE At({"inode"}, p)
    <3>1. Unowned(p)
      BY <2>4 DEF Right
    <3>2. IsNode(image[p]) /\ IsNode(after[p])
      BY <3>1, TreeFacts DEF Unowned
    <3>3. CASE p \in Common \ Replaced
      <4>1. /\ p \in DOMAIN before /\ IsNode(before[p])
            /\ before[p].kind = after[p].kind /\ before[p].data = after[p].data
        <5>1. p \in DOMAIN before /\ IsNode(before[p]) /\ before[p].kind = after[p].kind
          BY <3>3, TreeFacts DEF Common, Replaced
        <5>2. after[p].kind = "directory" \/ before[p].data = after[p].data
          BY <3>3 DEF Common, Replaced, SameNode, SameContent
        <5>3. QED
          BY <3>2, <5>1, <5>2 DEF IsNode
      <4>2. image[p] = before[p]
        BY <3>1, <3>2, <3>3, <4>1 DEF Unowned, OldMeta, IsNode
      <4>3. QED
        BY <3>1, <4>1, <4>2 DEF As, Unowned
    <3>4. CASE p \notin Common \ Replaced
      <4>1. image[p] = [after[p] EXCEPT !.meta = DefaultMeta]
        BY <3>1, <3>2, <3>4 DEF Unowned, OldMeta, IsNode
      <4>2. QED
        BY <3>1, <3>4, <4>1 DEF Between, Unowned
    <3>5. QED
      BY <3>3, <3>4
  <2>5. Head(doing).name \in {"rm", "rmdir", "create", "inode"}
    BY <2>1, DoingFacts
  <2>6. QED
    BY <1>1, <1>3, <2>3, <2>4, <2>5 DEF At
<1>4. QED
  BY <1>1, <1>2, <1>3

\* A call that returns has brought every path to the tree wanted, one that
\* throws after debugfs began leaves it in one of the trees or between them,
\* except at and below paths the space or debugfs ended at; a refused one has
\* changed nothing.
THEOREM Synchronises == Spec => []SyncedOrHalfway
<1>1. IInv => SyncedOrHalfway
  <2>1. SUFFICES ASSUME IInv PROVE SyncedOrHalfway
    OBVIOUS
  <2>2. ASSUME Ran, NEW q \in Paths, ~Spoiled(q)
        PROVE  Right(q) /\ (As(before, q) \/ As(after, q) \/ Between(q))
    BY <2>1, <2>2, RightPlaces DEF IInv, OnTheWay
  <2>3. ASSUME result = "ok", NEW q \in Paths, ~Spoiled(q)
        PROVE  As(after, q)
    <3>1. ~Pending(q) /\ ~Busy(q)
      BY <2>1, <2>3 DEF IInv, Finished, Pending, Busy
    <3>2. QED
      BY <2>2, <2>3, <3>1 DEF Right, Ran
  <2>4. result = "refused" => image = before
    BY <2>1 DEF IInv, Untouched
  <2>5. result \in {"ok", "thrown"} => Ran /\ DOMAIN image \subseteq Paths
    BY <2>1 DEF IInv, OnTheWay, Ran
  <2>6. ASSUME result \in {"ok", "thrown"}, NEW q \in Paths, ~Spoiled(q)
        PROVE  As(after, q) \/ (result = "thrown" /\ (As(before, q) \/ Between(q)))
    BY <2>2, <2>3, <2>5, <2>6
  <2>7. QED
    BY <2>4, <2>5, <2>6 DEF SyncedOrHalfway, Paths
<1>2. QED
  BY Invariance, <1>1, PTL
=============================================================================
