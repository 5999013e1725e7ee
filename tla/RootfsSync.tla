----------------------------- MODULE RootfsSync -----------------------------
(***************************************************************************)
(* scripts/sync-rootfs-tree.mjs: an ext4 image that cannot be mounted is   *)
(* brought from one directory tree to another by commands for debugfs.     *)
(* The difference is sorted into phases (removals from the deepest up,     *)
(* replacements and new directories from the top down, files, symbolic     *)
(* links, metadata of directories) so that each command finds what it      *)
(* needs; within a phase any order that its sort key allows is allowed     *)
(* here.  debugfs runs all commands of its file: one that cannot be        *)
(* carried out, or runs out of space, prints a line and the next follows.  *)
(* When debugfs itself fails, at any command, the call throws and leaves   *)
(* what has been done.                                                     *)
(*                                                                         *)
(* A path is a sequence of names, the root is <<>>.  A node is [kind,      *)
(* meta, data]: meta stands for mode, uid and gid, data for the bytes of a *)
(* file or the target of a link.  Kind "refused" is what collectTree       *)
(* throws at: special files, hard-linked files, names with quotes.         *)
(***************************************************************************)
EXTENDS Integers, SequencesExt

CONSTANTS
    Names,         \* names of files
    BeforeTrees,   \* trees the image may hold
    AfterTrees,    \* trees wanted
    MaxFailures    \* bound: commands that run out of space

Kinds == {"directory", "file", "symlink"}
Root == <<>>
DefaultMeta == 0     \* what debugfs gives a new inode
NoData == 0          \* of a directory
Partial == -1        \* bytes of a file the space ended in
MixedMeta == -1      \* mode, uid and gid of which some are new

IsNode(n) ==
    /\ n = [kind |-> n.kind, meta |-> n.meta, data |-> n.data]
    /\ n.kind = "directory" => n.data = NoData

Above(p) == {SubSeq(p, 1, n) : n \in 0..Len(p) - 1}

IsTree(t) ==
    /\ Root \in DOMAIN t /\ t[Root].kind = "directory"
    /\ \A p \in DOMAIN t : \A q \in Above(p) : q \in DOMAIN t /\ t[q].kind = "directory"

ASSUME TreesAssumption ==
    /\ \A t \in BeforeTrees \cup AfterTrees :
           /\ DOMAIN t \subseteq Seq(Names) /\ IsTree(t)
           /\ \A p \in DOMAIN t : IsNode(t[p])
    /\ MaxFailures \in Nat

VARIABLES
    before, after,   \* the two trees
    image,           \* the tree in the image
    todo,            \* operations not begun
    doing,           \* commands left of the operation debugfs is in
    failed,          \* paths of commands that ran out of space or were cut off
    result           \* "plan", then "refused", or "run" and "ok" or "thrown"

vars == <<before, after, image, todo, doing, failed, result>>

TypeOK ==
    /\ before \in BeforeTrees /\ after \in AfterTrees
    /\ IsTree(image)
    /\ result \in {"run", "ok", "thrown"} => \A p \in DOMAIN image : image[p].kind \in Kinds
    /\ \A op \in todo : op.path \in DOMAIN before \cup DOMAIN after
    /\ failed \subseteq DOMAIN after
    /\ result \in {"plan", "refused", "run", "ok", "thrown"}

Init ==
    /\ before \in BeforeTrees /\ after \in AfterTrees /\ image = before
    /\ todo = {} /\ doing = <<>> /\ failed = {} /\ result = "plan"

-----------------------------------------------------------------------------
(* diffRootfsTrees.                                                        *)

\* mutant: nodes are compared by content, not by mode and owner.
SameContent(p) == before[p].data = after[p].data
SameNode(p) ==
    SameContent(p) /\ before[p].meta = after[p].meta   \* sameMetadata, sameFile

Common == DOMAIN before \cap DOMAIN after
Replaced ==
    {p \in Common : \/ before[p].kind # after[p].kind
                    \/ after[p].kind # "directory" /\ ~SameNode(p)}
Op(kind, paths) == {[kind |-> kind, path |-> p] : p \in paths}

Operations ==
    Op("remove", DOMAIN before \ DOMAIN after)
      \cup Op("replace", Replaced)
      \cup (UNION {Op(kind, {p \in DOMAIN after \ DOMAIN before : after[p].kind = kind}) : kind \in Kinds})
      \cup Op("metadata", {p \in Common \ Replaced : ~SameNode(p)})

Phases == <<"remove", "replace", "directory", "file", "symlink", "metadata">>
Phase(op) == CHOOSE i \in DOMAIN Phases : Phases[i] = op.kind

\* mutant: removals are sorted like creations.
EarlierShallow(a, b) ==
    \/ Phase(a) < Phase(b)
    \/ /\ a.kind = b.kind /\ a.kind \in {"remove", "replace", "directory", "metadata"}
       /\ Len(a.path) < Len(b.path)
\* The sort keys: sortDeepestFirst, sortShallowestFirst, or the path alone.
Earlier(a, b) ==
    \/ Phase(a) < Phase(b)
    \/ /\ a.kind = b.kind
       /\ \/ a.kind = "remove" /\ Len(a.path) > Len(b.path)
          \/ a.kind \in {"replace", "directory", "metadata"} /\ Len(a.path) < Len(b.path)

-----------------------------------------------------------------------------
(* buildDebugfsCommands.                                                   *)

Command(name, p) == [name |-> name, path |-> p]
RemoveCommand(p) == Command(IF before[p].kind = "directory" THEN "rmdir" ELSE "rm", p)
CreateCommands(p) == <<Command("create", p), Command("inode", p)>>

CommandsOf(op) ==
    CASE op.kind = "remove"   -> <<RemoveCommand(op.path)>>
      [] op.kind = "replace"  -> <<RemoveCommand(op.path)>> \o CreateCommands(op.path)
      [] op.kind = "metadata" -> <<Command("inode", op.path)>>
      [] OTHER                -> CreateCommands(op.path)

-----------------------------------------------------------------------------
(* debugfs.                                                                *)

Applies(c) ==
    CASE c.name = "rm"     -> c.path \in DOMAIN image /\ image[c.path].kind # "directory"
      [] c.name = "rmdir"  -> /\ c.path \in DOMAIN image /\ image[c.path].kind = "directory"
                              /\ \A q \in DOMAIN image : ~IsStrictPrefix(c.path, q)
      [] c.name = "create" -> /\ c.path \notin DOMAIN image
                              /\ Front(c.path) \in DOMAIN image
                              /\ image[Front(c.path)].kind = "directory"
      [] c.name = "inode"  -> c.path \in DOMAIN image

With(p, node) == [q \in DOMAIN image \cup {p} |-> IF q = p THEN node ELSE image[q]]

Effect(c) ==
    CASE c.name \in {"rm", "rmdir"} -> [q \in DOMAIN image \ {c.path} |-> image[q]]
      [] c.name = "create" -> With(c.path, [after[c.path] EXCEPT !.meta = DefaultMeta])
      [] c.name = "inode"  -> [image EXCEPT ![c.path].meta = after[c.path].meta]

\* What is left of a create command that ran out of space.
Remains(c) ==
    {image} \cup
    IF after[c.path].kind = "file"
    THEN {With(c.path, [kind |-> "file", meta |-> DefaultMeta, data |-> Partial])} ELSE {}

\* What may be left of a command debugfs is killed in.
CutOff(c) ==
    CASE c.name = "create" -> Remains(c)
      [] c.name = "inode"  -> {[image EXCEPT ![c.path].meta = MixedMeta]}
      [] OTHER             -> {}

-----------------------------------------------------------------------------
(* syncRootfsTree.                                                         *)

\* mutant: nodes of any type are collected.
CollectsAnything(t) == TRUE
Collects(t) == \A p \in DOMAIN t : t[p].kind \in Kinds

\* Nothing to do; something collectTree refuses, no command file, no debugfs
\* or an image it cannot open: the call throws before the first command.
Plan ==
    /\ result = "plan"
    /\ IF Collects(before) /\ Collects(after)
       THEN \/ todo' = Operations /\ result' = "run"
            \/ Operations # {} /\ result' = "refused" /\ UNCHANGED todo
       ELSE result' = "refused" /\ UNCHANGED todo
    /\ UNCHANGED <<before, after, image, doing, failed>>

Begin ==
    /\ result = "run" /\ doing = <<>>
    /\ \E op \in todo :
         /\ \A other \in todo : ~Earlier(other, op)
         /\ todo' = todo \ {op} /\ doing' = CommandsOf(op)
    /\ UNCHANGED <<before, after, image, failed, result>>

\* A command that does not apply prints its line and changes nothing.
Execute ==
    /\ result = "run" /\ doing # <<>>
    /\ doing' = Tail(doing)
    /\ image' = IF Applies(Head(doing)) THEN Effect(Head(doing)) ELSE image
    /\ UNCHANGED <<before, after, todo, failed, result>>

NoSpace ==
    /\ result = "run" /\ doing # <<>> /\ Head(doing).name = "create"
    /\ Applies(Head(doing)) /\ Cardinality(failed) < MaxFailures
    /\ image' \in Remains(Head(doing))
    /\ failed' = failed \cup {Head(doing).path} /\ doing' = Tail(doing)
    /\ UNCHANGED <<before, after, todo, result>>

\* debugfs -f exits with 0 whatever its commands did, and its messages name
\* the command, not "debugfs:", which is what the filter looks for.
Return ==
    /\ result = "run" /\ todo = {} /\ doing = <<>>
    /\ result' = "ok"
    /\ UNCHANGED <<before, after, image, todo, doing, failed>>

\* debugfs is killed (spawnSync kills it when its output is too long), exits
\* with a status or prints a line the filter finds: the call throws after any
\* part of the commands, and the one it is in may be half done.
Break ==
    /\ result = "run" /\ Operations # {}
    /\ result' = "thrown"
    /\ \/ UNCHANGED <<image, failed>>
       \/ /\ doing # <<>> /\ Applies(Head(doing))
          /\ image' \in CutOff(Head(doing))
          /\ failed' = failed \cup {Head(doing).path}
    /\ UNCHANGED <<before, after, todo, doing>>

Next == Plan \/ Begin \/ Execute \/ NoSpace \/ Return \/ Break

Spec == Init /\ [][Next]_vars

-----------------------------------------------------------------------------
(* Properties.                                                             *)

Spoiled(p) == \E q \in failed : IsPrefix(q, p)

\* The phases put the commands in an order debugfs can carry out: none of them
\* meets a missing parent, a path still taken or a directory not yet empty,
\* except at or below a path the space ended at.
EveryCommandApplies ==
    doing # <<>> /\ ~Spoiled(Head(doing).path) => Applies(Head(doing))

\* The image holds at p what the tree t holds there.
As(t, p) ==
    /\ p \in DOMAIN image <=> p \in DOMAIN t
    /\ p \in DOMAIN image => image[p] = t[p]

\* Between the two trees p may be gone, if it is to be replaced, or be made but
\* without its mode and owner.
Between(p) ==
    \/ p \in Replaced /\ p \notin DOMAIN image
    \/ /\ p \in DOMAIN after /\ p \notin Common \ Replaced /\ p \in DOMAIN image
       /\ image[p] = [after[p] EXCEPT !.meta = DefaultMeta]

\* Whatever the two trees are, a call that returns leaves the tree wanted,
\* metadata of every path included; one that is refused leaves the image alone;
\* and one that throws after debugfs has run any part of its commands leaves
\* every path as in one of the two trees or on its way between them, so that
\* a path both trees hold alike is never touched.  Running out of space or being
\* cut off spoils only that path and what is below it.
SyncedOrHalfway ==
    /\ result = "refused" => image = before
    /\ result \in {"ok", "thrown"} =>
          /\ DOMAIN image \subseteq DOMAIN before \cup DOMAIN after
          /\ \A p \in DOMAIN before \cup DOMAIN after : ~Spoiled(p) =>
                 \/ As(after, p)
                 \/ result = "thrown" /\ (As(before, p) \/ Between(p))

\* What the build plan and a test demand: a call that returns has synchronised
\* the image, a failed debugfs command makes it fail (docs/superpowers/plans/
\* 2026-09-07-cnb-loopless-burn-build.md, "syncRootfsTree rejects debugfs
\* command errors").
SuccessMeansSynced == result = "ok" => image = after
=============================================================================
