------------------------------ MODULE VfsTree ------------------------------
(***************************************************************************)
(* What src/src/vfs.rs promises its callers: a tree of directories and     *)
(* files in which a path names one thing.  Any operation may be refused.   *)
(***************************************************************************)
EXTENDS Naturals, Sequences

CONSTANTS
    TreeNames,      \* names of files and directories
    Texts           \* contents of a file; Empty is one of them

Empty == CHOOSE t \in Texts : TRUE

\* Paths of one or two names; the root is <<>>.
TreePaths == {<<n>> : n \in TreeNames} \cup (TreeNames \X TreeNames)

Absent == [kind |-> "absent"]
Dir == [kind |-> "dir"]
File(t) == [kind |-> "file", text |-> t]

VARIABLE tree

TreeInit == tree = [p \in TreePaths |-> Absent]

IsDir(p) == p = <<>> \/ tree[p] = Dir

Parent(p) == SubSeq(p, 1, Len(p) - 1)

\* A file is created or overwritten.  A creation may stop half-way, with no contents.
Put(p) ==
    /\ tree[p] # Dir /\ IsDir(Parent(p))
    /\ \/ \E t \in Texts : tree'[p] = File(t)
       \/ tree[p] = Absent /\ tree'[p] = File(Empty)

Remove(p) == tree[p] \notin {Absent, Dir} /\ tree'[p] = Absent

MakeDir(p) == tree[p] = Absent /\ IsDir(Parent(p)) /\ tree'[p] = Dir

\* One path changes at a time.
TreeNext ==
    LET changed == {p \in TreePaths : tree'[p] # tree[p]}
    IN  \E p \in changed : changed = {p} /\ (Put(p) \/ Remove(p) \/ MakeDir(p))

TreeSpec == TreeInit /\ [][TreeNext]_tree
=============================================================================
