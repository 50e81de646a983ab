-------------------------------- MODULE Vfs --------------------------------
(***************************************************************************)
(* The in-memory file system of src/src/vfs.rs: a vector of inodes that    *)
(* only grows, and a cache from the hash of a path to an inode.  VFS.lock  *)
(* makes an operation one step.  The caller has permission.                *)
(***************************************************************************)
EXTENDS Naturals, Sequences, FiniteSets, Functions

CONSTANTS
    TreeNames, Texts, Big,  \* Big: contents above MAX_FILE_SIZE
    Deleted,                \* "(deleted)", the name of a dead inode
    MAX_INODES,             \* 64 in the code
    MAX_PATH_CACHE,         \* 256 in the code
    Hash                    \* Hash[p]: fnv_hash; different paths may collide

Tree == INSTANCE VfsTree WITH tree <- 0

VARIABLES inodes, path_cache

vfsvars == <<inodes, path_cache>>

Paths == Tree!TreePaths
Root == [name |-> Deleted, type |-> "dir", parent |-> 1, data |-> Tree!Empty]

\* Inode 1 is the root (0 in the code); the fixed tree of /dev and /proc is left out.
VfsInit ==
    /\ inodes = <<Root>>
    /\ path_cache = <<[hash |-> Hash[<<>>], idx |-> 1]>>

NotFound == 0

Child(i, n) ==
    LET S == {j \in 2 .. Len(inodes) : inodes[j].parent = i /\ inodes[j].name = n}
    IN  IF S = {} THEN NotFound ELSE CHOOSE j \in S : \A k \in S : j <= k

resolve_uncached(p) ==
    LET at[k \in 0 .. Len(p)] ==
            IF k = 0 THEN 1 ELSE Child(at[k - 1], p[k])
    IN  at[Len(p)]

\* Variant: a hit in the cache is not verified.
resolve_trusting(p) ==
    LET S == {k \in DOMAIN path_cache : path_cache[k].hash = Hash[p]}
    IN  IF S = {} THEN resolve_uncached(p)
        ELSE path_cache[CHOOSE k \in S : \A l \in S : k <= l].idx

\* A hit counts only if the linear search finds the same inode, so any hit will do.
resolve(p) ==
    LET verified == resolve_uncached(p)
        S == {k \in DOMAIN path_cache :
                 /\ path_cache[k].hash = Hash[p] /\ path_cache[k].idx <= Len(inodes)
                 /\ verified = path_cache[k].idx}
    IN  IF S = {} THEN verified ELSE path_cache[CHOOSE k \in S : TRUE].idx

cache_insert(p, i) ==
    LET e == [hash |-> Hash[p], idx |-> i] IN
    IF e \in Range(path_cache) THEN path_cache
    ELSE Append(IF Len(path_cache) >= MAX_PATH_CACHE THEN Tail(path_cache) ELSE path_cache, e)

cache_remove(i) == SelectSeq(path_cache, LAMBDA e : e.idx # i)

\* rsplit_once('/').
Parent(p) == SubSeq(p, 1, Len(p) - 1)
Base(p) == p[Len(p)]

Inode(n, t, parent) == [name |-> n, type |-> t, parent |-> parent, data |-> Tree!Empty]

\* write to a path that exists.
write_existing(p) ==
    LET i == resolve(p) IN
    /\ i # NotFound /\ inodes[i].type = "file"
    /\ \E t \in Texts : inodes' = [inodes EXCEPT ![i].data = t]
    /\ UNCHANGED path_cache

\* write to a path that does not: create_file, then write_file.  Contents that are
\* too large are refused only after the file has been created.
write_new(p) ==
    LET d == resolve(Parent(p)) IN
    /\ resolve(p) = NotFound /\ d # NotFound
    /\ inodes[d].type = "dir" /\ Len(inodes) < MAX_INODES
    /\ \E t \in Texts \cup {Big} :
          inodes' = Append(inodes, [Inode(Base(p), "file", d) EXCEPT
                                      !.data = IF t = Big THEN Tree!Empty ELSE t])
    /\ path_cache' = cache_insert(p, Len(inodes) + 1)

\* rm: the inode is renamed and turned into a device; its place is not used again.
rm(p) ==
    LET i == resolve(p) IN
    /\ i # NotFound /\ inodes[i].type = "file"
    /\ inodes' = [inodes EXCEPT ![i] = [@ EXCEPT !.name = Deleted, !.type = "null",
                                                 !.data = Tree!Empty]]
    /\ path_cache' = cache_remove(i)

\* mkdir enters nothing in the cache.
mkdir(p) ==
    LET d == resolve(Parent(p)) IN
    /\ d # NotFound /\ inodes[d].type = "dir"
    /\ Len(inodes) < MAX_INODES
    /\ Child(d, Base(p)) = NotFound
    /\ inodes' = Append(inodes, Inode(Base(p), "dir", d))
    /\ UNCHANGED path_cache

VfsNext == \E p \in Paths : write_existing(p) \/ write_new(p) \/ rm(p) \/ mkdir(p)

VfsSpec == VfsInit /\ [][VfsNext]_vfsvars

-----------------------------------------------------------------------------
\* Inodes and cache keep their bounds; parents come before their children.
VfsTypeOK ==
    /\ Len(inodes) \in 1 .. MAX_INODES
    /\ Len(path_cache) <= MAX_PATH_CACHE
    /\ \A i \in 2 .. Len(inodes) : inodes[i].parent \in 1 .. i - 1

\* What a caller of ls, cat and exists sees at each path.
Seen(p) ==
    LET i == resolve(p) IN
    CASE i = NotFound -> Tree!Absent
      [] i # NotFound /\ inodes[i].type = "dir" -> Tree!Dir
      [] OTHER -> Tree!File(inodes[i].data)

Shown == [p \in Paths |-> Seen(p)]

TreeView == INSTANCE VfsTree WITH tree <- Shown

\* The inode vector with its dead inodes, and a cache with collisions, evictions
\* and entries left behind, behave as the tree: no operation on a path shows
\* at another, and a path that was removed and made again starts afresh.
ImplementsTree == TreeView!TreeSpec
=============================================================================
