--------------------------- MODULE StorageProofs ---------------------------
(***************************************************************************)
(* Three parts of storage, for any values of their constants.              *)
(*                                                                         *)
(* Vfs: the inode vector and the path cache of vfs.rs implement the tree   *)
(* of names of VfsTree.  The invariant says that the vector is a tree in   *)
(* which a directory has at most one entry of a name and only directories  *)
(* have entries: then a path leads to at most one inode, different paths   *)
(* lead to different inodes, and nothing hangs below a file that rm kills. *)
(*                                                                         *)
(* RamDisk: files on the RAM disk read back.  The invariant says that each *)
(* name has at most one active entry, which lies inside the data area and  *)
(* holds what was kept; a new file goes behind all of them.                *)
(*                                                                         *)
(* VirtioBlk: a request of virtio_blk.rs that started when nothing was on  *)
(* its way and returned Ok was carried out, the driver and the device stay *)
(* in step until a request times out, and until then a sector never gets   *)
(* what was meant for another.  The invariant follows such a request       *)
(* through its three stages: submitted, fetched by the device, completed.  *)
(* Until it is completed used.idx is where the driver left it, so the loop *)
(* cannot end early, and afterwards there is nothing to fetch, so the      *)
(* device does not run twice.                                              *)
(***************************************************************************)
EXTENDS Vfs, RamDisk, VirtioBlk, WellFoundedInduction, TLAPS

\* A set of naturals that is not empty has a least element.
LEMMA Least ==
    ASSUME NEW S \in SUBSET Nat, S # {}
    PROVE  \E k \in S : \A j \in S : k <= j
  <1> DEFINE R == {ss \in Nat \X Nat : ss[1] < ss[2]}
  <1>1. IsWellFoundedOn(R, Nat)
    <2>1. OpToRel(<, Nat) = R
      BY DEF OpToRel
    <2> QED BY <2>1, NatLessThanWellFounded, Zenon
  <1>2. PICK x \in S : \A y \in S : ~ (<<y, x>> \in R)
    <2> HIDE DEF R
    <2> QED BY <1>1, WFMin, Zenon
  <1>3. ASSUME NEW y \in S PROVE x <= y
    <2>1. x \in Nat /\ y \in Nat
      OBVIOUS
    <2>2. ~(y < x)
      <3>1. <<y, x>> \in Nat \X Nat /\ <<y, x>>[1] = y /\ <<y, x>>[2] = x
        BY <2>1
      <3> QED BY <3>1, <1>2
    <2> QED BY <2>1, <2>2
  <1> QED BY <1>3

-----------------------------------------------------------------------------
(* The tree in memory *)

InodeSet == [name : TreeNames \cup {Deleted}, type : {"dir", "file", "null"},
             parent : Nat, data : Texts \cup {Tree!Empty}]

\* j is the entry n of the directory i.
Entry(ins, i, n, j) == j \in 2 .. Len(ins) /\ ins[j].parent = i /\ ins[j].name = n

\* A vector of inodes that is a tree of two levels: parents are directories, and a
\* directory has one entry of a name.
SoundTree(ins) ==
    /\ ins \in Seq(InodeSet) /\ Len(ins) >= 1 /\ ins[1].type = "dir"
    /\ \A i \in 2 .. Len(ins) : ins[i].parent \in 1 .. Len(ins) /\ ins[ins[i].parent].type = "dir"
    /\ \A i, n, j, k : n \in TreeNames /\ Entry(ins, i, n, j) /\ Entry(ins, i, n, k) => j = k

VfsInv == SoundTree(inodes)

\* The path p leads to the inode j.
Leads(ins, p, j) ==
    \/ p \in {<<n>> : n \in TreeNames} /\ Entry(ins, 1, p[1], j)
    \/ p \in TreeNames \X TreeNames /\ \E i : Entry(ins, 1, p[1], i) /\ Entry(ins, i, p[2], j)

\* What an inode shows, and what is to be seen at a path.
Shows(e) == IF e.type = "dir" THEN Tree!Dir ELSE Tree!File(e.data)

\* Child finds the entry, if there is one.
LEMMA ChildIs ==
    ASSUME SoundTree(inodes), NEW i, NEW n \in TreeNames
    PROVE  /\ Child(i, n) = NotFound \/ Entry(inodes, i, n, Child(i, n))
           /\ \A j : Entry(inodes, i, n, j) => Child(i, n) = j
           /\ Child(i, n) \in Nat
  <1> DEFINE S == {j \in 2 .. Len(inodes) : inodes[j].parent = i /\ inodes[j].name = n}
  <1>1. \A j : j \in S <=> Entry(inodes, i, n, j)
    BY DEF Entry
  <1>2. S \in SUBSET Nat
    BY DEF SoundTree
  <1>3. Child(i, n) = IF S = {} THEN NotFound ELSE CHOOSE j \in S : \A k \in S : j <= k
    BY DEF Child
  <1> HIDE DEF S
  <1>4. CASE S = {}
    BY <1>1, <1>3, <1>4 DEF NotFound
  <1>5. CASE S # {}
    <2>1. \E j \in S : \A k \in S : j <= k
      BY <1>2, <1>5, Least
    <2>2. Child(i, n) \in S
      BY <1>3, <1>5, <2>1, Zenon
    <2>3. \A j : Entry(inodes, i, n, j) => Child(i, n) = j
      BY <1>1, <2>2 DEF SoundTree
    <2> QED BY <1>1, <1>2, <2>2, <2>3
  <1> QED BY <1>4, <1>5

\* The linear search follows the path name by name.
LEMMA SearchIs ==
    ASSUME NEW p
    PROVE  /\ p = <<>> => resolve_uncached(p) = 1
           /\ p \in {<<n>> : n \in TreeNames} => resolve_uncached(p) = Child(1, p[1])
           /\ p \in TreeNames \X TreeNames => resolve_uncached(p) = Child(Child(1, p[1]), p[2])
  <1> DEFINE Step(f) == [k \in 0 .. Len(p) |-> IF k = 0 THEN 1 ELSE Child(f[k - 1], p[k])]
             at == CHOOSE f : f = Step(f)
  <1>1. resolve_uncached(p) = at[Len(p)]
    BY DEF resolve_uncached
  <1>2. ASSUME NEW g, g = Step(g) PROVE at = Step(at)
    BY <1>2
  <1> HIDE DEF at
  <1>3. CASE p = <<>>
    <2>1. Len(p) = 0
      BY <1>3
    <2> DEFINE g == [k \in 0 .. 0 |-> 1]
    <2>2. g = Step(g)
      BY <2>1
    <2>3. at = Step(at)
      BY <1>2, <2>2
    <2>4. at[0] = 1
      BY <2>1, <2>3
    <2> QED BY <1>1, <1>3, <2>1, <2>4
  <1>4. CASE p \in {<<n>> : n \in TreeNames}
    <2>1. Len(p) = 1
      BY <1>4
    <2> DEFINE g == [k \in 0 .. 1 |-> IF k = 0 THEN 1 ELSE Child(1, p[1])]
    <2>2. g = Step(g)
      <3>1. g[0] = 1 /\ DOMAIN g = 0 .. 1
        OBVIOUS
      <3>2. \A k \in 0 .. 1 : k # 0 => k = 1 /\ k - 1 = 0
        OBVIOUS
      <3> QED BY <2>1, <3>1, <3>2
    <2>3. at = Step(at)
      BY <1>2, <2>2
    <2>4. at[0] = 1
      BY <2>1, <2>3
    <2>5. at[1] = Child(1, p[1])
      BY <2>1, <2>3, <2>4
    <2>6. p # <<>> /\ p \notin TreeNames \X TreeNames
      BY <1>4
    <2> QED BY <1>1, <2>1, <2>5, <2>6
  <1>5. CASE p \in TreeNames \X TreeNames
    <2>1. Len(p) = 2
      BY <1>5
    <2> DEFINE c == Child(1, p[1])
               g == [k \in 0 .. 2 |-> IF k = 0 THEN 1 ELSE IF k = 1 THEN c ELSE Child(c, p[2])]
    <2>2. g = Step(g)
      <3> HIDE DEF c
      <3>1. g[0] = 1 /\ g[1] = c /\ DOMAIN g = 0 .. 2
        OBVIOUS
      <3>2. \A k \in 0 .. 2 : k # 0 => (k = 1 /\ k - 1 = 0) \/ (k = 2 /\ k - 1 = 1)
        OBVIOUS
      <3>3. c = Child(1, p[1])
        BY DEF c
      <3>4. ASSUME NEW k \in 0 .. 2
            PROVE  g[k] = IF k = 0 THEN 1 ELSE Child(g[k - 1], p[k])
        BY <3>1, <3>2, <3>3
      <3> QED BY <2>1, <3>4
    <2>3. at = Step(at)
      BY <1>2, <2>2
    <2>4. at[0] = 1
      BY <2>1, <2>3
    <2>5. at[1] = Child(1, p[1])
      BY <2>1, <2>3, <2>4
    <2>6. at[2] = Child(at[1], p[2])
      BY <2>1, <2>3
    <2>7. p # <<>> /\ p \notin {<<n>> : n \in TreeNames}
      BY <1>5
    <2> QED BY <1>1, <2>1, <2>5, <2>6, <2>7
  <1> QED BY <1>3, <1>4, <1>5

\* The cache never changes what a path resolves to.
LEMMA CacheIsHarmless ==
    ASSUME NEW p
    PROVE  resolve(p) = resolve_uncached(p)
  <1> DEFINE S == {k \in DOMAIN path_cache :
                      /\ path_cache[k].hash = Hash[p] /\ path_cache[k].idx <= Len(inodes)
                      /\ resolve_uncached(p) = path_cache[k].idx}
  <1>1. resolve(p) = IF S = {} THEN resolve_uncached(p) ELSE path_cache[CHOOSE k \in S : TRUE].idx
    BY DEF resolve
  <1>2. \A k \in S : resolve_uncached(p) = path_cache[k].idx
    OBVIOUS
  <1>3. S # {} => (CHOOSE k \in S : TRUE) \in S
    <2> HIDE DEF S
    <2> QED OBVIOUS
  <1> HIDE DEF S
  <1> QED BY <1>1, <1>2, <1>3

\* Paths and what leads where.
Found(p) ==
    /\ resolve(p) = NotFound \/ Leads(inodes, p, resolve(p))
    /\ \A j : Leads(inodes, p, j) => resolve(p) = j

\* resolve, with the cache or without it, finds the inode a path leads to.
LEMMA ResolveIs ==
    SoundTree(inodes) => resolve(<<>>) = 1 /\ \A p \in Paths : Found(p)
  <1> SUFFICES ASSUME SoundTree(inodes) PROVE resolve(<<>>) = 1 /\ \A p \in Paths : Found(p)
    OBVIOUS
  <1>1. resolve(<<>>) = 1
    BY SearchIs, CacheIsHarmless
  <1>2. ASSUME NEW p \in {<<n>> : n \in TreeNames} PROVE Found(p)
    <2>1. p[1] \in TreeNames /\ resolve(p) = Child(1, p[1]) /\ p \notin TreeNames \X TreeNames
      BY SearchIs, CacheIsHarmless
    <2>2. \A j : Leads(inodes, p, j) <=> Entry(inodes, 1, p[1], j)
      BY <2>1 DEF Leads
    <2> QED BY <2>1, <2>2, ChildIs DEF Found
  <1>3. ASSUME NEW p \in TreeNames \X TreeNames PROVE Found(p)
    <2>1. /\ p[1] \in TreeNames /\ p[2] \in TreeNames
          /\ resolve(p) = Child(Child(1, p[1]), p[2]) /\ p \notin {<<n>> : n \in TreeNames}
      BY SearchIs, CacheIsHarmless
    <2>2. PICK c : c = Child(1, p[1])
      OBVIOUS
    <2>3. /\ c = NotFound \/ Entry(inodes, 1, p[1], c)
          /\ \A j : Entry(inodes, 1, p[1], j) => c = j
      BY <2>1, <2>2, ChildIs
    <2>4. /\ resolve(p) = NotFound \/ Entry(inodes, c, p[2], resolve(p))
          /\ \A j : Entry(inodes, c, p[2], j) => resolve(p) = j
      BY <2>1, <2>2, ChildIs
    <2>5. \A j : Leads(inodes, p, j) <=> \E i : Entry(inodes, 1, p[1], i) /\ Entry(inodes, i, p[2], j)
      BY <2>1 DEF Leads
    <2>6. \A j : ~Entry(inodes, NotFound, p[2], j)
      BY DEF Entry, NotFound, SoundTree
    <2>7. resolve(p) # NotFound => Leads(inodes, p, resolve(p))
      <3> SUFFICES ASSUME resolve(p) # NotFound PROVE Leads(inodes, p, resolve(p))
        OBVIOUS
      <3>1. Entry(inodes, c, p[2], resolve(p)) /\ c # NotFound
        BY <2>4, <2>6
      <3>2. Entry(inodes, 1, p[1], c)
        BY <2>3, <3>1
      <3> QED BY <2>5, <3>1, <3>2
    <2>8. ASSUME NEW j, Leads(inodes, p, j) PROVE resolve(p) = j
      <3>1. PICK i : Entry(inodes, 1, p[1], i) /\ Entry(inodes, i, p[2], j)
        BY <2>5, <2>8
      <3> QED BY <2>3, <2>4, <3>1
    <2> QED BY <2>7, <2>8 DEF Found
  <1> QED BY <1>1, <1>2, <1>3 DEF Paths, Tree!TreePaths

Single == {<<n>> : n \in TreeNames}
Double == TreeNames \X TreeNames

\* Every path has one or two names; its parent is the root or a path of one name.
LEMMA PathForms ==
    /\ \A p : p \in Paths <=> p \in Single \/ p \in Double
    /\ \A p \in Single : /\ p \notin Double /\ p[1] \in TreeNames /\ p = <<p[1]>>
                         /\ Parent(p) = <<>> /\ Base(p) = p[1]
    /\ \A p \in Double : /\ p \notin Single /\ p[1] \in TreeNames /\ p[2] \in TreeNames
                         /\ p = <<p[1], p[2]>>
                         /\ Parent(p) = <<p[1]>> /\ <<p[1]>> \in Single /\ Base(p) = p[2]
  <1>1. \A p : p \in Paths <=> p \in Single \/ p \in Double
    BY DEF Paths, Tree!TreePaths, Single, Double
  <1>2. ASSUME NEW p \in Single
        PROVE  /\ p \notin Double /\ p[1] \in TreeNames /\ p = <<p[1]>>
               /\ Parent(p) = <<>> /\ Base(p) = p[1]
    <2>1. PICK n \in TreeNames : p = <<n>>
      BY DEF Single
    <2>2. Len(p) = 1
      BY <2>1
    <2>3. Parent(p) = <<>>
      BY <2>1, <2>2 DEF Parent
    <2> QED BY <2>1, <2>2, <2>3 DEF Double, Base
  <1>3. ASSUME NEW p \in Double
        PROVE  /\ p \notin Single /\ p[1] \in TreeNames /\ p[2] \in TreeNames
               /\ p = <<p[1], p[2]>>
               /\ Parent(p) = <<p[1]>> /\ <<p[1]>> \in Single /\ Base(p) = p[2]
    <2>1. PICK n, m \in TreeNames : p = <<n, m>>
      BY DEF Double
    <2>2. Len(p) = 2
      BY <2>1
    <2>3. Parent(p) = <<n>>
      <3>1. p \in Seq(TreeNames) /\ p[1] = n
        BY <2>1
      <3>2. PICK s : s = SubSeq(p, 1, 1)
        OBVIOUS
      <3>3. s \in Seq(TreeNames) /\ Len(s) = 1 /\ s[1] = p[1]
        BY <2>2, <3>1, <3>2
      <3>4. s = <<s[1]>>
        BY <3>3
      <3> QED BY <2>2, <3>1, <3>2, <3>3, <3>4 DEF Parent
    <2> QED BY <2>1, <2>2, <2>3 DEF Single, Base
  <1> QED BY <1>1, <1>2, <1>3

\* The last name of a path is a name.
LEMMA BaseNames == \A p \in Paths : Base(p) \in TreeNames
  <1> SUFFICES ASSUME NEW p \in Paths PROVE Base(p) \in TreeNames
    OBVIOUS
  <1>1. CASE p \in Single
    BY <1>1, PathForms
  <1>2. CASE p \in Double
    BY <1>2, PathForms
  <1> QED BY <1>1, <1>2, PathForms

\* Leads, by the length of the path.
LEMMA LeadsBy ==
    ASSUME NEW ins, NEW j
    PROVE  /\ \A p \in Single : Leads(ins, p, j) <=> Entry(ins, 1, p[1], j)
           /\ \A p \in Double : Leads(ins, p, j) <=>
                 \E i : Entry(ins, 1, p[1], i) /\ Entry(ins, i, p[2], j)
  BY PathForms DEF Leads, Single, Double

\* Different paths lead to different inodes.
LEMMA LeadsApart ==
    ASSUME NEW ins, NEW p \in Paths, NEW q \in Paths, NEW j, Leads(ins, p, j), Leads(ins, q, j)
    PROVE  p = q
  <1>1. ASSUME NEW s \in Single, NEW t \in Double, Leads(ins, s, j), Leads(ins, t, j) PROVE FALSE
    <2>1. ins[j].parent = 1
      BY <1>1, LeadsBy DEF Entry
    <2>2. PICK i : Entry(ins, 1, t[1], i) /\ Entry(ins, i, t[2], j)
      BY <1>1, LeadsBy
    <2>3. i \in 2 .. Len(ins) /\ ins[j].parent = i
      BY <2>2 DEF Entry
    <2> QED BY <2>1, <2>3
  <1>2. ASSUME p \in Single, q \in Single PROVE p = q
    <2>1. Entry(ins, 1, p[1], j) /\ Entry(ins, 1, q[1], j)
      BY <1>2, LeadsBy
    <2>2. p[1] = q[1]
      BY <2>1 DEF Entry
    <2>3. p = <<p[1]>> /\ q = <<q[1]>>
      BY <1>2, PathForms
    <2> QED BY <2>2, <2>3
  <1>3. ASSUME p \in Double, q \in Double PROVE p = q
    <2>1. PICK i : Entry(ins, 1, p[1], i) /\ Entry(ins, i, p[2], j)
      BY <1>3, LeadsBy
    <2>2. PICK k : Entry(ins, 1, q[1], k) /\ Entry(ins, k, q[2], j)
      BY <1>3, LeadsBy
    <2>3. p[2] = q[2] /\ i = k
      BY <2>1, <2>2 DEF Entry
    <2>4. p[1] = q[1]
      BY <2>1, <2>2, <2>3 DEF Entry
    <2> QED BY <1>3, <2>3, <2>4, PathForms
  <1> QED BY <1>1, <1>2, <1>3, PathForms

\* What is seen at a path is what the inode it leads to shows.
LEMMA SeenIs ==
    SoundTree(inodes) =>
        \A p \in Paths : /\ \A j : Leads(inodes, p, j) => Seen(p) = Shows(inodes[j])
                         /\ (\A j : ~Leads(inodes, p, j)) => Seen(p) = Tree!Absent
  <1> SUFFICES ASSUME SoundTree(inodes), NEW p \in Paths
               PROVE  /\ \A j : Leads(inodes, p, j) => Seen(p) = Shows(inodes[j])
                      /\ (\A j : ~Leads(inodes, p, j)) => Seen(p) = Tree!Absent
    OBVIOUS
  <1>1. /\ resolve(p) = NotFound \/ Leads(inodes, p, resolve(p))
        /\ \A j : Leads(inodes, p, j) => resolve(p) = j
    BY ResolveIs DEF Found
  <1>2. \A j : Leads(inodes, p, j) => j # NotFound
    <2>1. \A a, n : ~Entry(inodes, a, n, NotFound)
      BY DEF Entry, NotFound
    <2> QED BY <2>1, PathForms, LeadsBy, Zenon
  <1>3. PICK i : i = resolve(p)
    OBVIOUS
  <1>4. Seen(p) = CASE i = NotFound -> Tree!Absent
                    [] i # NotFound /\ inodes[i].type = "dir" -> Tree!Dir
                    [] OTHER -> Tree!File(inodes[i].data)
    BY <1>3 DEF Seen
  <1> QED BY <1>1, <1>2, <1>3, <1>4 DEF Shows

-----------------------------------------------------------------------------
(* What the operations do to the vector *)

Overwritten(ins, i, t) == [ins EXCEPT ![i].data = t]

Removed(ins, i) ==
    [ins EXCEPT ![i] = [@ EXCEPT !.name = Deleted, !.type = "null", !.data = Tree!Empty]]

\* Overwriting a file leaves the tree of names as it was.
LEMMA WriteTree ==
    ASSUME NEW ins, SoundTree(ins), NEW i \in 1 .. Len(ins), NEW t \in Texts,
           NEW to, to = Overwritten(ins, i, t)
    PROVE  /\ SoundTree(to)
           /\ \A q, j : Leads(to, q, j) <=> Leads(ins, q, j)
           /\ to[i] = [ins[i] EXCEPT !.data = t]
           /\ \A j \in 1 .. Len(ins) : j # i => to[j] = ins[j]
  <1>1. ins \in Seq(InodeSet) /\ ins[i] \in InodeSet
    BY DEF SoundTree
  <1>2. [ins[i] EXCEPT !.data = t] \in InodeSet
    BY <1>1 DEF InodeSet
  <1>3. /\ to \in Seq(InodeSet) /\ Len(to) = Len(ins)
        /\ to[i] = [ins[i] EXCEPT !.data = t]
        /\ \A j \in 1 .. Len(ins) : j # i => to[j] = ins[j]
    BY <1>1, <1>2 DEF Overwritten
  <1>4. \A j \in 1 .. Len(ins) :
            to[j].type = ins[j].type /\ to[j].parent = ins[j].parent /\ to[j].name = ins[j].name
    <2>1. to[i].type = ins[i].type /\ to[i].parent = ins[i].parent /\ to[i].name = ins[i].name
      BY <1>1, <1>3 DEF InodeSet
    <2> QED BY <1>3, <2>1
  <1>5. \A a, n, j : Entry(to, a, n, j) <=> Entry(ins, a, n, j)
    BY <1>3, <1>4 DEF Entry
  <1>6. SoundTree(to)
    <2>1. Len(to) >= 1 /\ to[1].type = "dir"
      BY <1>3, <1>4 DEF SoundTree
    <2>2. \A j \in 2 .. Len(to) : to[j].parent \in 1 .. Len(to) /\ to[to[j].parent].type = "dir"
      <3> SUFFICES ASSUME NEW j \in 2 .. Len(to)
                   PROVE  to[j].parent \in 1 .. Len(to) /\ to[to[j].parent].type = "dir"
        OBVIOUS
      <3>1. j \in 1 .. Len(ins) /\ ins[j].parent \in 1 .. Len(ins) /\ ins[ins[j].parent].type = "dir"
        BY <1>3 DEF SoundTree
      <3> QED BY <1>3, <1>4, <3>1
    <2>3. \A a, n, j, k : n \in TreeNames /\ Entry(to, a, n, j) /\ Entry(to, a, n, k) => j = k
      BY <1>5 DEF SoundTree
    <2> QED BY <1>3, <2>1, <2>2, <2>3 DEF SoundTree
  <1> QED BY <1>3, <1>5, <1>6 DEF Leads

\* Removing a file takes away what leads to it and nothing else.
LEMMA RemoveTree ==
    ASSUME NEW ins, SoundTree(ins), NEW i \in 2 .. Len(ins), ins[i].type = "file",
           Deleted \notin TreeNames,
           NEW to, to = Removed(ins, i)
    PROVE  /\ SoundTree(to)
           /\ \A q \in Paths : \A j : Leads(to, q, j) <=> Leads(ins, q, j) /\ j # i
           /\ \A j \in 1 .. Len(ins) : j # i => to[j] = ins[j]
  <1>1. ins \in Seq(InodeSet) /\ ins[i] \in InodeSet
    BY DEF SoundTree
  <1>2. /\ [ins[i] EXCEPT !.name = Deleted, !.type = "null", !.data = Tree!Empty] \in InodeSet
        /\ [ins[i] EXCEPT !.name = Deleted, !.type = "null", !.data = Tree!Empty].name = Deleted
        /\ [ins[i] EXCEPT !.name = Deleted, !.type = "null", !.data = Tree!Empty].parent = ins[i].parent
    BY <1>1 DEF InodeSet
  <1>3. /\ to \in Seq(InodeSet) /\ Len(to) = Len(ins)
        /\ to[i].name = Deleted /\ to[i].parent = ins[i].parent
        /\ \A j \in 1 .. Len(ins) : j # i => to[j] = ins[j]
    BY <1>1, <1>2 DEF Removed
  <1>4. \A a, j : \A n \in TreeNames : Entry(to, a, n, j) <=> Entry(ins, a, n, j) /\ j # i
    BY <1>3 DEF Entry
  <1>5. \A n, j : ~Entry(ins, i, n, j)
    BY DEF Entry, SoundTree
  <1>6. \A j \in 2 .. Len(ins) : ins[j].parent # i /\ to[j].parent = ins[j].parent
    BY <1>3 DEF SoundTree
  <1>7. SoundTree(to)
    <2>1. Len(to) >= 1 /\ to[1].type = "dir"
      BY <1>3 DEF SoundTree
    <2>2. \A j \in 2 .. Len(to) : to[j].parent \in 1 .. Len(to) /\ to[to[j].parent].type = "dir"
      BY <1>3, <1>6 DEF SoundTree
    <2>3. \A a, n, j, k : n \in TreeNames /\ Entry(to, a, n, j) /\ Entry(to, a, n, k) => j = k
      BY <1>4 DEF SoundTree
    <2> QED BY <1>3, <2>1, <2>2, <2>3 DEF SoundTree
  <1>8. ASSUME NEW q \in Single, NEW j PROVE Leads(to, q, j) <=> Leads(ins, q, j) /\ j # i
    BY <1>4, LeadsBy, PathForms
  <1>9. ASSUME NEW q \in Double, NEW j PROVE Leads(to, q, j) <=> Leads(ins, q, j) /\ j # i
    <2>1. q[1] \in TreeNames /\ q[2] \in TreeNames
      BY PathForms
    <2>2. ASSUME Leads(to, q, j) PROVE Leads(ins, q, j) /\ j # i
      BY <1>4, <2>1, <2>2, LeadsBy
    <2>3. ASSUME Leads(ins, q, j), j # i PROVE Leads(to, q, j)
      <3>1. PICK a : Entry(ins, 1, q[1], a) /\ Entry(ins, a, q[2], j)
        BY <2>3, LeadsBy
      <3>2. a # i
        BY <1>5, <3>1
      <3>3. Entry(to, 1, q[1], a) /\ Entry(to, a, q[2], j)
        BY <1>4, <2>1, <2>3, <3>1, <3>2
      <3> QED BY <3>3, LeadsBy
    <2> QED BY <2>2, <2>3
  <1> QED BY <1>3, <1>7, <1>8, <1>9, PathForms

\* The directory d is where the path p is to be made.
Spot(ins, p, d) == (p \in Single /\ d = 1) \/ (p \in Double /\ Entry(ins, 1, p[1], d))

Extended(ins, e) == Append(ins, e)

\* The inode e can be made there: there is no such entry yet.
Makes(ins, p, d, e) ==
    /\ SoundTree(ins) /\ p \in Paths /\ d \in 1 .. Len(ins) /\ Spot(ins, p, d)
    /\ ins[d].type = "dir" /\ \A j : ~Entry(ins, d, Base(p), j)
    /\ e \in InodeSet /\ e.parent = d /\ e.name = Base(p)

Grown(ins, to, p, e) ==
    /\ SoundTree(to)
    /\ \A q \in Paths : \A j : Leads(to, q, j) <=> Leads(ins, q, j) \/ (q = p /\ j = Len(ins) + 1)
    /\ to[Len(ins) + 1] = e
    /\ \A j \in 1 .. Len(ins) : to[j] = ins[j]

\* A new inode is what its path leads to, and changes nothing else.
LEMMA AppendTree ==
    ASSUME NEW ins, NEW p, NEW d, NEW e, Makes(ins, p, d, e), NEW to, to = Extended(ins, e)
    PROVE  Grown(ins, to, p, e)
  <1> USE DEF Makes
  <1>1. ins \in Seq(InodeSet) /\ Len(ins) \in Nat
    BY DEF SoundTree
  <1>2. PICK N : N = Len(ins) + 1
    OBVIOUS
  <1>3. /\ to \in Seq(InodeSet) /\ Len(to) = N /\ to[N] = e
        /\ \A j \in 1 .. Len(ins) : to[j] = ins[j]
    BY <1>1, <1>2 DEF Extended
  <1>4. \A a, n, j : Entry(to, a, n, j) <=> Entry(ins, a, n, j) \/ (a = d /\ n = Base(p) /\ j = N)
    <2>1. \A j : j \in 2 .. N <=> j \in 2 .. Len(ins) \/ j = N
      BY <1>1, <1>2
    <2> QED BY <1>1, <1>2, <1>3, <2>1 DEF Entry
  <1>5. (\A n, j : ~Entry(ins, N, n, j)) /\ d # N
    BY <1>1, <1>2 DEF Entry, SoundTree
  <1>6. \A a, n, j : Entry(ins, a, n, j) => j # N /\ j # 1
    BY <1>1, <1>2 DEF Entry
  <1>7. SoundTree(to)
    <2>1. Len(to) >= 1 /\ to[1].type = "dir"
      BY <1>1, <1>2, <1>3 DEF SoundTree
    <2>2. ASSUME NEW j \in 2 .. Len(to) PROVE to[j].parent \in 1 .. Len(to) /\ to[to[j].parent].type = "dir"
      BY <1>1, <1>2, <1>3 DEF SoundTree
    <2>3. ASSUME NEW a, NEW n \in TreeNames, NEW j, NEW k, Entry(to, a, n, j), Entry(to, a, n, k)
          PROVE  j = k
      BY <1>4, <2>3 DEF SoundTree
    <2> QED BY <1>3, <2>1, <2>2, <2>3 DEF SoundTree
  <1>8. ASSUME NEW q \in Single, NEW j
        PROVE  Leads(to, q, j) <=> Leads(ins, q, j) \/ (q = p /\ j = N)
    <2>1. d = 1 <=> p \in Single
      BY <1>6, PathForms DEF Spot
    <2>2. q = p <=> d = 1 /\ q[1] = Base(p)
      BY <2>1, PathForms
    <2>3. Entry(to, 1, q[1], j) <=> Entry(ins, 1, q[1], j) \/ (1 = d /\ q[1] = Base(p) /\ j = N)
      BY <1>4, Zenon
    <2>4. /\ Leads(to, q, j) <=> Entry(to, 1, q[1], j)
          /\ Leads(ins, q, j) <=> Entry(ins, 1, q[1], j)
      BY LeadsBy, Zenon
    <2> QED BY <2>2, <2>3, <2>4, Zenon
  <1>9. ASSUME NEW q \in Double, NEW j
        PROVE  Leads(to, q, j) <=> Leads(ins, q, j) \/ (q = p /\ j = N)
    <2>1. ASSUME Leads(to, q, j), ~Leads(ins, q, j) PROVE q = p /\ j = N
      <3>1. PICK a : Entry(to, 1, q[1], a) /\ Entry(to, a, q[2], j)
        BY <2>1, LeadsBy
      <3>2. CASE Entry(ins, a, q[2], j)
        <4>1. Entry(ins, 1, q[1], a)
          BY <1>4, <1>5, <3>1, <3>2
        <4> QED BY <2>1, <3>2, <4>1, LeadsBy
      <3>3. CASE a = d /\ q[2] = Base(p) /\ j = N
        <4>1. Entry(ins, 1, q[1], d)
          BY <1>4, <1>5, <3>1, <3>3
        <4>2. p \in Double /\ Entry(ins, 1, p[1], d)
          BY <1>6, <4>1 DEF Spot
        <4>3. p[1] = q[1]
          BY <4>1, <4>2 DEF Entry
        <4>4. p = <<p[1], p[2]>> /\ q = <<q[1], q[2]>> /\ Base(p) = p[2]
          BY <4>2, PathForms
        <4> QED BY <3>3, <4>3, <4>4, Zenon
      <3> QED BY <1>4, <3>1, <3>2, <3>3
    <2>2. ASSUME Leads(ins, q, j) PROVE Leads(to, q, j)
      BY <1>4, <2>2, LeadsBy
    <2>3. ASSUME q = p, j = N PROVE Leads(to, q, j)
      <3>1. Entry(ins, 1, p[1], d) /\ Base(p) = p[2]
        BY <2>3, PathForms DEF Spot
      <3>2. Entry(to, 1, q[1], d) /\ Entry(to, d, q[2], j)
        BY <1>4, <2>3, <3>1
      <3> QED BY <3>2, LeadsBy
    <2> QED BY <2>1, <2>2, <2>3
  <1>10. \A q \in Paths : \A j : Leads(to, q, j) <=> Leads(ins, q, j) \/ (q = p /\ j = N)
    BY <1>8, <1>9, PathForms, Zenon
  <1> QED BY <1>2, <1>3, <1>7, <1>10 DEF Grown

-----------------------------------------------------------------------------
(* The refinement *)

\* A path is in the root or in what a path of one name leads to.
InDir(p) == p \in Single \/ (p \in Double /\ Seen(<<p[1]>>) = Tree!Dir)

\* A change at p alone that VfsTree allows is a step of VfsTree.
LEMMA TreeStep ==
    ASSUME NEW p \in Paths, \A q \in Paths : q # p => Seen(q)' = Seen(q),
           \/ Seen(p)' = Seen(p)
           \/ /\ Seen(p) # Tree!Dir /\ InDir(p)
              /\ \/ \E t \in Texts : Seen(p)' = Tree!File(t)
                 \/ Seen(p) = Tree!Absent /\ Seen(p)' = Tree!File(Tree!Empty)
           \/ Seen(p) \notin {Tree!Absent, Tree!Dir} /\ Seen(p)' = Tree!Absent
           \/ Seen(p) = Tree!Absent /\ InDir(p) /\ Seen(p)' = Tree!Dir
    PROVE  [TreeView!TreeNext]_Shown
  <1> DEFINE changed == {q \in TreeView!TreePaths : Shown'[q] # Shown[q]}
  <1>1. TreeView!TreePaths = Paths /\ Tree!TreePaths = Paths
    BY DEF Paths, Tree!TreePaths, TreeView!TreePaths
  <1>2. \A q \in Paths : Shown[q] = Seen(q) /\ Shown'[q] = Seen(q)'
    BY DEF Shown, Paths
  <1>3. CASE Seen(p)' = Seen(p)
    <2>1. \A q \in Paths : Seen(q)' = Seen(q)
      BY <1>3, Zenon
    <2>2. Shown' = Shown
      BY <2>1 DEF Shown, Paths
    <2> QED BY <2>2
  <1>4. CASE Seen(p)' # Seen(p)
    <2>1. changed = {p}
      BY <1>1, <1>2, <1>4, Zenon
    <2>2. InDir(p) => TreeView!IsDir(TreeView!Parent(p))
      <3>1. p \in Single => TreeView!Parent(p) = <<>>
        BY PathForms DEF Parent, TreeView!Parent
      <3>2. p \in Double => TreeView!Parent(p) = <<p[1]>> /\ <<p[1]>> \in Paths
        BY PathForms DEF Parent, TreeView!Parent
      <3> QED BY <1>2, <3>1, <3>2 DEF InDir, TreeView!IsDir, TreeView!Dir, Tree!Dir
    <2>3. TreeView!Put(p) \/ TreeView!Remove(p) \/ TreeView!MakeDir(p)
      BY <1>2, <1>4, <2>2 DEF TreeView!Put, TreeView!Remove, TreeView!MakeDir, TreeView!Dir,
         TreeView!Absent, TreeView!File, TreeView!Empty, Tree!Dir, Tree!Absent, Tree!File, Tree!Empty
    <2>4. TreeView!TreeNext
      BY <2>1, <2>3 DEF TreeView!TreeNext
    <2> QED BY <2>4
  <1> QED BY <1>3, <1>4

\* SeenIs, one step later.
LEMMA SeenIsNext ==
    SoundTree(inodes') =>
        \A p \in Paths : /\ \A j : Leads(inodes', p, j) => Seen(p)' = Shows(inodes'[j])
                         /\ (\A j : ~Leads(inodes', p, j)) => Seen(p)' = Tree!Absent
  <1>1. (SoundTree(inodes) =>
           \A p \in Paths : /\ \A j : Leads(inodes, p, j) => Seen(p) = Shows(inodes[j])
                            /\ (\A j : ~Leads(inodes, p, j)) => Seen(p) = Tree!Absent)'
    BY SeenIs, PTL
  <1> QED BY <1>1

\* Where a path is to be made: what resolves as its parent is the spot for it.
LEMMA SpotIs ==
    ASSUME SoundTree(inodes), NEW p \in Paths, NEW d, d = resolve(Parent(p)), d # NotFound,
           inodes[d].type = "dir"
    PROVE  d \in 1 .. Len(inodes) /\ Spot(inodes, p, d) /\ InDir(p)
  <1>1. CASE p \in Single
    <2>1. d = 1
      BY <1>1, PathForms, ResolveIs
    <2> QED BY <1>1, <2>1 DEF Spot, InDir, SoundTree
  <1>2. CASE p \in Double
    <2>1. Parent(p) = <<p[1]>> /\ <<p[1]>> \in Single /\ <<p[1]>> \in Paths /\ <<p[1]>>[1] = p[1]
      BY <1>2, PathForms
    <2>2. Leads(inodes, <<p[1]>>, d)
      BY <2>1, ResolveIs DEF Found
    <2>3. Entry(inodes, 1, p[1], d)
      BY <2>1, <2>2, LeadsBy
    <2>4. d \in 1 .. Len(inodes)
      BY <2>3 DEF Entry, SoundTree
    <2>5. Seen(<<p[1]>>) = Tree!Dir
      BY <2>1, <2>2, SeenIs DEF Shows
    <2> QED BY <1>2, <2>3, <2>4, <2>5 DEF Spot, InDir
  <1> QED BY <1>1, <1>2, PathForms

\* The inode a path leads to, and the directory it is in.
LEMMA LeadsIn ==
    ASSUME SoundTree(inodes), NEW p \in Paths, NEW i, Leads(inodes, p, i)
    PROVE  i \in 2 .. Len(inodes) /\ i \in 1 .. Len(inodes) /\ InDir(p)
  <1>0. i \in 2 .. Len(inodes) => i \in 1 .. Len(inodes)
    BY DEF SoundTree
  <1>1. CASE p \in Single
    <2>1. Entry(inodes, 1, p[1], i)
      BY <1>1, LeadsBy
    <2> QED BY <1>0, <1>1, <2>1 DEF Entry, InDir
  <1>2. CASE p \in Double
    <2>1. PICK d : Entry(inodes, 1, p[1], d) /\ Entry(inodes, d, p[2], i)
      BY <1>2, LeadsBy
    <2>2. <<p[1]>> \in Single /\ <<p[1]>> \in Paths /\ <<p[1]>>[1] = p[1]
      BY <1>2, PathForms
    <2>3. Leads(inodes, <<p[1]>>, d)
      BY <2>1, <2>2, LeadsBy
    <2>4. i \in 2 .. Len(inodes) /\ inodes[d].type = "dir"
      BY <2>1 DEF Entry, SoundTree
    <2>5. Seen(<<p[1]>>) = Tree!Dir
      BY <2>2, <2>3, <2>4, SeenIs DEF Shows
    <2> QED BY <1>0, <1>2, <2>4, <2>5 DEF InDir
  <1> QED BY <1>1, <1>2, PathForms

\* A path whose inode is the same before and after shows the same.
LEMMA SeenSame ==
    ASSUME SoundTree(inodes), SoundTree(inodes'), NEW q \in Paths,
           \A j : Leads(inodes', q, j) <=> Leads(inodes, q, j),
           \A j : Leads(inodes, q, j) => inodes'[j] = inodes[j]
    PROVE  Seen(q)' = Seen(q)
  <1>1. CASE \E j : Leads(inodes, q, j)
    <2>1. PICK j : Leads(inodes, q, j)
      BY <1>1
    <2>2. Seen(q) = Shows(inodes[j])
      BY <2>1, SeenIs
    <2>3. Seen(q)' = Shows(inodes'[j])
      BY <2>1, SeenIsNext
    <2> QED BY <2>1, <2>2, <2>3
  <1>2. CASE \A j : ~Leads(inodes, q, j)
    <2>1. Seen(q) = Tree!Absent
      BY <1>2, SeenIs
    <2>2. Seen(q)' = Tree!Absent
      BY <1>2, SeenIsNext
    <2> QED BY <2>1, <2>2
  <1> QED BY <1>1, <1>2

\* The kinds of what can be seen are different.
LEMMA Kinds ==
    /\ Tree!Absent # Tree!Dir
    /\ \A t : Tree!File(t) # Tree!Absent /\ Tree!File(t) # Tree!Dir
  <1>1. Tree!Absent.kind = "absent" /\ Tree!Dir.kind = "dir" /\ \A t : Tree!File(t).kind = "file"
    BY DEF Tree!Absent, Tree!Dir, Tree!File
  <1> QED BY <1>1

StepOK == SoundTree(inodes') /\ [TreeView!TreeNext]_Shown

\* write to a file that exists changes what is seen at its path only.
LEMMA WriteStep ==
    ASSUME SoundTree(inodes), NEW p \in Paths, write_existing(p)
    PROVE  StepOK
  <1>1. PICK i : i = resolve(p)
    OBVIOUS
  <1>2. i # NotFound /\ inodes[i].type = "file" /\ \E t \in Texts : inodes' = [inodes EXCEPT ![i].data = t]
    BY <1>1 DEF write_existing
  <1>3. PICK t \in Texts : inodes' = [inodes EXCEPT ![i].data = t]
    BY <1>2
  <1>4. Leads(inodes, p, i)
    BY <1>1, <1>2, ResolveIs DEF Found
  <1>5. i \in 2 .. Len(inodes) /\ i \in 1 .. Len(inodes) /\ InDir(p)
    BY <1>4, LeadsIn, Zenon
  <1>6. /\ SoundTree(inodes')
        /\ \A q, j : Leads(inodes', q, j) <=> Leads(inodes, q, j)
        /\ inodes'[i] = [inodes[i] EXCEPT !.data = t]
        /\ \A j \in 1 .. Len(inodes) : j # i => inodes'[j] = inodes[j]
    <2>1. inodes' = Overwritten(inodes, i, t)
      BY <1>3 DEF Overwritten
    <2> QED BY <1>5, <2>1, WriteTree
  <1>7. ASSUME NEW q \in Paths, q # p PROVE Seen(q)' = Seen(q)
    <2>1. ASSUME NEW j, Leads(inodes, q, j) PROVE inodes'[j] = inodes[j]
      <3>1. j # i
        BY <1>4, <1>7, <2>1, LeadsApart
      <3>2. j \in 1 .. Len(inodes)
        BY <2>1, LeadsIn, Zenon
      <3> QED BY <1>6, <3>1, <3>2
    <2> QED BY <1>6, <2>1, SeenSame
  <1>8. Seen(p) = Tree!File(inodes[i].data)
    BY <1>2, <1>4, SeenIs DEF Shows
  <1>9. Seen(p)' = Tree!File(t)
    <2>1. inodes[i] \in InodeSet
      BY <1>5 DEF SoundTree
    <2>2. inodes'[i].type = "file" /\ inodes'[i].data = t
      BY <1>2, <1>6, <2>1 DEF InodeSet
    <2>3. Seen(p)' = Shows(inodes'[i])
      BY <1>4, <1>6, SeenIsNext
    <2> QED BY <2>2, <2>3 DEF Shows
  <1> QED BY <1>5, <1>6, <1>7, <1>8, <1>9, Kinds, TreeStep DEF StepOK

\* rm hides the file its path leads to, and nothing else.
LEMMA RmStep ==
    ASSUME SoundTree(inodes), NEW p \in Paths, rm(p), Deleted \notin TreeNames
    PROVE  StepOK
  <1>1. PICK i : i = resolve(p)
    OBVIOUS
  <1>2. /\ i # NotFound /\ inodes[i].type = "file"
        /\ inodes' = [inodes EXCEPT ![i] = [@ EXCEPT !.name = Deleted, !.type = "null",
                                                     !.data = Tree!Empty]]
    BY <1>1 DEF rm
  <1>3. Leads(inodes, p, i)
    BY <1>1, <1>2, ResolveIs DEF Found
  <1>4. i \in 2 .. Len(inodes)
    BY <1>3, LeadsIn
  <1>5. /\ SoundTree(inodes')
        /\ \A q \in Paths : \A j : Leads(inodes', q, j) <=> Leads(inodes, q, j) /\ j # i
        /\ \A j \in 1 .. Len(inodes) : j # i => inodes'[j] = inodes[j]
    <2>1. inodes' = Removed(inodes, i)
      BY <1>2 DEF Removed
    <2> QED BY <1>2, <1>4, <2>1, RemoveTree
  <1>6. ASSUME NEW q \in Paths, q # p PROVE Seen(q)' = Seen(q)
    <2>1. ASSUME NEW j, Leads(inodes, q, j) PROVE j # i /\ inodes'[j] = inodes[j]
      <3>1. j # i
        BY <1>3, <1>6, <2>1, LeadsApart
      <3>2. j \in 1 .. Len(inodes)
        BY <2>1, LeadsIn, Zenon
      <3> QED BY <1>5, <3>1, <3>2
    <2>2. \A j : Leads(inodes', q, j) <=> Leads(inodes, q, j)
      BY <1>5, <2>1
    <2> QED BY <1>5, <2>1, <2>2, SeenSame
  <1>7. Seen(p) = Tree!File(inodes[i].data)
    BY <1>2, <1>3, SeenIs DEF Shows
  <1>8. Seen(p)' = Tree!Absent
    <2>1. \A j : Leads(inodes, p, j) => j = i
      BY <1>1, ResolveIs DEF Found
    <2>2. \A j : ~Leads(inodes', p, j)
      BY <1>5, <2>1
    <2> QED BY <1>5, <2>2, SeenIsNext
  <1> QED BY <1>5, <1>6, <1>7, <1>8, Kinds, TreeStep DEF StepOK

\* A new inode where there was none.
LEMMA NewStep ==
    ASSUME SoundTree(inodes), NEW p \in Paths, NEW d, d = resolve(Parent(p)), d # NotFound,
           inodes[d].type = "dir", \A j : ~Leads(inodes, p, j),
           NEW e \in InodeSet, e.parent = d, e.name = Base(p), inodes' = Append(inodes, e),
           \/ e.type = "dir"
           \/ e.type = "file" /\ (e.data \in Texts \/ e.data = Tree!Empty)
    PROVE  StepOK
  <1>1. d \in 1 .. Len(inodes) /\ Spot(inodes, p, d) /\ InDir(p)
    BY SpotIs
  <1>2. \A j : ~Entry(inodes, d, Base(p), j)
    <2>1. CASE p \in Single
      <3>1. d = 1 /\ Base(p) = p[1]
        BY <1>1, <2>1, PathForms DEF Spot
      <3>2. \A j : Leads(inodes, p, j) <=> Entry(inodes, 1, p[1], j)
        BY <2>1, LeadsBy, Zenon
      <3> QED BY <3>1, <3>2
    <2>2. CASE p \in Double
      <3>1. Entry(inodes, 1, p[1], d) /\ Base(p) = p[2]
        BY <1>1, <2>2, PathForms DEF Spot
      <3>2. \A j : Leads(inodes, p, j) <=>
                     \E i : Entry(inodes, 1, p[1], i) /\ Entry(inodes, i, p[2], j)
        BY <2>2, LeadsBy, Zenon
      <3> QED BY <3>1, <3>2, Zenon
    <2> QED BY <2>1, <2>2, PathForms
  <1>3. PICK N : N = Len(inodes) + 1
    OBVIOUS
  <1>4. /\ SoundTree(inodes')
        /\ \A q \in Paths : \A j : Leads(inodes', q, j) <=> Leads(inodes, q, j) \/ (q = p /\ j = N)
        /\ inodes'[N] = e
        /\ \A j \in 1 .. Len(inodes) : inodes'[j] = inodes[j]
    <2>1. Makes(inodes, p, d, e)
      BY <1>1, <1>2 DEF Makes
    <2>2. inodes' = Extended(inodes, e)
      BY DEF Extended
    <2>3. Grown(inodes, inodes', p, e)
      BY <2>1, <2>2, AppendTree
    <2> QED BY <1>3, <2>3 DEF Grown
  <1>5. ASSUME NEW q \in Paths, q # p PROVE Seen(q)' = Seen(q)
    <2>1. \A j : Leads(inodes', q, j) <=> Leads(inodes, q, j)
      BY <1>4, <1>5
    <2>2. ASSUME NEW j, Leads(inodes, q, j) PROVE inodes'[j] = inodes[j]
      <3>1. j \in 1 .. Len(inodes)
        BY <2>2, LeadsIn, Zenon
      <3> QED BY <1>4, <3>1
    <2> QED BY <1>4, <2>1, <2>2, SeenSame
  <1>6. Seen(p) = Tree!Absent
    BY SeenIs
  <1>7. Seen(p)' = Shows(e)
    <2>1. Leads(inodes', p, N)
      BY <1>4
    <2>2. Seen(p)' = Shows(inodes'[N])
      BY <1>4, <2>1, SeenIsNext, Zenon
    <2> QED BY <1>4, <2>2
  <1>8. \/ Seen(p)' = Tree!Dir
        \/ \E t \in Texts : Seen(p)' = Tree!File(t)
        \/ Seen(p)' = Tree!File(Tree!Empty)
    BY <1>7 DEF Shows
  <1> QED BY <1>1, <1>4, <1>5, <1>6, <1>8, Kinds, TreeStep DEF StepOK

\* write to a new path adds a file below a directory that exists.
LEMMA WriteNewStep ==
    ASSUME SoundTree(inodes), NEW p \in Paths, write_new(p)
    PROVE  StepOK
  <1>1. PICK d : d = resolve(Parent(p))
    OBVIOUS
  <1>2. PICK t \in Texts \cup {Big} :
            inodes' = Append(inodes, [Inode(Base(p), "file", d) EXCEPT
                                        !.data = IF t = Big THEN Tree!Empty ELSE t])
    BY <1>1 DEF write_new
  <1>3. resolve(p) = NotFound /\ d # NotFound /\ inodes[d].type = "dir"
    BY <1>1 DEF write_new
  <1>4. PICK e : e = [Inode(Base(p), "file", d) EXCEPT !.data = IF t = Big THEN Tree!Empty ELSE t]
    OBVIOUS
  <1>5. Base(p) \in TreeNames /\ d \in Nat
    <2>1. d \in 1 .. Len(inodes)
      BY <1>1, <1>3, SpotIs, Zenon
    <2>2. Len(inodes) \in Nat
      BY DEF SoundTree
    <2>3. Base(p) \in TreeNames
      BY BaseNames
    <2> QED BY <2>1, <2>2, <2>3
  <1>6. /\ e \in InodeSet /\ e.parent = d /\ e.name = Base(p) /\ e.type = "file"
        /\ e.data \in Texts \/ e.data = Tree!Empty
    BY <1>4, <1>5 DEF Inode, InodeSet
  <1>7. \A j : ~Leads(inodes, p, j)
    <2>1. \A j : Leads(inodes, p, j) => j = NotFound
      BY <1>3, ResolveIs DEF Found
    <2>2. ~(NotFound \in 2 .. Len(inodes))
      BY DEF NotFound
    <2> QED BY <2>1, <2>2, LeadsIn
  <1> QED BY <1>1, <1>2, <1>3, <1>4, <1>6, <1>7, NewStep

\* mkdir adds an empty directory below a directory that exists.
LEMMA MkdirStep ==
    ASSUME SoundTree(inodes), NEW p \in Paths, mkdir(p)
    PROVE  StepOK
  <1>1. PICK d : d = resolve(Parent(p))
    OBVIOUS
  <1>2. /\ d # NotFound /\ inodes[d].type = "dir" /\ Child(d, Base(p)) = NotFound
        /\ inodes' = Append(inodes, Inode(Base(p), "dir", d))
    BY <1>1 DEF mkdir
  <1>3. PICK e : e = Inode(Base(p), "dir", d)
    OBVIOUS
  <1>4. d \in 1 .. Len(inodes) /\ Spot(inodes, p, d)
    BY <1>1, <1>2, SpotIs
  <1>5. Base(p) \in TreeNames /\ d \in Nat
    <2>1. Len(inodes) \in Nat
      BY DEF SoundTree
    <2>2. Base(p) \in TreeNames
      BY BaseNames
    <2> QED BY <1>4, <2>1, <2>2
  <1>6. e \in InodeSet /\ e.parent = d /\ e.name = Base(p) /\ e.type = "dir"
    BY <1>3, <1>5 DEF Inode, InodeSet
  <1>7. \A j : ~Entry(inodes, d, Base(p), j)
    <2>1. \A j : Entry(inodes, d, Base(p), j) => j = NotFound
      BY <1>2, <1>5, ChildIs
    <2> QED BY <2>1 DEF Entry, NotFound
  <1>8. \A j : ~Leads(inodes, p, j)
    <2>1. CASE p \in Single
      <3>1. d = 1 /\ Base(p) = p[1]
        BY <1>4, <2>1, PathForms DEF Spot
      <3>2. \A j : Leads(inodes, p, j) <=> Entry(inodes, 1, p[1], j)
        BY <2>1, LeadsBy, Zenon
      <3> QED BY <1>7, <3>1, <3>2
    <2>2. CASE p \in Double
      <3>1. Entry(inodes, 1, p[1], d) /\ Base(p) = p[2] /\ p[1] \in TreeNames
        BY <1>4, <2>2, PathForms DEF Spot
      <3>2. \A k : Entry(inodes, 1, p[1], k) => k = d
        BY <3>1 DEF SoundTree
      <3>3. \A j : Leads(inodes, p, j) <=>
                     \E i : Entry(inodes, 1, p[1], i) /\ Entry(inodes, i, p[2], j)
        BY <2>2, LeadsBy, Zenon
      <3> QED BY <1>7, <3>1, <3>2, <3>3, Zenon
    <2> QED BY <2>1, <2>2, PathForms
  <1> QED BY <1>1, <1>2, <1>3, <1>6, <1>8, NewStep

\* The inode vector of vfs.rs, with the inodes rm leaves dead in it and the path
\* cache beside it, behaves as a tree of names: write, rm and mkdir change what is
\* seen at one path, as VfsTree says, for any names, contents, bounds and hash.
THEOREM TreeImplemented ==
    ASSUME Deleted \notin TreeNames
    PROVE  VfsSpec => ImplementsTree
  <1>1. VfsInit => VfsInv /\ TreeView!TreeInit
    <2> SUFFICES ASSUME VfsInit PROVE SoundTree(inodes) /\ TreeView!TreeInit
      BY DEF VfsInv
    <2>1. inodes = <<Root>> /\ Root \in InodeSet /\ Root.type = "dir"
      BY DEF VfsInit, Root, InodeSet
    <2>2. Len(inodes) = 1 /\ inodes \in Seq(InodeSet) /\ inodes[1].type = "dir"
      BY <2>1
    <2>3. \A i, n, j : ~Entry(inodes, i, n, j)
      BY <2>2 DEF Entry
    <2>4. SoundTree(inodes)
      BY <2>2, <2>3 DEF SoundTree
    <2>5. \A p \in Paths : Seen(p) = Tree!Absent
      <3> SUFFICES ASSUME NEW p \in Paths PROVE Seen(p) = Tree!Absent
        OBVIOUS
      <3>1. \A j : ~Leads(inodes, p, j)
        BY <2>3, LeadsBy, PathForms
      <3> QED BY <2>4, <3>1, SeenIs
    <2>6. TreeView!TreeInit
      BY <2>5 DEF Shown, TreeView!TreeInit, TreeView!TreePaths, TreeView!Absent, Tree!Absent, Paths, Tree!TreePaths
    <2> QED BY <2>4, <2>6
  <1>2. VfsInv /\ [VfsNext]_vfsvars =>
            VfsInv' /\ [TreeView!TreeNext]_Shown
    <2> SUFFICES ASSUME SoundTree(inodes), [VfsNext]_vfsvars
                 PROVE  SoundTree(inodes') /\ [TreeView!TreeNext]_Shown
      BY DEF VfsInv
    <2>1. ASSUME NEW p \in Paths, write_existing(p) \/ write_new(p) \/ rm(p) \/ mkdir(p)
          PROVE  StepOK
      BY <2>1, WriteStep, WriteNewStep, RmStep, MkdirStep
    <2>2. CASE UNCHANGED vfsvars
      <3>1. inodes' = inodes /\ path_cache' = path_cache
        BY <2>2 DEF vfsvars
      <3>2. SoundTree(inodes')
        BY <3>1
      <3>3. \A q \in Paths : Seen(q)' = Seen(q)
        BY <3>1, <3>2, SeenSame
      <3>4. Shown' = Shown
        BY <3>3 DEF Shown, Paths
      <3> QED BY <3>2, <3>4
    <2> QED BY <2>1, <2>2 DEF VfsNext, StepOK
  <1> QED BY <1>1, <1>2, PTL DEF VfsSpec, ImplementsTree, TreeView!TreeSpec

-----------------------------------------------------------------------------
(* The RAM disk *)

\* Min of a set of naturals that is not empty is a member of it.
LEMMA MinIsIn ==
    ASSUME NEW S \in SUBSET Nat, S # {}
    PROVE  Min(S) \in S
  <1>1. PICK k \in S : \A j \in S : k <= j
    BY Least
  <1> QED BY <1>1, Zenon DEF Min

\* Max of a set that is bounded and not empty is a member, and no member is above it.
LEMMA MaxIsIn ==
    ASSUME NEW B \in Nat, NEW S \in SUBSET (0 .. B), S # {}
    PROVE  Max(S) \in S /\ \A y \in S : y <= Max(S)
  <1> DEFINE T == {x \in Nat : \E s \in S : x = B - s}
  <1>1. T # {} /\ T \in SUBSET Nat
    <2>1. PICK s \in S : TRUE
      OBVIOUS
    <2>2. B - s \in Nat
      BY <2>1
    <2> QED BY <2>1, <2>2
  <1>2. PICK k \in T : \A j \in T : k <= j
    <2> HIDE DEF T
    <2> QED BY <1>1, Least
  <1>3. PICK s \in S : k = B - s
    BY <1>2
  <1>4. ASSUME NEW y \in S PROVE s >= y
    <2>1. B - y \in T
      OBVIOUS
    <2>2. B - s <= B - y
      BY <1>2, <1>3, <2>1
    <2> QED BY <2>2
  <1>5. \E x \in S : \A y \in S : x >= y
    BY <1>4
  <1>6. Max(S) \in S /\ \A y \in S : Max(S) >= y
    BY <1>5, Zenon DEF Max
  <1> QED BY <1>6

-----------------------------------------------------------------------------
Entries == [active : BOOLEAN, name : RamNames, off : Nat, size : Nat]

\* What an entry holds.
Held(e, d) == [k \in 1 .. e.size |-> d[e.off + k - 1]]

RamTypes ==
    /\ formatted \in BOOLEAN /\ saves \in Nat
    /\ entries \in [Slot -> Entries]
    /\ DOMAIN data = 0 .. MAX_FILE_DATA - 1
    /\ DOMAIN kept = RamNames

\* The entries of files: inside the data area, one per name, holding what was kept;
\* a name without one has nothing kept.
FilesOK(es, d, ks) ==
    /\ \A i \in Active(es) : /\ es[i].off + es[i].size <= MAX_FILE_DATA
                             /\ Held(es[i], d) = ks[es[i].name]
    /\ \A i, j \in Active(es) : es[i].name = es[j].name => i = j
    /\ \A n \in RamNames : Named(es, n) = {} => ks[n] = Gone

RamInv ==
    /\ RamTypes /\ FilesOK(entries, data, kept)
    /\ ~formatted => Active(entries) = {}

\* No file: nothing is active.
LEMMA NoneActive ==
    ASSUME NEW d
    PROVE  /\ [i \in Slot |-> NoFile] \in [Slot -> Entries]
           /\ Active([i \in Slot |-> NoFile]) = {}
           /\ FilesOK([i \in Slot |-> NoFile], d, [n \in RamNames |-> Gone])
  <1>1. NoFile \in Entries /\ NoFile.active = FALSE
    <2>1. (CHOOSE n \in RamNames : TRUE) \in RamNames
      BY RamAssumption
    <2> QED BY <2>1 DEF NoFile, Entries
  <1>2. Active([i \in Slot |-> NoFile]) = {}
    BY <1>1 DEF Active
  <1> QED BY <1>1, <1>2 DEF FilesOK, Named

\* What delete_file leaves: nothing of that name, and the other files as they were.
LEMMA DeleteKeeps ==
    ASSUME RamInv, NEW n \in RamNames, NEW es, es = delete_file(n)
    PROVE  /\ es \in [Slot -> Entries]
           /\ Active(es) = Active(entries) \ Named(entries, n)
           /\ \A i \in Active(es) : es[i] = entries[i]
           /\ Named(es, n) = {}
  <1>1. CASE Named(entries, n) = {}
    <2>1. es = entries
      BY <1>1 DEF delete_file
    <2> QED BY <1>1, <2>1 DEF RamInv, RamTypes
  <1>2. CASE Named(entries, n) # {}
    <2> DEFINE m == Min(Named(entries, n))
    <2>1. Named(entries, n) \in SUBSET Nat
      BY DEF Named, Active, Slot
    <2>2. m \in Named(entries, n)
      BY <1>2, <2>1, MinIsIn
    <2>3. es = [entries EXCEPT ![m].active = FALSE]
      BY <1>2 DEF delete_file
    <2> HIDE DEF m
    <2>4. m \in Active(entries) /\ m \in Slot /\ entries[m].name = n
      BY <2>2 DEF Named, Active
    <2>5. Named(entries, n) = {m}
      <3>1. \A i, j \in Active(entries) : entries[i].name = entries[j].name => i = j
        BY Zenon DEF RamInv, FilesOK
      <3>2. ASSUME NEW i \in Named(entries, n) PROVE i = m
        BY <2>4, <3>1, Zenon DEF Named
      <3> QED BY <2>2, <3>2, Zenon
    <2>6. es \in [Slot -> Entries] /\ es[m].active = FALSE /\ \A i \in Slot \ {m} : es[i] = entries[i]
      <3>1. entries \in [Slot -> Entries] /\ entries[m] \in Entries
        BY <2>4 DEF RamInv, RamTypes
      <3>2. PICK e : e = [entries[m] EXCEPT !.active = FALSE]
        OBVIOUS
      <3>3. e \in Entries /\ e.active = FALSE
        BY <3>1, <3>2 DEF Entries
      <3>4. es = [entries EXCEPT ![m] = e]
        BY <2>3, <3>2
      <3> QED BY <2>4, <3>1, <3>3, <3>4
    <2>7. Active(es) = Active(entries) \ {m}
      BY <2>4, <2>6 DEF Active
    <2>8. \A i \in Active(es) : i \in Slot \ {m} /\ i \in Active(entries)
      BY <2>7 DEF Active
    <2>9. \A i \in Active(es) : es[i] = entries[i]
      BY <2>6, <2>8, Zenon
    <2>10. ASSUME NEW i \in Active(es), es[i].name = n PROVE FALSE
      <3>1. i \in Named(entries, n)
        BY <2>8, <2>9, <2>10, Zenon DEF Named
      <3> QED BY <3>1, <2>5, <2>8, Zenon
    <2>11. Named(es, n) = {}
      BY <2>10, Zenon DEF Named
    <2> QED BY <2>5, <2>6, <2>7, <2>9, <2>11, Zenon
  <1> QED BY <1>1, <1>2

\* next_free_offset is inside the data area and behind every file.
LEMMA OffsetIsBehind ==
    ASSUME NEW es \in [Slot -> Entries],
           \A i \in Active(es) : es[i].off + es[i].size <= MAX_FILE_DATA
    PROVE  /\ next_free_offset(es) \in Nat
           /\ \A i \in Active(es) : es[i].off + es[i].size <= next_free_offset(es)
  <1> DEFINE S == {0} \cup {es[i].off + es[i].size : i \in Active(es)}
  <1>1. \A i \in Active(es) : es[i].off \in Nat /\ es[i].size \in Nat
    BY DEF Active, Entries
  <1>2. S \in SUBSET (0 .. MAX_FILE_DATA) /\ S # {}
    BY <1>1, RamAssumption
  <1>3. \A i \in Active(es) : es[i].off + es[i].size \in S
    OBVIOUS
  <1>4. next_free_offset(es) = Max(S)
    BY DEF next_free_offset
  <1> HIDE DEF S
  <1>5. Max(S) \in S /\ \A y \in S : y <= Max(S)
    BY <1>2, MaxIsIn, RamAssumption
  <1>6. Max(S) \in Nat
    <2>1. Max(S) \in 0 .. MAX_FILE_DATA
      BY <1>2, <1>5, Zenon
    <2> QED BY <2>1, RamAssumption
  <1> QED BY <1>3, <1>4, <1>5, <1>6, Zenon

\* A byte of a file that ends before `off` is a byte of the area before `off`.
LEMMA ByteBefore ==
    ASSUME NEW o \in Nat, NEW z \in Nat, NEW off \in Nat, NEW len \in Nat,
           o + z <= off, off + len <= MAX_FILE_DATA, NEW k \in 1 .. z
    PROVE  o + k - 1 \in 0 .. MAX_FILE_DATA - 1 /\ ~(off <= o + k - 1)
  BY RamAssumption

\* What write_file does when there is room: the entry f is free, the place is
\* behind every file, and there is no file of that name.
Room(es, d, ks, n, len, contents, f, off) ==
    /\ es \in [Slot -> Entries] /\ FilesOK(es, d, ks)
    /\ DOMAIN d = 0 .. MAX_FILE_DATA - 1 /\ DOMAIN ks = RamNames
    /\ n \in RamNames /\ Named(es, n) = {}
    /\ len \in Nat /\ contents = [k \in 1 .. len |-> contents[k]]
    /\ f \in Slot /\ f \notin Active(es)
    /\ off \in Nat /\ off + len <= MAX_FILE_DATA
    /\ \A i \in Active(es) : es[i].off + es[i].size <= off

Added(es, n, len, f, off) ==
    [es EXCEPT ![f] = [active |-> TRUE, name |-> n, off |-> off, size |-> len]]

Written(d, len, contents, off) ==
    [k \in DOMAIN d |-> IF off <= k /\ k < off + len THEN contents[k - off + 1] ELSE d[k]]

\* The new file is in place and the others are as they were.
LEMMA AddKeeps ==
    ASSUME NEW es, NEW d, NEW ks, NEW n, NEW len, NEW contents, NEW f, NEW off,
           Room(es, d, ks, n, len, contents, f, off)
    PROVE  /\ Added(es, n, len, f, off) \in [Slot -> Entries]
           /\ FilesOK(Added(es, n, len, f, off), Written(d, len, contents, off),
                      [ks EXCEPT ![n] = contents])
  <1> USE DEF Room
  <1>a. PICK es2, d2, ks2 : /\ es2 = Added(es, n, len, f, off)
                            /\ d2 = Written(d, len, contents, off)
                            /\ ks2 = [ks EXCEPT ![n] = contents]
    OBVIOUS
  <1> DEFINE new == [active |-> TRUE, name |-> n, off |-> off, size |-> len]
  <1>1. new \in Entries /\ new.active /\ new.name = n /\ new.off = off /\ new.size = len
    BY DEF Entries
  <1>2. es2 \in [Slot -> Entries] /\ es2[f] = new /\ \A i \in Slot \ {f} : es2[i] = es[i]
    BY <1>a, <1>1 DEF Added
  <1> HIDE DEF new
  <1>3. Active(es2) = Active(es) \cup {f} /\ \A i \in Active(es) : es2[i] = es[i] /\ i # f
    BY <1>1, <1>2 DEF Active
  <1>4. Held(new, d2) = contents
    <2>1. ASSUME NEW k \in 1 .. len PROVE d2[off + k - 1] = contents[k]
      <3>1. off + k - 1 \in DOMAIN d /\ off <= off + k - 1 /\ off + k - 1 < off + len
            /\ (off + k - 1) - off + 1 = k
        BY RamAssumption
      <3> QED BY <3>1, <1>a DEF Written
    <2> QED BY <2>1, <1>1 DEF Held
  <1>5. ASSUME NEW i \in Active(es) PROVE Held(es[i], d2) = Held(es[i], d)
    <2>1. es[i].off \in Nat /\ es[i].size \in Nat /\ es[i].off + es[i].size <= off
      BY DEF Active, Entries
    <2>2. ASSUME NEW k \in 1 .. es[i].size PROVE d2[es[i].off + k - 1] = d[es[i].off + k - 1]
      <3>1. es[i].off + k - 1 \in DOMAIN d /\ ~(off <= es[i].off + k - 1)
        BY <2>1, ByteBefore
      <3> QED BY <3>1, <1>a DEF Written
    <2> QED BY <2>2 DEF Held
  <1>6. ASSUME NEW i \in Active(es) PROVE es[i].name # n /\ es[i].name \in RamNames
    BY DEF Named, Active, Entries
  <1>7. ks2[n] = contents /\ \A x \in RamNames \ {n} : ks2[x] = ks[x]
    BY <1>a
  <1>8. ASSUME NEW i \in Active(es2)
        PROVE  es2[i].off + es2[i].size <= MAX_FILE_DATA /\ Held(es2[i], d2) = ks2[es2[i].name]
    <2>1. CASE i = f
      BY <2>1, <1>1, <1>2, <1>4, <1>7
    <2>2. CASE i # f
      <3>1. i \in Active(es) /\ es2[i] = es[i]
        BY <2>2, <1>3
      <3>2. es[i].off + es[i].size <= MAX_FILE_DATA /\ Held(es[i], d) = ks[es[i].name]
        BY <3>1 DEF FilesOK
      <3> QED BY <3>1, <3>2, <1>5, <1>6, <1>7
    <2> QED BY <2>1, <2>2
  <1>9. ASSUME NEW i \in Active(es2), NEW j \in Active(es2), es2[i].name = es2[j].name PROVE i = j
    <2>1. \A x \in Active(es2) : x = f \/ (x \in Active(es) /\ es2[x] = es[x])
      BY <1>3, Zenon
    <2>2. es2[f].name = n
      BY <1>1, <1>2
    <2>3. \A x, y \in Active(es) : es[x].name = es[y].name => x = y
      BY DEF FilesOK
    <2> QED BY <1>6, <1>9, <2>1, <2>2, <2>3, Zenon
  <1>10. ASSUME NEW x \in RamNames, Named(es2, x) = {} PROVE ks2[x] = Gone
    <2>1. x # n
      BY <1>10, <1>1, <1>2, <1>3 DEF Named
    <2>2. Named(es, x) = {}
      <3>1. ASSUME NEW i \in Active(es), es[i].name = x PROVE FALSE
        <4>1. i \in Active(es2) /\ es2[i].name = x
          BY <1>3, <3>1, Zenon
        <4> QED BY <4>1, <1>10, Zenon DEF Named
      <3> QED BY <3>1, Zenon DEF Named
    <2> QED BY <2>1, <2>2, <1>7 DEF FilesOK
  <1>11. FilesOK(es2, d2, ks2)
    BY <1>8, <1>9, <1>10 DEF FilesOK
  <1> QED BY <1>a, <1>2, <1>11

\* After delete_file the remaining files are as they were, whether or not the name
\* is forgotten.
LEMMA ForgetKeeps ==
    ASSUME RamInv, NEW n \in RamNames, NEW es, es = delete_file(n),
           NEW ks, ks = [kept EXCEPT ![n] = Gone]
    PROVE  FilesOK(es, data, ks) /\ DOMAIN ks = RamNames
  <1>1. /\ Active(es) = Active(entries) \ Named(entries, n)
        /\ \A i \in Active(es) : es[i] = entries[i]
    BY DeleteKeeps
  <1>2. ks[n] = Gone /\ (\A x \in RamNames \ {n} : ks[x] = kept[x]) /\ DOMAIN ks = RamNames
    BY DEF RamInv, RamTypes
  <1>3. ASSUME NEW i \in Active(es) PROVE i \in Active(entries) /\ entries[i].name # n
                                           /\ entries[i].name \in RamNames
    BY <1>1 DEF Named, Active, RamInv, RamTypes, Entries
  <1>4. ASSUME NEW i \in Active(es)
        PROVE  es[i].off + es[i].size <= MAX_FILE_DATA /\ Held(es[i], data) = ks[es[i].name]
    <2>1. /\ entries[i].off + entries[i].size <= MAX_FILE_DATA
          /\ Held(entries[i], data) = kept[entries[i].name]
      BY <1>3 DEF RamInv, FilesOK
    <2>2. es[i] = entries[i] /\ ks[entries[i].name] = kept[entries[i].name]
      BY <1>1, <1>2, <1>3
    <2> QED BY <2>1, <2>2
  <1>5. ASSUME NEW i \in Active(es), NEW j \in Active(es), es[i].name = es[j].name PROVE i = j
    BY <1>1, <1>3, <1>5 DEF RamInv, FilesOK
  <1>6. ASSUME NEW x \in RamNames, Named(es, x) = {}, x # n PROVE ks[x] = Gone
    <2>1. Named(entries, x) = {}
      BY <1>1, <1>6 DEF Named
    <2> QED BY <1>6, <2>1, <1>2 DEF RamInv, FilesOK
  <1> QED BY <1>2, <1>4, <1>5, <1>6 DEF FilesOK

\* dsave keeps the invariant.
LEMMA SaveKeeps ==
    ASSUME RamInv, dsave
    PROVE  RamInv'
  <1>1. PICK n \in RamNames, len \in RamLengths :
            write_file(n, [k \in 1 .. len |-> <<saves', k>>])
    BY DEF dsave
  <1>2. saves' \in Nat /\ formatted' = formatted /\ formatted /\ len \in Nat
    BY RamAssumption DEF dsave, RamInv, RamTypes
  <1>3. PICK contents : contents = [k \in 1 .. len |-> <<saves', k>>]
    OBVIOUS
  <1>4. contents = [k \in 1 .. len |-> contents[k]] /\ Len(contents) = len
    <2>1. contents \in Seq({<<saves', k>> : k \in 1 .. len})
      BY <1>2, <1>3
    <2> QED BY <1>2, <1>3, <2>1
  <1>5. PICK es : es = delete_file(n)
    OBVIOUS
  <1>6. PICK off : off = next_free_offset(es)
    OBVIOUS
  <1>7. PICK free : free = Slot \ Active(es)
    OBVIOUS
  <1>8. /\ es \in [Slot -> Entries] /\ Named(es, n) = {}
        /\ Active(es) \subseteq Active(entries) /\ \A i \in Active(es) : es[i] = entries[i]
    BY <1>5, DeleteKeeps, Zenon
  <1>9. off \in Nat /\ \A i \in Active(es) : es[i].off + es[i].size <= off
    <2>1. \A i \in Active(es) : es[i].off + es[i].size <= MAX_FILE_DATA
      BY <1>8 DEF RamInv, FilesOK
    <2> QED BY <1>6, <1>8, <2>1, OffsetIsBehind
  <1>10. PICK ks : ks = [kept EXCEPT ![n] = Gone]
    OBVIOUS
  <1>11. FilesOK(es, data, ks) /\ DOMAIN ks = RamNames
    BY <1>5, <1>10, ForgetKeeps
  <1>12. write_file(n, contents)
    BY <1>1, <1>3
  <1>13. CASE UNCHANGED <<entries, data, kept>>
    BY <1>2, <1>13 DEF RamInv, RamTypes
  <1>14. CASE entries' = es /\ kept' = ks /\ UNCHANGED data
    BY <1>2, <1>8, <1>11, <1>14 DEF RamInv, RamTypes
  <1>15. CASE /\ free # {} /\ off + len <= MAX_FILE_DATA
              /\ data' = [k \in DOMAIN data |->
                            IF off <= k /\ k < off + len THEN contents[k - off + 1] ELSE data[k]]
              /\ entries' = [es EXCEPT ![Min(free)] =
                               [active |-> TRUE, name |-> n, off |-> off, size |-> len]]
              /\ kept' = [kept EXCEPT ![n] = contents]
    <2>1. PICK f : f = Min(free)
      OBVIOUS
    <2>2. f \in Slot /\ f \notin Active(es)
      <3>1. free \in SUBSET Nat
        BY <1>7 DEF Slot
      <3> QED BY <1>7, <1>15, <2>1, <3>1, MinIsIn
    <2>3. kept' = [ks EXCEPT ![n] = contents]
      BY <1>10, <1>15
    <2>4. DOMAIN data = 0 .. MAX_FILE_DATA - 1 /\ DOMAIN data' = DOMAIN data /\ DOMAIN kept' = RamNames
      BY <1>11, <1>15, <2>3 DEF RamInv, RamTypes
    <2>5. entries' = [es EXCEPT ![f] = [active |-> TRUE, name |-> n, off |-> off, size |-> len]]
      BY <1>15, <2>1
    <2>6. entries' \in [Slot -> Entries] /\ FilesOK(entries', data', kept')
      <3>1. Room(es, data, ks, n, len, contents, f, off)
        BY <1>1, <1>2, <1>4, <1>8, <1>9, <1>11, <1>15, <2>2, <2>4 DEF Room
      <3>2. /\ entries' = Added(es, n, len, f, off)
            /\ data' = Written(data, len, contents, off)
        BY <1>15, <2>5 DEF Added, Written
      <3> QED BY <2>3, <3>1, <3>2, AddKeeps
    <2> QED BY <1>2, <2>4, <2>6 DEF RamInv, RamTypes
  <1> QED
    BY <1>4, <1>5, <1>6, <1>7, <1>10, <1>12, <1>13, <1>14, <1>15 DEF write_file

\* Every file on the RAM disk, for any number of entries, any size of the data area
\* and any sequence of format and dsave, reads back what the last dsave of it that
\* worked wrote (RamDisk::read_file, write_file, delete_file, next_free_offset).
THEOREM FilesReadBack == RamSpec => []RamReadBack
  <1>1. RamInit => RamInv
    <2> SUFFICES ASSUME RamInit PROVE RamInv
      OBVIOUS
    <2> QED BY NoneActive, RamAssumption DEF RamInit, RamInv, RamTypes
  <1>2. RamInv /\ [RamNext]_ramvars => RamInv'
    <2> SUFFICES ASSUME RamInv, [RamNext]_ramvars PROVE RamInv'
      OBVIOUS
    <2>1. CASE format
      BY <2>1, NoneActive DEF format, RamInv, RamTypes
    <2>2. CASE dsave
      BY <2>2, SaveKeeps
    <2>3. CASE UNCHANGED ramvars
      BY <2>3 DEF ramvars, RamInv, RamTypes
    <2> QED BY <2>1, <2>2, <2>3 DEF RamNext
  <1>3. RamInv => RamReadBack
    <2> SUFFICES ASSUME RamInv, NEW n \in RamNames PROVE read_file(n) = kept[n]
      BY DEF RamReadBack
    <2>1. CASE Named(entries, n) = {}
      BY <2>1 DEF read_file, RamInv, FilesOK
    <2>2. CASE Named(entries, n) # {}
      <3>1. Named(entries, n) \in SUBSET Nat
        BY DEF Named, Active, Slot
      <3>2. PICK m : m = Min(Named(entries, n))
        OBVIOUS
      <3>3. m \in Active(entries) /\ entries[m].name = n
        BY <2>2, <3>1, <3>2, MinIsIn DEF Named
      <3>4. formatted
        BY <3>3 DEF RamInv, RamTypes
      <3>5. Held(entries[m], data) = kept[n]
        BY <3>3 DEF RamInv, FilesOK
      <3> QED BY <2>2, <3>2, <3>4, <3>5 DEF read_file, Held
    <2> QED BY <2>1, <2>2
  <1> QED BY <1>1, <1>2, <1>3, PTL DEF RamSpec

-----------------------------------------------------------------------------
(* The virtio block driver *)

Ops == {"read", "write"}
Cmd == [op : Ops, s : SectorIds, p : Places]
Req == [op : Ops, s : SectorIds, p : Places, v : Nat, quiet : BOOLEAN]

BTypes ==
    /\ call = Idle \/ call \in Req
    /\ desc = Idle \/ desc \in Cmd
    /\ busy = Idle \/ busy \in Cmd
    /\ buf \in [Places -> Nat] /\ sector \in [SectorIds -> Nat]
    /\ requests \in Nat /\ timeouts \in Nat

Done(r) == IF r.op = "write" THEN sector[r.s] = r.v ELSE buf[r.p] = sector[r.s]

Loaded(r) == r.op = "write" => buf[r.p] = r.v

Described(r) == desc = [op |-> r.op, s |-> r.s, p |-> r.p]

Submitted(r) ==
    /\ busy = Idle /\ avail = (taken + 1) % IdxMod /\ used = last_used_idx
    /\ Described(r) /\ Loaded(r)
Fetched(r) ==
    /\ busy = [op |-> r.op, s |-> r.s, p |-> r.p]
    /\ taken = avail /\ used = last_used_idx /\ Loaded(r)
Completed(r) == busy = Idle /\ taken = avail /\ Done(r)

Stages == call # Idle /\ call.quiet => Submitted(call) \/ Fetched(call) \/ Completed(call)

Answered ==
    outcome # Idle /\ outcome.how = "ok" /\ outcome.req.quiet
        => call = Idle /\ Quiet /\ Done(outcome.req)

NoneLate == timeouts = 0 => IF call = Idle THEN Quiet ELSE call.quiet

BlkInv == BTypes /\ Stages /\ Answered /\ NoneLate

\* Idle is no request.
LEMMA IdleIsNone ==
    /\ \A r \in Req : r # Idle
    /\ \A r \in Cmd : r # Idle
    /\ \A r \in Req : [op |-> r.op, s |-> r.s, p |-> r.p] \in Cmd
  <1>1. Idle.op = "none"
    BY DEF Idle
  <1>2. \A r \in Req : r.op \in Ops /\ r.s \in SectorIds /\ r.p \in Places
    BY DEF Req
  <1>3. \A r \in Cmd : r.op \in Ops
    BY DEF Cmd
  <1> QED BY <1>1, <1>2, <1>3 DEF Ops, Cmd

\* A request is put on the available ring with its buffer.
LEMMA SubmitKeeps == ASSUME BlkInv, NEW op \in Ops, Submit(op) PROVE BlkInv'
  <1> USE DEF BlkInv
  <1>1. PICK s \in SectorIds, p \in Places :
          /\ desc' = [op |-> op, s |-> s, p |-> p]
          /\ call' = [op |-> op, s |-> s, p |-> p, v |-> requests', quiet |-> Quiet]
          /\ buf' = [buf EXCEPT ![p] = IF op = "write" THEN requests' ELSE 0]
    BY DEF Submit
  <1>2. /\ call = Idle /\ requests' = requests + 1 /\ avail' = (avail + 1) % IdxMod
        /\ outcome' = Idle
        /\ UNCHANGED <<used, last_used_idx, taken, busy, sector, timeouts>>
    BY DEF Submit
  <1>3. requests' \in Nat /\ Quiet \in BOOLEAN
    BY <1>2 DEF BTypes, Quiet
  <1>4. call' \in Req /\ desc' \in Cmd
    BY <1>1, <1>3 DEF Req, Cmd
  <1>5. /\ call'.op = op /\ call'.s = s /\ call'.p = p /\ call'.v = requests'
        /\ call'.quiet = Quiet
    BY <1>1
  <1>6. BTypes'
    <2>1. buf' \in [Places -> Nat]
      BY <1>1, <1>3 DEF BTypes
    <2> QED BY <1>2, <1>3, <1>4, <2>1 DEF BTypes
  <1>7. Stages'
    <2> SUFFICES ASSUME call'.quiet PROVE Submitted(call)'
      BY DEF Stages
    <2>1. Quiet
      BY <1>5
    <2>2. busy' = Idle /\ avail' = (taken' + 1) % IdxMod /\ used' = last_used_idx'
      BY <1>2, <2>1 DEF Quiet
    <2>3. Described(call)'
      BY <1>1, <1>5 DEF Described
    <2>4. Loaded(call)'
      BY <1>1, <1>5 DEF Loaded, BTypes
    <2> QED BY <2>2, <2>3, <2>4 DEF Submitted
  <1>8. Answered'
    BY <1>2 DEF Answered
  <1>9. NoneLate'
    BY <1>2, <1>4, <1>5, IdleIsNone DEF NoneLate
  <1> QED BY <1>6, <1>7, <1>8, <1>9

\* The device takes the request the descriptors hold.
LEMMA FetchKeeps == BlkInv /\ Fetch => BlkInv'
  <1> SUFFICES ASSUME BlkInv, Fetch PROVE BlkInv'
    OBVIOUS
  <1> USE DEF BlkInv
  <1>1. /\ busy = Idle /\ taken # avail /\ busy' = desc /\ taken' = (taken + 1) % IdxMod
        /\ UNCHANGED <<call, desc, avail, used, last_used_idx, buf, sector, requests, timeouts,
                       outcome>>
    BY DEF Fetch
  <1>2. BTypes'
    BY <1>1 DEF BTypes
  <1>3. Stages'
    <2> SUFFICES ASSUME call # Idle, call.quiet PROVE Fetched(call)'
      BY <1>1 DEF Stages
    <2>1. call \in Req /\ [op |-> call.op, s |-> call.s, p |-> call.p] # Idle
      BY IdleIsNone DEF BTypes
    <2>2. Submitted(call)
      BY <1>1, <2>1 DEF Stages, Fetched, Completed
    <2> QED BY <1>1, <2>2 DEF Submitted, Fetched, Described, Loaded
  <1>4. Answered'
    BY <1>1 DEF Answered, Quiet
  <1>5. NoneLate'
    BY <1>1 DEF NoneLate, Quiet
  <1> QED BY <1>2, <1>3, <1>4, <1>5

\* The device carries out a request it has taken and puts it on the used ring.
LEMMA CompleteKeeps == BlkInv /\ Complete => BlkInv'
  <1> SUFFICES ASSUME BlkInv, Complete PROVE BlkInv'
    OBVIOUS
  <1> USE DEF BlkInv
  <1>1. /\ busy # Idle /\ busy' = Idle
        /\ UNCHANGED <<call, desc, avail, last_used_idx, taken, requests, timeouts, outcome>>
        /\ \/ /\ busy.op = "write"
              /\ sector' = [sector EXCEPT ![busy.s] = buf[busy.p]]
              /\ UNCHANGED buf
           \/ /\ busy.op = "read"
              /\ buf' = [buf EXCEPT ![busy.p] = sector[busy.s]]
              /\ UNCHANGED sector
    BY DEF Complete
  <1>2. busy.s \in SectorIds /\ busy.p \in Places
    BY <1>1 DEF BTypes, Cmd
  <1>3. BTypes'
    BY <1>1, <1>2 DEF BTypes
  <1>4. Stages'
    <2> SUFFICES ASSUME call # Idle, call.quiet PROVE Completed(call)'
      BY <1>1 DEF Stages
    <2>1. Fetched(call)
      BY <1>1 DEF Stages, Submitted, Completed
    <2>2. busy.op = call.op /\ busy.s = call.s /\ busy.p = call.p
      BY <2>1 DEF Fetched
    <2>3. Done(call)'
      <3>1. CASE busy.op = "write"
        <4>1. sector'[call.s] = buf[call.p] /\ call' = call
          BY <1>1, <1>2, <2>2, <3>1 DEF BTypes
        <4> QED BY <2>1, <2>2, <3>1, <4>1 DEF Done, Fetched, Loaded
      <3>2. CASE busy.op = "read"
        <4>1. buf'[call.p] = sector'[call.s] /\ call' = call
          BY <1>1, <1>2, <2>2, <3>2 DEF BTypes
        <4> QED BY <2>2, <3>2, <4>1 DEF Done
      <3> QED BY <1>1, <3>1, <3>2
    <2> QED BY <1>1, <2>1, <2>3 DEF Completed, Fetched
  <1>5. Answered'
    BY <1>1 DEF Answered, Quiet
  <1>6. NoneLate'
    BY <1>1 DEF NoneLate, Quiet
  <1> QED BY <1>3, <1>4, <1>5, <1>6

\* The driver sees the used index move on and returns the status.
LEMMA PollKeeps == BlkInv /\ Poll => BlkInv'
  <1> SUFFICES ASSUME BlkInv, Poll PROVE BlkInv'
    OBVIOUS
  <1> USE DEF BlkInv
  <1>1. /\ call # Idle /\ used # last_used_idx /\ last_used_idx' = used /\ call' = Idle
        /\ UNCHANGED <<desc, avail, used, taken, busy, buf, sector, requests, timeouts>>
    BY DEF Poll
  <1>2. outcome'.req = call
    <2>1. PICK st \in {status[call.p], 255} :
              outcome' = [req |-> call, how |-> IF st = 0 THEN "ok" ELSE "error"]
      BY DEF Poll
    <2> QED BY <2>1
  <1>3. BTypes' /\ Stages'
    BY <1>1 DEF BTypes, Stages
  <1>4. call.quiet => Completed(call)
    BY <1>1 DEF Stages, Submitted, Fetched
  <1>5. call.quiet => Quiet' /\ Done(call)
    BY <1>1, <1>4 DEF Completed, Quiet
  <1>6. Answered'
    BY <1>1, <1>2, <1>5 DEF Answered, Done
  <1>7. NoneLate'
    BY <1>1, <1>5 DEF NoneLate
  <1> QED BY <1>3, <1>6, <1>7

\* The driver gives up on a request, which stays with the device.
LEMMA TimeoutKeeps == BlkInv /\ Timeout => BlkInv'
  <1> SUFFICES ASSUME BlkInv, Timeout PROVE BlkInv'
    OBVIOUS
  <1> USE DEF BlkInv
  <1>1. /\ timeouts' = timeouts + 1 /\ call' = Idle /\ outcome'.how = "timeout"
        /\ UNCHANGED <<desc, avail, used, last_used_idx, taken, busy, buf, sector, requests>>
    BY DEF Timeout
  <1>2. BTypes' /\ Stages' /\ Answered'
    <2>1. BTypes'
      BY <1>1 DEF BTypes
    <2>2. Stages'
      BY <1>1 DEF Stages
    <2>3. Answered'
      BY <1>1 DEF Answered
    <2> QED BY <2>1, <2>2, <2>3
  <1>3. NoneLate'
    BY <1>1 DEF BTypes, NoneLate
  <1> QED BY <1>2, <1>3

-----------------------------------------------------------------------------
\* The inductive invariant holds in every reachable state.
THEOREM BlkInvariant == Spec => []BlkInv
  <1>1. Init => BlkInv
    BY DEF Init, BlkInv, BTypes, Stages, Answered, NoneLate, Quiet
  <1>2. BlkInv /\ UNCHANGED bvars => BlkInv'
    BY DEF bvars, BlkInv, BTypes, Stages, Answered, NoneLate, Quiet, Submitted, Fetched,
           Completed, Described, Loaded, Done
  <1>3. BlkInv /\ [Next]_bvars => BlkInv'
    BY <1>2, SubmitKeeps, FetchKeeps, CompleteKeeps, PollKeeps, TimeoutKeeps DEF Next, Ops
  <1> QED BY <1>1, <1>3, PTL DEF Spec

\* virtio_blk.rs: Ok means that the request was carried out, if nothing of an
\* earlier one was on its way when it was submitted.
THEOREM OkIsDone == Spec => []OkMeansDone
  <1>1. BlkInv => OkMeansDone
    BY DEF BlkInv, Answered, Done, OkMeansDone
  <1> QED BY <1>1, BlkInvariant, PTL

\* virtio_blk.rs: between two requests the driver has seen every completion,
\* until one times out.
THEOREM StaysInStep == Spec => []InStep
  <1>1. BlkInv => InStep
    BY DEF BlkInv, NoneLate, InStep
  <1> QED BY <1>1, BlkInvariant, PTL

\* virtio_blk.rs: until a request times out, a sector changes only to what the
\* request under way writes to it.
THEOREM WritesWhereAsked == Spec => WrittenWhereAsked
  <1>1. BlkInv /\ [Next]_bvars =>
          [timeouts = 0 =>
              \A s \in SectorIds :
                  sector'[s] # sector[s] =>
                      call # Idle /\ call.op = "write" /\ call.s = s /\ sector'[s] = call.v]_bvars
    <2> SUFFICES ASSUME BlkInv, [Next]_bvars, timeouts = 0, NEW s \in SectorIds,
                        sector'[s] # sector[s]
                 PROVE  call # Idle /\ call.op = "write" /\ call.s = s /\ sector'[s] = call.v
      BY DEF bvars
    <2>1. Complete
      BY DEF Next, Submit, Fetch, Poll, Timeout, bvars
    <2>2. /\ busy # Idle /\ busy.op = "write"
          /\ sector' = [sector EXCEPT ![busy.s] = buf[busy.p]]
      BY <2>1 DEF Complete
    <2>3. call # Idle /\ call.quiet
      BY <2>2 DEF BlkInv, NoneLate, Quiet
    <2>4. Fetched(call)
      BY <2>2, <2>3 DEF BlkInv, Stages, Submitted, Completed
    <2>5. busy.op = call.op /\ busy.s = call.s /\ busy.p = call.p
      BY <2>4 DEF Fetched
    <2> QED BY <2>2, <2>3, <2>4, <2>5 DEF BlkInv, BTypes, Fetched, Loaded
  <1> QED BY <1>1, BlkInvariant, PTL DEF Spec, WrittenWhereAsked
=============================================================================
