----------------------------- MODULE MCStorage -----------------------------
(***************************************************************************)
(* The storage side of the kernel, one part at a time: `part` says which   *)
(* one a behaviour exercises.  DiskFs (with Fat): the FAT image on the     *)
(* disk, and the /disk directory over it.  VirtioBlk: the driver below.    *)
(* RamDisk, Raid: the other stores.  Vfs: the tree in memory.              *)
(* The names of files on the disk are interchangeable.                     *)
(***************************************************************************)
EXTENDS VirtioBlk, RamDisk, TLC

CONSTANTS
    Names, FatEntries, DataClusters, DirSlots, Zero, SlotsPerSector, MaxVersion, MaxCuts, Lengths,
    TreeNames, Texts, Big, Deleted, MAX_INODES, MAX_PATH_CACHE,
    Bits, StripeSectors, DiskSizes, Levels, MAX_DEVICES, MaxLba

VARIABLES
    part,
    disk, vfs, MOUNTED, up, version, saved, unsure, synced, cuts,
    inodes, path_cache,
    level, disks, astatus, wrote, lost, past

\* A hash under which all paths of one length collide.
PathHash == [p \in {<<>>} \cup {<<n>> : n \in TreeNames} \cup (TreeNames \X TreeNames) |-> Len(p)]

Fs  == INSTANCE DiskFs
Vf  == INSTANCE Vfs WITH Hash <- PathHash
Rd  == INSTANCE Raid

fsVars   == <<disk, vfs, MOUNTED, up, version, saved, unsure, synced, cuts>>
treeVars == <<inodes, path_cache>>
raidVars == <<level, disks, astatus, wrote, lost, past>>
allvars  == <<part, fsVars, ramvars, treeVars, bvars, raidVars>>

\* An array has a level and disks only where arrays are exercised.
MCInit ==
    /\ part \in {"diskfs", "ramdisk", "vfs", "virtio", "raid"}
    /\ Fs!Init /\ RamInit /\ Vf!VfsInit /\ Init
    /\ Rd!Init
    /\ part # "raid" => level = "Raid0" /\ Len(disks) = 2 /\ \A d \in 1 .. 2 : disks[d].size = 1

MCNext ==
    /\ UNCHANGED part
    /\ \/ part = "diskfs" /\ Fs!Next /\ UNCHANGED <<ramvars, treeVars, bvars, raidVars>>
       \/ part = "ramdisk" /\ RamNext /\ UNCHANGED <<fsVars, treeVars, bvars, raidVars>>
       \/ part = "vfs" /\ Vf!VfsNext /\ UNCHANGED <<fsVars, ramvars, bvars, raidVars>>
       \/ part = "virtio" /\ Next /\ UNCHANGED <<fsVars, ramvars, treeVars, raidVars>>
       \/ part = "raid" /\ Rd!Next /\ UNCHANGED <<fsVars, ramvars, treeVars, bvars>>

MCSpec == MCInit /\ [][MCNext]_allvars

NameSymmetry == Permutations(Names)

-----------------------------------------------------------------------------
\* FAT: files read back as the last successful command left them.
ReadBack == part = "diskfs" => Fs!ReadBack

\* FAT: an image write cut short leaves the other files as they were.
OthersIntact == Fs!OthersIntact

\* What the callers of vfs.rs see; in the other parts nobody looks.
Shown == [p \in Vf!Paths |-> IF part = "vfs" THEN Vf!Seen(p) ELSE Vf!Tree!Absent]

TreeView == INSTANCE VfsTree WITH tree <- Shown

\* VFS: the inode vector and the path cache implement a tree of names.
ImplementsTree == TreeView!TreeSpec

\* RAID: a read that returns Ok returns what was last written.
ReadsTrue == part = "raid" => Rd!ReadsTrue

\* RAID: an array that reports Active or Degraded can be read.
StatusTrue == part = "raid" => Rd!StatusTrue

\* FAT: a file reads back as it was saved even if changes of others were cut short
\* (diskfs.rs:2).  It does not hold.
FilesSurvive == part = "diskfs" => Fs!FilesSurvive

\* FAT: a cluster that is not free belongs to a file (fat.rs:192).  It does not hold.
NoLeak == part = "diskfs" => Fs!NoLeak

\* /disk: what sync reported as written is on the disk (persist.rs:123).  It does
\* not hold.
SyncFlushes == part = "diskfs" => Fs!SyncFlushes
=============================================================================
