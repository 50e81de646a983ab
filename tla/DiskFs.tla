------------------------------- MODULE DiskFs -------------------------------
(***************************************************************************)
(* src/src/diskfs.rs on top of fat.rs, driven by the shell commands        *)
(* disksave, diskrm, diskfmt, mount-disk, disk-write and sync, with the    *)
(* VFS copy of /disk that src/src/persist.rs keeps.                        *)
(*                                                                         *)
(* Every change reads the whole image, changes it in memory and writes it  *)
(* back sector by sector in ascending order.  A sector write can fail, and *)
(* the machine can be switched off between two: the first i sectors are    *)
(* then new and the others old.  Only the shell uses diskfs, so a step is  *)
(* a whole command.                                                        *)
(***************************************************************************)
EXTENDS Naturals, Sequences, FiniteSets, Functions

CONSTANTS
    Names, FatEntries, DataClusters, DirSlots, Zero,
    SlotsPerSector,     \* directory entries in a sector: 16
    MaxVersion,         \* bound: commands that write contents
    MaxCuts,            \* bound: image writes that are cut short
    Lengths             \* clusters of the contents written

F == INSTANCE Fat

VARIABLES
    disk,       \* the image on the disk
    vfs,        \* vfs[n]: the contents of /disk/n in the VFS, <<>> if absent
    MOUNTED,
    up,         \* "run", "panic" or "off"
    version,    \* contents written so far
    saved,      \* saved[n]: what the last command that reported success left, <<>> if none
    unsure,     \* names whose last change was cut short
    synced,     \* synced[n]: what sync reported as written and nobody has changed since
    cuts        \* image writes cut short

dvars == <<disk, vfs, MOUNTED, up, version, saved, unsure, synced, cuts>>

Contents(n, v, len) == [k \in 1 .. len |-> <<n, v, k>>]

DirSectors == DirSlots \div SlotsPerSector

\* Sectors in the order write_fs_image writes them: boot, FAT, directory, data.
Sectors == 2 + DirSectors + DataClusters

\* The disk when the first i sectors of image are on it.
Mixed(old, image, i) ==
    [magic |-> IF i >= 1 THEN image.magic ELSE old.magic,
     fat   |-> IF i >= 2 THEN image.fat ELSE old.fat,
     dir   |-> [s \in 1 .. DirSlots |->
                  IF i >= 3 + (s - 1) \div SlotsPerSector THEN image.dir[s] ELSE old.dir[s]],
     data  |-> [c \in 0 .. DataClusters - 1 |->
                  IF i >= 3 + DirSectors + c THEN image.data[c] ELSE old.data[c]]]

\* A disk fresh from the factory has no magic number.
Init ==
    /\ disk = [F!format EXCEPT !.magic = FALSE]
    /\ vfs = [n \in Names |-> <<>>]
    /\ MOUNTED = FALSE
    /\ up = "run"
    /\ version = 0
    /\ saved = [n \in Names |-> <<>>]
    /\ unsure = {}
    /\ synced = [n \in Names |-> <<>>]
    /\ cuts = 0

\* Variant: the image of a failed change is written too.
save_failed(n, contents) ==
    LET r == F!write_file(disk, n, contents) IN
    /\ disk' = r.img
    /\ saved' = IF r.ok THEN [saved EXCEPT ![n] = contents] ELSE saved
    /\ up' = IF r.panic THEN "panic" ELSE "run"
    /\ UNCHANGED <<unsure, synced, cuts>>

\* write_fs_image: done, or cut short after some sectors by an I/O error (the
\* command fails) or a power failure.
write_fs_image(image, names, contents) ==
    /\ synced' = [n \in Names |-> IF n \in names THEN <<>> ELSE synced[n]]
    /\ \/ /\ disk' = image
          /\ saved' = [n \in Names |-> IF n \in names THEN contents ELSE saved[n]]
          /\ unsure' = unsure \ names
          /\ up' = "run"
          /\ UNCHANGED cuts
       \/ /\ cuts < MaxCuts
          /\ \E i \in 0 .. Sectors - 1 : disk' = Mixed(disk, image, i)
          /\ unsure' = unsure \cup names
          /\ cuts' = cuts + 1
          /\ up' \in {"run", "off"}
          /\ UNCHANGED saved

\* diskfs::write_file of fresh contents of name n.
save(n, contents) ==
    LET r == F!write_file(disk, n, contents) IN
    \/ r.ok /\ write_fs_image(r.img, {n}, contents)
    \/ /\ ~r.ok
       /\ up' = IF r.panic THEN "panic" ELSE "run"
       /\ UNCHANGED <<disk, saved, unsure, synced, cuts>>

disksave ==
    /\ up = "run" /\ version < MaxVersion
    /\ version' = version + 1
    /\ \E n \in Names, len \in Lengths : save(n, Contents(n, version', len))
    /\ UNCHANGED <<vfs, MOUNTED>>

diskrm ==
    /\ up = "run"
    /\ \E n \in Names :
          /\ F!Exists(disk, n)
          /\ write_fs_image(F!delete_file(disk, n), {n}, <<>>)
    /\ UNCHANGED <<vfs, MOUNTED, version>>

diskfmt ==
    /\ up = "run"
    /\ write_fs_image(F!format, Names, <<>>)
    /\ UNCHANGED <<vfs, MOUNTED, version>>

\* persist::mount formats a disk without the magic number, and copies every
\* file on it to the VFS.
mount_disk ==
    /\ up = "run"
    /\ \/ disk.magic /\ UNCHANGED <<disk, up, saved, unsure, synced, cuts>>
       \/ ~disk.magic /\ write_fs_image(F!format, Names, <<>>)
    /\ \/ /\ cuts' = cuts
          /\ vfs' = [n \in Names |-> IF F!Exists(disk', n) THEN F!read_file(disk', n) ELSE vfs[n]]
          /\ MOUNTED' = TRUE
       \/ cuts' # cuts /\ UNCHANGED <<vfs, MOUNTED>>
    /\ UNCHANGED version

\* persist::write: the VFS first, then, when mounted, the disk.
disk_write ==
    /\ up = "run" /\ version < MaxVersion
    /\ version' = version + 1
    /\ \E n \in Names, len \in Lengths :
          /\ vfs' = [vfs EXCEPT ![n] = Contents(n, version', len)]
          /\ \/ MOUNTED /\ save(n, Contents(n, version', len))
             \/ ~MOUNTED /\ UNCHANGED <<disk, up, saved, unsure, synced, cuts>>
    /\ UNCHANGED MOUNTED

\* The shell's write command on a path under /disk: vfs::write alone.
vfs_write ==
    /\ up = "run" /\ version < MaxVersion
    /\ version' = version + 1
    /\ \E n \in Names, len \in Lengths : vfs' = [vfs EXCEPT ![n] = Contents(n, version', len)]
    /\ UNCHANGED <<disk, MOUNTED, up, saved, unsure, synced, cuts>>

\* persist::read of a file the VFS does not have: it is loaded from the disk.
disk_read ==
    /\ up = "run" /\ MOUNTED
    /\ \E n \in Names :
          /\ vfs[n] = <<>> /\ F!Exists(disk, n)
          /\ vfs' = [vfs EXCEPT ![n] = F!read_file(disk, n)]
    /\ UNCHANGED <<disk, MOUNTED, up, version, saved, unsure, synced, cuts>>

\* The shell's rm command on a path under /disk: vfs::rm alone.
vfs_rm ==
    /\ up = "run"
    /\ \E n \in Names : vfs[n] # <<>> /\ vfs' = [vfs EXCEPT ![n] = <<>>]
    /\ UNCHANGED <<disk, MOUNTED, up, version, saved, unsure, synced, cuts>>

\* The kind vfs::ls reports of a regular file, and the kind persist::sync looks for.
LsKind   == "-"
SyncKind == "f"

\* sync writes the files of that kind in turn, and ignores what a write returns.
Synced ==
    LET todo == IF LsKind = SyncKind THEN {n \in Names : vfs[n] # <<>>} ELSE {}
        flush(c, img) ==
            LET r == F!write_file(img, c[1][1], c) IN IF r.ok THEN r.img ELSE img
    IN  FoldFunctionOnSet(flush, disk, vfs, todo)

sync ==
    /\ up = "run" /\ MOUNTED
    /\ disk' = Synced
    /\ synced' = vfs
    /\ UNCHANGED <<vfs, MOUNTED, up, version, saved, unsure, cuts>>

\* Switching on again: the VFS is rebuilt without /disk.
reboot ==
    /\ up # "run"
    /\ up' = "run"
    /\ vfs' = [n \in Names |-> <<>>]
    /\ MOUNTED' = FALSE
    /\ UNCHANGED <<disk, version, saved, unsure, synced, cuts>>

Next ==
    \/ disksave \/ diskrm \/ diskfmt \/ mount_disk \/ disk_write \/ vfs_write
    \/ disk_read \/ vfs_rm \/ sync \/ reboot

Spec == Init /\ [][Next]_dvars

-----------------------------------------------------------------------------
\* The image is well formed and the history keeps to its bounds.
TypeOK ==
    /\ disk.magic \in BOOLEAN
    /\ disk.fat \in [F!Cluster -> 0 .. FatEntries]
    /\ \A s \in 1 .. DirSlots :
          /\ disk.dir[s].flags \in 0 .. 1 /\ disk.dir[s].name \in Names \cup {Zero}
          /\ disk.dir[s].start \in 0 .. FatEntries - 1 /\ disk.dir[s].size \in Lengths \cup {0}
    /\ MOUNTED \in BOOLEAN /\ up \in {"run", "panic", "off"}
    /\ version \in 0 .. MaxVersion /\ cuts \in 0 .. MaxCuts
    /\ unsure \subseteq Names

\* As long as no image write was cut short, every file reads back as the last
\* successful command left it, whatever was overwritten, deleted, refused for
\* want of space or lost with the VFS at a reboot in between.
ReadBack ==
    cuts = 0 => \A n \in Names : F!read_file(disk, n) = saved[n]

\* A change of some files that is cut short, at whatever sector, leaves every
\* other file of an intact file system as it was.
OthersIntact ==
    [][cuts = 0 =>
          \A n \in Names \ unsure' :
              F!read_file(disk', n) = saved'[n]]_dvars

\* diskfs.rs:2, "so files survive reboot": a file reads back as it was last
\* saved even if changes of other files were cut short since.
FilesSurvive ==
    \A n \in Names \ unsure : F!read_file(disk, n) = saved[n]

\* fat.rs:192, "Free cluster chain": a cluster that is not free belongs to a file.
NoLeak ==
    cuts = 0 =>
        \A c \in F!Cluster :
            disk.fat[c] # F!FAT_FREE =>
                \E s \in 1 .. DirSlots :
                    disk.dir[s].flags = 1 /\ c \in F!Chain(disk, disk.dir[s].start, disk.dir[s].size)

\* persist.rs:123, "Sync all /disk/ files from VFS to disk.": what sync reported
\* as written is on the disk.
SyncFlushes ==
    cuts = 0 => \A n \in Names : synced[n] # <<>> => F!read_file(disk, n) = synced[n]
=============================================================================
