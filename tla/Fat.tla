-------------------------------- MODULE Fat --------------------------------
(***************************************************************************)
(* The MF16 file system of src/src/fat.rs as functions on a disk image:    *)
(* what format, read_file, write_file and delete_file make of it.          *)
(*                                                                         *)
(* A cluster is a number; FAT_FREE is 0, as in the code, which is also the *)
(* number of the first data cluster.  The data of a cluster is one opaque  *)
(* token, a file's contents a sequence of tokens.                          *)
(***************************************************************************)
EXTENDS Naturals, Sequences, FiniteSets, SequencesExt

CONSTANTS
    Names,          \* file names (of at most 16 bytes)
    FatEntries,     \* max_clusters: FAT_BLOCKS * CLUSTER_SIZE / 2 = 768
    DataClusters,   \* clusters the image really has behind DATA_START: 248
    DirSlots,       \* MAX_FILES = 64
    Zero            \* the data token of a cleared cluster

FAT_FREE == 0
FAT_EOF  == FatEntries

Cluster == 0 .. FatEntries - 1

NoEntry == [flags |-> 0, name |-> Zero, start |-> 0, size |-> 0]

format ==
    [magic |-> TRUE,
     fat   |-> [c \in Cluster |-> FAT_FREE],
     dir   |-> [i \in 1 .. DirSlots |-> NoEntry],
     data  |-> [c \in 0 .. DataClusters - 1 |-> Zero]]

\* The slots of the directory that hold name; the code takes the first.
SlotsOf(img, name) == {i \in 1 .. DirSlots : img.dir[i].flags = 1 /\ img.dir[i].name = name}

First(S) == CHOOSE i \in S : \A j \in S : i <= j

Exists(img, name) == img.magic /\ SlotsOf(img, name) # {}

\* The loop of read_file from cluster c with n clusters to go.  A FAT entry that
\* reads FAT_FREE sends it to cluster 0.
ReadChain(img, start, size) ==
    LET f[n \in 0 .. size, c \in 0 .. FatEntries] ==
            IF n = 0 \/ c = FAT_EOF THEN <<>>
            ELSE (IF c < DataClusters THEN <<img.data[c]>> ELSE <<>>) \o f[n - 1, img.fat[c]]
    IN  f[size, start]

\* The contents read_file returns; <<>> stands for None.
read_file(img, name) ==
    IF Exists(img, name)
    THEN LET e == img.dir[First(SlotsOf(img, name))] IN ReadChain(img, e.start, e.size)
    ELSE <<>>

\* The clusters of a file.
Chain(img, start, size) ==
    LET f[n \in 0 .. size, c \in 0 .. FatEntries] ==
            IF n = 0 \/ c = FAT_EOF THEN {} ELSE {c} \cup f[n - 1, img.fat[c]]
    IN  f[size, start]

\* The clusters the loop of delete_file sets free.
FreedBy(img, start) ==
    LET f[n \in 0 .. FatEntries, c \in 0 .. FatEntries] ==
            IF n = 0 \/ c \in {FAT_EOF, FAT_FREE} THEN {}
            ELSE {c} \cup f[n - 1, img.fat[c]]
    IN  f[FatEntries, start]

delete_file(img, name) ==
    IF ~Exists(img, name) THEN img
    ELSE LET i     == First(SlotsOf(img, name))
             freed == FreedBy(img, img.dir[i].start)
         IN  [img EXCEPT !.fat = [c \in Cluster |-> IF c \in freed THEN FAT_FREE ELSE @[c]],
                         !.dir[i].flags = 0]

\* Variant: the last cluster of a chain counts as free.
Free_ends(img) == {c \in Cluster : img.fat[c] \in {FAT_FREE, FAT_EOF}}

\* The first n free clusters in ascending order, or all there are.
Free(img) == {c \in Cluster : img.fat[c] = FAT_FREE}

Allocated(img, n) ==
    SetToSortSeq({c \in Free(img) : Cardinality({d \in Free(img) : d < c}) < n}, <)

\* write_file: [ok, panic, img], where img is what the call leaves of the image
\* it was given, also when it fails: the old file of that name is gone by then.
\* A cluster past the end of the image is a slice index out of range.
write_file(img, name, contents) ==
    LET bare   == delete_file(img, name)
        got    == Allocated(bare, Len(contents))
        slots  == {i \in 1 .. DirSlots : bare.dir[i].flags = 0}
        Place(c) == CHOOSE k \in DOMAIN got : got[k] = c
        filled == [bare EXCEPT
            !.fat  = [c \in Cluster |->
                        IF c \notin ToSet(got) THEN @[c]
                        ELSE IF Place(c) < Len(got) THEN got[Place(c) + 1] ELSE FAT_EOF],
            !.data = [c \in 0 .. DataClusters - 1 |->
                        IF c \in ToSet(got) THEN contents[Place(c)] ELSE @[c]]]
        Result(ok, panics, i) == [ok |-> ok, panic |-> panics, img |-> i]
    IN  CASE ~img.magic ->
                Result(FALSE, FALSE, img)
          [] img.magic /\ (contents = <<>> \/ Len(got) < Len(contents)) ->
                Result(FALSE, FALSE, bare)
          [] img.magic /\ contents # <<>> /\ Len(got) = Len(contents) ->
                IF \E k \in DOMAIN got : got[k] >= DataClusters
                THEN Result(FALSE, TRUE, filled)
                ELSE IF slots = {} THEN Result(FALSE, FALSE, filled)
                ELSE Result(TRUE, FALSE,
                            [filled EXCEPT !.dir[First(slots)] =
                                [flags |-> 1, name |-> name, start |-> got[1],
                                 size |-> Len(contents)]])
=============================================================================
