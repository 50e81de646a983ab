------------------------------ MODULE RamDisk ------------------------------
(***************************************************************************)
(* The flat file system of src/src/ramdisk.rs (shell commands format,      *)
(* dsave, dload).  Files are packed behind the last one; the lock around   *)
(* each command makes it one step.  A data byte is a token.                *)
(***************************************************************************)
EXTENDS Naturals, Sequences, FiniteSets, FiniteSetsExt

CONSTANTS
    RamNames,
    MAX_FILES,          \* 16 in the code
    MAX_FILE_DATA,      \* bytes of the data area
    RamLengths,         \* lengths of what is saved (0 included: an empty file)
    MaxSaves            \* bound: dsave commands

ASSUME RamAssumption ==
    /\ RamNames # {} /\ RamLengths \subseteq Nat
    /\ MAX_FILES \in Nat /\ MAX_FILE_DATA \in Nat /\ MaxSaves \in Nat

VARIABLES
    formatted,
    entries,    \* entries[i]: [active, name, off, size]
    data,       \* data[k], k \in 0 .. MAX_FILE_DATA - 1
    saves,
    kept        \* kept[n]: the contents the last dsave of n that worked wrote, Gone if
                \* there is none or a later dsave of n found no room

ramvars == <<formatted, entries, data, saves, kept>>

Slot == 1 .. MAX_FILES
Blank == 0
Gone == <<Blank>>
NoFile == [active |-> FALSE, name |-> CHOOSE n \in RamNames : TRUE, off |-> 0, size |-> 0]

RamInit ==
    /\ formatted = FALSE
    /\ entries = [i \in Slot |-> NoFile]
    /\ data = [k \in 0 .. MAX_FILE_DATA - 1 |-> Blank]
    /\ saves = 0
    /\ kept = [n \in RamNames |-> Gone]

format ==
    /\ formatted' = TRUE
    /\ entries' = [i \in Slot |-> NoFile]
    /\ data' = [k \in 0 .. MAX_FILE_DATA - 1 |-> Blank]
    /\ kept' = [n \in RamNames |-> Gone]
    /\ UNCHANGED saves

Active(es) == {i \in Slot : es[i].active}

Named(es, n) == {i \in Active(es) : es[i].name = n}

read_file(n) ==
    IF ~formatted \/ Named(entries, n) = {} THEN Gone
    ELSE LET e == entries[Min(Named(entries, n))]
         IN  [k \in 1 .. e.size |-> data[e.off + k - 1]]

\* delete_file of the first entry of that name; it has no caller but write_file.
delete_file(n) ==
    IF Named(entries, n) = {} THEN entries
    ELSE [entries EXCEPT ![Min(Named(entries, n))].active = FALSE]

\* Variant: the number of bytes in use (used_bytes), as if there were no holes.
next_free_offset_used(es) == MapThenSumSet(LAMBDA i : es[i].size, Active(es))

next_free_offset(es) ==
    Max({0} \cup {es[i].off + es[i].size : i \in Active(es)})

\* write_file: unless the contents are too long for any disk, the old file is gone
\* before the new one is known to fit.
write_file(n, contents) ==
    LET es    == delete_file(n)
        free  == Slot \ Active(es)
        off   == next_free_offset(es)
    IN  \/ /\ Len(contents) > MAX_FILE_DATA
           /\ UNCHANGED <<entries, data, kept>>
        \/ /\ Len(contents) <= MAX_FILE_DATA
           /\ free = {} \/ off + Len(contents) > MAX_FILE_DATA
           /\ entries' = es
           /\ kept' = [kept EXCEPT ![n] = Gone]
           /\ UNCHANGED data
        \/ /\ free # {} /\ off + Len(contents) <= MAX_FILE_DATA
           /\ data' = [k \in DOMAIN data |->
                         IF off <= k /\ k < off + Len(contents) THEN contents[k - off + 1]
                         ELSE data[k]]
           /\ entries' = [es EXCEPT ![Min(free)] =
                            [active |-> TRUE, name |-> n, off |-> off, size |-> Len(contents)]]
           /\ kept' = [kept EXCEPT ![n] = contents]

dsave ==
    /\ formatted /\ saves < MaxSaves
    /\ saves' = saves + 1
    /\ \E n \in RamNames, len \in RamLengths :
          write_file(n, [k \in 1 .. len |-> <<saves', k>>])
    /\ UNCHANGED formatted

RamNext == format \/ dsave

RamSpec == RamInit /\ [][RamNext]_ramvars

-----------------------------------------------------------------------------
\* Entries stay inside the data area.
RamTypeOK ==
    /\ formatted \in BOOLEAN /\ saves \in 0 .. MaxSaves
    /\ \A i \in Slot : entries[i].off + entries[i].size <= MAX_FILE_DATA

\* Every file reads back what the last dsave of it that succeeded wrote; a name
\* whose last dsave found no room reads as absent, and no other file is lost with it.
RamReadBack == \A n \in RamNames : read_file(n) = kept[n]
=============================================================================
