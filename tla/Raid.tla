-------------------------------- MODULE Raid --------------------------------
(***************************************************************************)
(* One array of src/src/raid.rs, from create_array on.  A sector holds a   *)
(* set of bits, so that exclusive or is symmetric difference and the empty *)
(* set is a sector of zeros.  The ARRAYS lock makes a call one step.       *)
(* A read is {v}, or {} when it returns an error.                          *)
(***************************************************************************)
EXTENDS Naturals, Sequences, FiniteSets, FiniteSetsExt

CONSTANTS
    Bits,
    StripeSectors,  \* DEFAULT_STRIPE_SECTORS: 128
    DiskSizes,      \* sizes, in sectors, of the disks an array is made of
    Levels,         \* the levels tried
    MAX_DEVICES,
    MaxLba          \* bound: sectors of the array that are written

Sector == SUBSET Bits
Zeros  == {}
Lbas   == 0 .. MaxLba

VARIABLES
    level,
    disks,      \* the disks in order: [size, status, data], data indexed from 0
    astatus,    \* ArrayStatus
    wrote,      \* wrote[lba]: what a caller may expect to read: one value after a write that
                \* returned Ok, several after one that returned an error
    lost,       \* sectors of which the array no longer has the contents
    past        \* what has happened to the array: "added" a device, "two" disks failed at once

rvars == <<level, disks, astatus, wrote, lost, past>>

NewDisk(size) == [size |-> size, status |-> "Online", data |-> [at \in 0 .. size - 1 |-> Zeros]]

Devices(ds) == DOMAIN ds
Failed(ds)  == {d \in Devices(ds) : ds[d].status = "Failed"}
Online(ds)  == {d \in Devices(ds) : ds[d].status = "Online"}
Rebuilding(ds) == \E d \in Devices(ds) : ds[d].status = "Rebuilding"

\* Variant: Raid5 is given up only when a third disk fails.
update_status_late(ds) ==
    IF Rebuilding(ds) THEN "Rebuilding" ELSE
    CASE level = "Raid0" -> IF Failed(ds) # {} THEN "Failed" ELSE "Active"
      [] level = "Raid1" -> IF Failed(ds) = Devices(ds) THEN "Failed"
                            ELSE IF Failed(ds) # {} THEN "Degraded" ELSE "Active"
      [] level = "Raid5" -> IF Cardinality(Failed(ds)) > 2 THEN "Failed"
                            ELSE IF Failed(ds) # {} THEN "Degraded" ELSE "Active"

update_status(ds) ==
    IF Rebuilding(ds) THEN "Rebuilding" ELSE
    CASE level = "Raid0" -> IF Failed(ds) # {} THEN "Failed" ELSE "Active"
      [] level = "Raid1" -> IF Failed(ds) = Devices(ds) THEN "Failed"
                            ELSE IF Failed(ds) # {} THEN "Degraded" ELSE "Active"
      [] level = "Raid5" -> IF Cardinality(Failed(ds)) > 1 THEN "Failed"
                            ELSE IF Failed(ds) # {} THEN "Degraded" ELSE "Active"

capacity_sectors ==
    LET min_disk == Min({disks[d].size : d \in Devices(disks)})
        n        == Len(disks)
    IN  CASE level = "Raid0" -> min_disk * n
          [] level = "Raid1" -> min_disk
          [] level = "Raid5" -> min_disk * (n - 1)

min_devices(l) == IF l = "Raid5" THEN 3 ELSE 2

\* create_array
Init ==
    /\ level \in Levels
    /\ \E n \in min_devices(level) .. MAX_DEVICES : \E sizes \in [1 .. n -> DiskSizes] :
          disks = [d \in 1 .. n |-> NewDisk(sizes[d])]
    /\ astatus = "Active"
    /\ wrote = [lba \in Lbas |-> {Zeros}]
    /\ lost = {}
    /\ past = {}

\* RaidDisk::read_sector and, for a disk that takes the write, write_sector.
Readable(ds, d, at) == ds[d].status # "Failed" /\ at \in DOMAIN ds[d].data
ReadDisk(ds, d, at) == IF Readable(ds, d, at) THEN {ds[d].data[at]} ELSE {}

\* The exclusive or of the disks of S; a disk that cannot be read counts as zeros.
XorOf(ds, S, at) ==
    {b \in Bits : Cardinality({d \in S : b \in UNION ReadDisk(ds, d, at)}) % 2 = 1}

\* Where a sector is: the disk, the sector on it and, for Raid5, the parity disk.
Stripe(lba) == lba \div StripeSectors
Place(lba) ==
    LET n     == Len(disks)
        group == Stripe(lba) \div (n - 1)
        k     == Stripe(lba) % (n - 1)
        p     == group % n
    IN  CASE level = "Raid0" -> [disk |-> (Stripe(lba) % n) + 1, parity |-> 0,
                                 at |-> (Stripe(lba) \div n) * StripeSectors + (lba % StripeSectors)]
          [] level = "Raid1" -> [disk |-> 1, parity |-> 0, at |-> lba]
          [] level = "Raid5" -> [disk |-> (IF k >= p THEN k + 1 ELSE k) + 1, parity |-> p + 1,
                                 at |-> group * StripeSectors + (lba % StripeSectors)]

\* raid_read.  Raid1 asks the first disk that is online and no other.
raid_read(lba) ==
    LET pl     == Place(lba)
        others == Devices(disks) \ {pl.disk}
        up     == Devices(disks) \ Failed(disks)
    IN  CASE astatus = "Failed" -> {}
          [] astatus # "Failed" /\ level = "Raid0" -> ReadDisk(disks, pl.disk, pl.at)
          [] astatus # "Failed" /\ level = "Raid1" ->
                IF Online(disks) = {} THEN {} ELSE ReadDisk(disks, Min(Online(disks)), pl.at)
          [] astatus # "Failed" /\ level = "Raid5" ->
                IF pl.disk \in up THEN ReadDisk(disks, pl.disk, pl.at)
                ELSE IF \A d \in others : Readable(disks, d, pl.at)
                THEN {XorOf(disks, others, pl.at)} ELSE {}

Store(ds, d, at, v) == [ds EXCEPT ![d].data[at] = v]

write_raid0(lba, v) ==
    LET pl == Place(lba) ok == Readable(disks, pl.disk, pl.at)
    IN  [ok |-> ok, new |-> IF ok THEN Store(disks, pl.disk, pl.at, v) ELSE disks]

write_raid1(lba, v) ==
    LET ok == {d \in Devices(disks) : Readable(disks, d, lba)}
    IN  [ok  |-> ok # {},
         new |-> [d \in Devices(disks) |->
                     IF d \in ok THEN [disks[d] EXCEPT !.data[lba] = v] ELSE disks[d]]]

\* Variant: the parity is that of the old data.
write_raid5_stale(lba, v) ==
    LET pl   == Place(lba)
        data == Store(disks, pl.disk, pl.at, v)
        xor  == XorOf(disks, Devices(disks) \ {pl.parity}, pl.at)
    IN  IF ~Readable(disks, pl.disk, pl.at) THEN [ok |-> FALSE, new |-> disks]
        ELSE IF ~Readable(disks, pl.parity, pl.at) THEN [ok |-> FALSE, new |-> data]
        ELSE [ok |-> TRUE, new |-> Store(data, pl.parity, pl.at, xor)]

\* The data first, then the parity of what can be read.
write_raid5(lba, v) ==
    LET pl   == Place(lba)
        data == Store(disks, pl.disk, pl.at, v)
        xor  == XorOf(data, Devices(disks) \ {pl.parity}, pl.at)
    IN  IF ~Readable(disks, pl.disk, pl.at) THEN [ok |-> FALSE, new |-> disks]
        ELSE IF ~Readable(disks, pl.parity, pl.at) THEN [ok |-> FALSE, new |-> data]
        ELSE [ok |-> TRUE, new |-> Store(data, pl.parity, pl.at, xor)]

\* The sectors of the same group whose disk has failed: recomputing the parity
\* without them drops what it knew of them.
Dropped(lba) ==
    {l \in Lbas : /\ level = "Raid5" /\ Place(l).at = Place(lba).at
                  /\ Place(l).disk \in Failed(disks) \ {Place(lba).parity}}

raid_write ==
    /\ astatus # "Failed"
    /\ \E lba \in Lbas, v \in Sector :
          LET w == CASE level = "Raid0" -> write_raid0(lba, v)
                     [] level = "Raid1" -> write_raid1(lba, v)
                     [] level = "Raid5" -> write_raid5(lba, v)
          IN  /\ disks' = w.new
              /\ wrote' = [wrote EXCEPT ![lba] = IF w.ok THEN {v} ELSE @ \cup {v}]
              /\ lost'  = IF w.ok THEN (lost \cup Dropped(lba)) \ {lba} ELSE lost
    /\ UNCHANGED <<level, astatus, past>>

\* remove_device: a disk fails.
remove_device ==
    /\ \E d \in Devices(disks) :
          /\ disks' = [disks EXCEPT ![d].status = "Failed"]
          /\ astatus' = update_status(disks')
          /\ past' = IF Cardinality(Failed(disks')) > 1 THEN past \cup {"two"} ELSE past
    /\ UNCHANGED <<level, wrote, lost>>

\* The disk rebuild has filled from the others.
Rebuilt(f, source) ==
    IF level = "Raid1" THEN [at \in 0 .. disks[source].size - 1 |-> UNION ReadDisk(disks, source, at)]
    ELSE [at \in 0 .. disks[f].size - 1 |-> XorOf(disks, Devices(disks) \ {f}, at)]

\* rebuild of the first failed disk; nothing stops it when two disks have failed.  A mirror
\* that was itself rebuilt from a smaller one ends before its size: copying it stops with an
\* error there, and the new disk stays Rebuilding.
rebuild ==
    /\ level # "Raid0" /\ Failed(disks) # {}
    /\ level = "Raid1" => Online(disks) # {}
    /\ LET f      == Min(Failed(disks))
           source == IF level = "Raid1" THEN Min(Online(disks)) ELSE f
           done   == level = "Raid1" =>
                        \A at \in 0 .. disks[source].size - 1 : Readable(disks, source, at)
       IN  /\ disks' = [disks EXCEPT ![f].data = Rebuilt(f, source),
                                     ![f].status = IF done THEN "Online" ELSE "Rebuilding"]
           /\ astatus' = IF done THEN update_status(disks') ELSE astatus
    /\ lost' = IF level = "Raid5" /\ Cardinality(Failed(disks)) > 1
               THEN lost \cup {l \in Lbas : Place(l).disk \in Failed(disks)} ELSE lost
    /\ UNCHANGED <<level, wrote, past>>

add_device ==
    /\ Len(disks) < MAX_DEVICES
    /\ \E size \in DiskSizes : disks' = Append(disks, NewDisk(size))
    /\ astatus' = update_status(disks')
    /\ past' = past \cup {"added"}
    /\ UNCHANGED <<level, wrote, lost>>

Next == raid_write \/ remove_device \/ rebuild \/ add_device

Spec == Init /\ [][Next]_rvars

-----------------------------------------------------------------------------
\* Disks hold sectors, and no more of them than their size or a mirror's.
TypeOK ==
    /\ astatus \in {"Active", "Degraded", "Failed", "Rebuilding"}
    /\ \A d \in Devices(disks) :
          /\ disks[d].status \in {"Online", "Failed", "Rebuilding"}
          /\ \A at \in DOMAIN disks[d].data : disks[d].data[at] \in Sector
    /\ wrote \in [Lbas -> SUBSET Sector]

Usable == {lba \in Lbas : lba < capacity_sectors}

\* A read that returns Ok returns what was last written there, whatever disks
\* failed and were rebuilt in between and whatever writes ended in an error;
\* what is lost is at most what degraded writes and rebuilds of two failures drop.
\* In a mirror it does not matter which of the working disks is read.
ReadsTrue ==
    "added" \notin past =>
        /\ \A lba \in Usable \ lost : raid_read(lba) \subseteq wrote[lba]
        /\ level = "Raid1" =>
              \A d, e \in Devices(disks) \ Failed(disks) : \A lba \in Usable :
                  disks[d].data[lba] = disks[e].data[lba]

\* An array that reports Active or Degraded can be read wherever it is usable.  One
\* that reports Rebuilding need not be: a mirror whose rebuild stopped stays
\* Rebuilding, and update_status then counts no failures.
StatusTrue ==
    "added" \notin past /\ (\A d \in Devices(disks) : disks[d].size % StripeSectors = 0)
        => (astatus \in {"Active", "Degraded"} => \A lba \in Usable : raid_read(lba) # {})

\* raid.rs:35, "Distributed parity: N-1 data + 1 parity, survives 1 failure.":
\* while no more than one disk has ever failed at a time, what was written is read.
SurvivesOne ==
    level = "Raid5" /\ past = {} =>
        \A lba \in Usable : raid_read(lba) \subseteq wrote[lba]

\* raid.rs:440, "Add a device to an existing array (for RAID 5 expansion, etc.).":
\* the array still holds its data afterwards.
ExpansionKeeps ==
    level = "Raid5" /\ lost = {} /\ "two" \notin past =>
        \A lba \in Usable : raid_read(lba) \subseteq wrote[lba]

\* raid.rs:168, "Usable capacity in sectors.": every sector below the capacity
\* can be read.
CapacityUsable ==
    "added" \notin past /\ astatus # "Failed" => \A lba \in Usable : raid_read(lba) # {}
=============================================================================
