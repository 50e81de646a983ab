------------------------------- MODULE Shmem -------------------------------
(***************************************************************************)
(* Shared memory regions of src/src/shmem.rs and the system calls on them  *)
(* (SYS_SHMGET, SYS_SHMAT, SYS_SHMDT of src/src/syscall.rs).  A region     *)
(* lives in a slot of a table, the address a process is given is that of   *)
(* the slot, and the slot is freed when the last process detaches.  A      *)
(* process that exits detaches from nothing.                               *)
(***************************************************************************)
EXTENDS Naturals, FiniteSets

CONSTANTS
    Pids,           \* user processes
    Slots,          \* indices of the table: 0 .. MAX_REGIONS - 1
    Pages,          \* page counts asked for
    Frames,         \* free frames at boot
    MaxId           \* bound: the number of regions ever created

RegionIds == 0 .. MaxId

VARIABLES
    active,         \* slots that hold a region
    id, ref_count, attached,    \* of the region in a slot
    next_id,
    free_frames,    \* what alloc_frame has left
    running,        \* processes that have not exited
    told            \* <<p, i, s>>: p was given the address of slot s for region i

shvars == <<active, id, ref_count, attached, next_id, free_frames, running, told>>

ShmemInit ==
    /\ active = {}
    /\ id = [s \in Slots |-> 0] /\ ref_count = [s \in Slots |-> 0]
    /\ attached = [s \in Slots |-> {}]
    /\ next_id = 0 /\ free_frames = Frames
    /\ running = Pids /\ told = {}

\* The slot of region i, the first one of the table that has it.
With(i) == {s \in active : id[s] = i /\ \A t \in active : id[t] = i => s <= t}

\* Frames are taken before the table is looked at, and kept if it is full.
\* Frames that were found before the allocator ran out are kept as well.
create_shmem(pages) ==
    /\ free_frames' = IF pages <= free_frames THEN free_frames - pages ELSE 0
    /\ IF pages <= free_frames /\ active # Slots
       THEN \E s \in Slots \ active :
            /\ \A t \in Slots \ active : s <= t
            /\ next_id <= MaxId
            /\ active' = active \cup {s}
            /\ id' = [id EXCEPT ![s] = next_id]
            /\ ref_count' = [ref_count EXCEPT ![s] = 0]
            /\ attached' = [attached EXCEPT ![s] = {}]
            /\ next_id' = next_id + 1
       ELSE UNCHANGED <<active, id, ref_count, attached, next_id>>
    /\ UNCHANGED <<running, told>>

shmget(p) == p \in running /\ \E pages \in Pages : create_shmem(pages)

attach_shmem(i, p, s) ==
    IF p \in attached[s] THEN UNCHANGED <<attached, ref_count>>
    ELSE /\ attached' = [attached EXCEPT ![s] = @ \cup {p}]
         /\ ref_count' = [ref_count EXCEPT ![s] = @ + 1]

shmat(p) ==
    /\ p \in running
    /\ \E i \in RegionIds : \E s \in With(i) :
          /\ attach_shmem(i, p, s)
          /\ told' = told \cup {<<p, i, s>>}
    /\ UNCHANGED <<active, id, next_id, free_frames, running>>

\* Variant: the caller need not be attached.
detach_shmem_blind(i, p, s) ==
    /\ attached' = [attached EXCEPT ![s] = @ \ {p}]
    /\ ref_count' = [ref_count EXCEPT ![s] = IF @ = 0 THEN 0 ELSE @ - 1]
    /\ active' = IF ref_count[s] <= 1 THEN active \ {s} ELSE active

\* The frames of a region that goes away are not given back.
detach_shmem(i, p, s) ==
    IF p \notin attached[s] THEN UNCHANGED <<active, attached, ref_count>>
    ELSE /\ attached' = [attached EXCEPT ![s] = @ \ {p}]
         /\ ref_count' = [ref_count EXCEPT ![s] = IF @ = 0 THEN 0 ELSE @ - 1]
         /\ active' = IF ref_count[s] <= 1 THEN active \ {s} ELSE active

\* The result is 0 whatever detach_shmem says.
shmdt(p) ==
    /\ p \in running
    /\ \E i \in RegionIds : \E s \in With(i) :
          /\ detach_shmem(i, p, s)
          /\ told' = {t \in told : ~(t[1] = p /\ t[2] = i)}
    /\ UNCHANGED <<id, next_id, free_frames, running>>

\* "All attached processes lose access immediately."  (Nobody calls it.)
destroy_shmem(i) ==
    /\ \E s \in With(i) : active' = active \ {s}
    /\ told' = {t \in told : t[2] # i}
    /\ UNCHANGED <<id, ref_count, attached, next_id, free_frames, running>>

exit(p) ==
    /\ p \in running
    /\ running' = running \ {p}
    /\ told' = {t \in told : t[1] # p}
    /\ UNCHANGED <<active, id, ref_count, attached, next_id, free_frames>>

ShmemNext ==
    \/ \E p \in Pids : shmget(p) \/ shmat(p) \/ shmdt(p) \/ exit(p)
    \/ \E i \in RegionIds : destroy_shmem(i)

ShmemSpec == ShmemInit /\ [][ShmemNext]_shvars

-----------------------------------------------------------------------------
\* The table, the lists of attached processes and the addresses given out keep their types.
ShmemTypeOK ==
    /\ active \subseteq Slots
    /\ id \in [Slots -> Nat] /\ ref_count \in [Slots -> Nat]
    /\ attached \in [Slots -> SUBSET Pids]
    /\ next_id \in Nat
    /\ running \subseteq Pids /\ told \subseteq Pids \X RegionIds \X Slots

\* The count that decides when a region goes away is the number of processes
\* on its list, however often they attach and detach.
RefCountsAttached == \A s \in active : ref_count[s] = Cardinality(attached[s])

\* A region's id is never given to a second one.
IdsUnique == \A s, t \in active : id[s] = id[t] => s = t

\* A process that was given an address finds its region there until it
\* detaches or the region is destroyed: no other process's detaching frees
\* the slot, and no later region moves in.
AddressStable ==
    \A t \in told : t[3] \in active /\ id[t[3]] = t[2] /\ t[1] \in attached[t[3]]

\* shmem.rs:52, "Number of processes currently attached.": a region that only
\* processes that are gone were attached to is gone too.
NoOrphans == \A s \in active : attached[s] # {} => attached[s] \cap running # {}
=============================================================================
