------------------------------- MODULE RwLock -------------------------------
(***************************************************************************)
(* The read-write locks of src/src/pthread.rs.  rwlock_rdlock and          *)
(* rwlock_wrlock look, and yield when they cannot have the lock, so a step *)
(* is a call up to its next yield.  Callers unlock locks they hold.        *)
(***************************************************************************)
EXTENDS Naturals, FiniteSets

CONSTANTS
    RwThreads,
    MAX_RWLOCKS,    \* 32 in the code
    MaxRwlockId     \* bound: rwlock_create calls

RwIds == 1 .. MaxRwlockId

VARIABLES
    NEXT_RWLOCK_ID, \* ids up to MAX_RWLOCKS name a lock, later ones name none
    readers,        \* readers[l]
    writer,         \* writer[l]
    rcall,          \* the lock and mode each thread is looping for, or Out
    reads,          \* threads told that they hold l for reading
    writes          \* threads told that they hold l for writing

rwvars == <<NEXT_RWLOCK_ID, readers, writer, rcall, reads, writes>>

Out == [lock |-> 0, mode |-> "none"]

RWLOCKS == {l \in RwIds : l < NEXT_RWLOCK_ID /\ l <= MAX_RWLOCKS}

RwInit ==
    /\ NEXT_RWLOCK_ID = 1
    /\ readers = [l \in RwIds |-> 0]
    /\ writer = [l \in RwIds |-> FALSE]
    /\ rcall = [t \in RwThreads |-> Out]
    /\ reads = [l \in RwIds |-> {}]
    /\ writes = [l \in RwIds |-> {}]

rwlock_create(t) ==
    /\ rcall[t] = Out
    /\ NEXT_RWLOCK_ID <= MaxRwlockId
    /\ NEXT_RWLOCK_ID' = NEXT_RWLOCK_ID + 1
    /\ UNCHANGED <<readers, writer, rcall, reads, writes>>

\* A thread calls rdlock or wrlock on a lock it does not hold, or is back from
\* the yield of an earlier pass.
Wants(t, l, mode) ==
    \/ rcall[t] = Out /\ t \notin reads[l] \cup writes[l]
    \/ rcall[t] = [lock |-> l, mode |-> mode]

\* An id past the table: -1.
rwlock_missing(t) ==
    /\ \E l \in 1 .. NEXT_RWLOCK_ID - 1 : l \notin RWLOCKS
    /\ rcall[t] = Out
    /\ UNCHANGED rwvars

\* Variant: rdlock looks at the other readers, not at the writer.
rwlock_rdlock_blind(t, l) ==
    /\ l \in RWLOCKS /\ Wants(t, l, "read")
    /\ readers' = [readers EXCEPT ![l] = @ + 1]
    /\ reads' = [reads EXCEPT ![l] = @ \cup {t}]
    /\ rcall' = [rcall EXCEPT ![t] = Out]
    /\ UNCHANGED <<NEXT_RWLOCK_ID, writer, writes>>

rwlock_rdlock(t, l) ==
    /\ l \in RWLOCKS /\ Wants(t, l, "read")
    /\ \/ /\ ~writer[l]
          /\ readers' = [readers EXCEPT ![l] = @ + 1]
          /\ reads' = [reads EXCEPT ![l] = @ \cup {t}]
          /\ rcall' = [rcall EXCEPT ![t] = Out]
       \/ /\ writer[l]
          /\ rcall' = [rcall EXCEPT ![t] = [lock |-> l, mode |-> "read"]]
          /\ UNCHANGED <<readers, reads>>
    /\ UNCHANGED <<NEXT_RWLOCK_ID, writer, writes>>

rwlock_wrlock(t, l) ==
    /\ l \in RWLOCKS /\ Wants(t, l, "write")
    /\ \/ /\ ~writer[l] /\ readers[l] = 0
          /\ writer' = [writer EXCEPT ![l] = TRUE]
          /\ writes' = [writes EXCEPT ![l] = @ \cup {t}]
          /\ rcall' = [rcall EXCEPT ![t] = Out]
       \/ /\ writer[l] \/ readers[l] # 0
          /\ rcall' = [rcall EXCEPT ![t] = [lock |-> l, mode |-> "write"]]
          /\ UNCHANGED <<writer, writes>>
    /\ UNCHANGED <<NEXT_RWLOCK_ID, readers, reads>>

\* rwlock_unlock cannot see who calls it: it drops the writer if there is one
\* and a reader otherwise.
rwlock_unlock(t, l) ==
    /\ rcall[t] = Out
    /\ l \in RWLOCKS /\ t \in reads[l] \cup writes[l]
    /\ \/ /\ writer[l]
          /\ writer' = [writer EXCEPT ![l] = FALSE]
          /\ UNCHANGED readers
       \/ /\ ~writer[l]
          /\ readers' = [readers EXCEPT ![l] = @ - 1]
          /\ UNCHANGED writer
    /\ reads' = [reads EXCEPT ![l] = @ \ {t}]
    /\ writes' = [writes EXCEPT ![l] = @ \ {t}]
    /\ UNCHANGED <<NEXT_RWLOCK_ID, rcall>>

RwNext ==
    \E t \in RwThreads :
        \/ rwlock_create(t) \/ rwlock_missing(t)
        \/ \E l \in RwIds : rwlock_rdlock(t, l) \/ rwlock_wrlock(t, l) \/ rwlock_unlock(t, l)

RwSpec == RwInit /\ [][RwNext]_rwvars

-----------------------------------------------------------------------------
\* The counters stay in range: `readers` is never taken below zero.
RwTypeOK ==
    /\ NEXT_RWLOCK_ID \in Nat
    /\ readers \in [RwIds -> Nat]
    /\ writer \in [RwIds -> BOOLEAN]
    /\ rcall \in [RwThreads -> [lock : {0} \cup RwIds, mode : {"none", "read", "write"}]]
    /\ reads \in [RwIds -> SUBSET RwThreads]
    /\ writes \in [RwIds -> SUBSET RwThreads]

\* A writer is alone: while a thread was told that it holds the lock for
\* writing, no other thread was told that it holds it in either mode.  And the
\* counters count the holders, so that an unlock, which cannot tell who calls
\* it, never drops a writer for a reader or a reader for a writer.
WriterAlone ==
    \A l \in RwIds :
        /\ \A t \in writes[l] : writes[l] = {t} /\ reads[l] = {}
        /\ readers[l] = Cardinality(reads[l])
        /\ writer[l] <=> writes[l] # {}
=============================================================================
