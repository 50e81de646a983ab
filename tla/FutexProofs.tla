---------------------------- MODULE FutexProofs ----------------------------
(***************************************************************************)
(* The read-write locks and futexes of pthread.rs, for any number of       *)
(* threads, locks and words.                                               *)
(*                                                                         *)
(* WriterAlone is inductive once it is known that a thread looping for a   *)
(* lock does not hold it: a second pass of the loop then adds a holder.    *)
(*                                                                         *)
(* WaitersInOrder needs that the entry of a thread that waits says what    *)
(* the wakes told the thread, which also gives WakeIsSeen.  The core is    *)
(* what retain does to a list: with one entry to take out, the places      *)
(* after it move up by one and keep their order.                           *)
(***************************************************************************)
EXTENDS Futex, RwLock, FiniteSetTheorems, SequenceTheorems, TLAPS

-----------------------------------------------------------------------------
\* Read-write locks

RwInv ==
    /\ RwTypeOK
    /\ \A l \in RwIds : IsFiniteSet(reads[l])
    /\ \A t \in RwThreads, l \in RwIds : rcall[t].lock = l => t \notin reads[l] \cup writes[l]
    /\ WriterAlone

\* A thread gets a lock it does not hold, also one it has been looping for.
LEMMA WantsNew ==
    ASSUME RwInv, NEW t \in RwThreads, NEW l \in RWLOCKS, NEW mode, Wants(t, l, mode)
    PROVE  l \in RwIds /\ t \notin reads[l] \cup writes[l]
  BY DEF RwInv, Wants, RWLOCKS

\* rdlock adds a reader when there is no writer, or begins or goes on to loop.
LEMMA RdlockKeeps ==
    ASSUME RwInv, NEW t \in RwThreads, NEW l \in RwIds, rwlock_rdlock(t, l)
    PROVE  RwInv'
  <1>2. l \in RwIds /\ t \notin reads[l] \cup writes[l]
    BY WantsNew DEF rwlock_rdlock
  <1>3. IsFiniteSet(reads[l]) /\ readers[l] = Cardinality(reads[l]) /\ readers[l] \in Nat
    BY <1>2 DEF RwInv, WriterAlone, RwTypeOK
  <1>4. CASE ~writer[l]
    <2>1. /\ readers' = [readers EXCEPT ![l] = @ + 1]
          /\ reads' = [reads EXCEPT ![l] = @ \cup {t}]
          /\ rcall' = [rcall EXCEPT ![t] = Out]
          /\ UNCHANGED <<NEXT_RWLOCK_ID, writer, writes>>
      BY <1>4 DEF rwlock_rdlock
    <2>2. RwTypeOK'
      BY <2>1, <1>2 DEF RwInv, RwTypeOK, Out
    <2>3. /\ IsFiniteSet(reads'[l]) /\ readers'[l] = Cardinality(reads'[l])
      <3>1. reads'[l] = reads[l] \cup {t} /\ readers'[l] = readers[l] + 1
        BY <2>1, <1>2 DEF RwInv, RwTypeOK
      <3> QED BY <3>1, <1>2, <1>3, FS_AddElement
    <2>4. writes[l] = {}
      BY <1>2, <1>4 DEF RwInv, WriterAlone
    <2>5. \A k \in RwIds : k # l => reads'[k] = reads[k] /\ readers'[k] = readers[k]
      BY <2>1 DEF RwInv, RwTypeOK
    <2>6. \A k \in RwIds : IsFiniteSet(reads'[k])
      BY <2>3, <2>5 DEF RwInv
    <2>7. WriterAlone'
      BY <2>1, <2>3, <2>4, <2>5, <1>2 DEF RwInv, WriterAlone
    <2>8. ASSUME NEW u \in RwThreads, NEW k \in RwIds, rcall'[u].lock = k
          PROVE  u \notin reads'[k] \cup writes'[k]
      <3>1. u # t
        BY <2>1, <2>8 DEF Out, RwIds, RwInv, RwTypeOK
      <3>2. rcall'[u] = rcall[u]
        BY <3>1, <2>1 DEF RwInv, RwTypeOK
      <3> QED BY <2>1, <2>5, <2>8, <3>1, <3>2 DEF RwInv, RwTypeOK
    <2> QED BY <2>2, <2>6, <2>7, <2>8 DEF RwInv
  <1>5. CASE writer[l]
    <2>1. /\ rcall' = [rcall EXCEPT ![t] = [lock |-> l, mode |-> "read"]]
          /\ UNCHANGED <<NEXT_RWLOCK_ID, readers, writer, reads, writes>>
      BY <1>5 DEF rwlock_rdlock
    <2>2. RwTypeOK'
      BY <2>1, <1>2 DEF RwInv, RwTypeOK, RwIds
    <2>3. ASSUME NEW u \in RwThreads, NEW k \in RwIds, rcall'[u].lock = k
          PROVE  u \notin reads'[k] \cup writes'[k]
      BY <2>1, <2>3, <1>2 DEF RwInv, RwTypeOK
    <2> QED BY <2>1, <2>2, <2>3 DEF RwInv, WriterAlone
  <1> QED BY <1>4, <1>5

\* wrlock sets the writer when nobody holds the lock, or begins or goes on to loop.
LEMMA WrlockKeeps ==
    ASSUME RwInv, NEW t \in RwThreads, NEW l \in RwIds, rwlock_wrlock(t, l)
    PROVE  RwInv'
  <1>2. l \in RwIds /\ t \notin reads[l] \cup writes[l]
    BY WantsNew DEF rwlock_wrlock
  <1>3. IsFiniteSet(reads[l]) /\ readers[l] = Cardinality(reads[l])
    BY <1>2 DEF RwInv, WriterAlone
  <1>4. CASE ~writer[l] /\ readers[l] = 0
    <2>1. /\ writer' = [writer EXCEPT ![l] = TRUE]
          /\ writes' = [writes EXCEPT ![l] = @ \cup {t}]
          /\ rcall' = [rcall EXCEPT ![t] = Out]
          /\ UNCHANGED <<NEXT_RWLOCK_ID, readers, reads>>
      BY <1>4 DEF rwlock_wrlock
    <2>2. RwTypeOK'
      BY <2>1, <1>2 DEF RwInv, RwTypeOK, Out
    <2>3. reads[l] = {} /\ writes[l] = {}
      BY <1>2, <1>3, <1>4, FS_EmptySet DEF RwInv, WriterAlone
    <2>4. writes'[l] = {t} /\ writer'[l]
      BY <2>1, <2>3, <1>2 DEF RwInv, RwTypeOK
    <2>5. \A k \in RwIds : k # l => writes'[k] = writes[k] /\ writer'[k] = writer[k]
      BY <2>1 DEF RwInv, RwTypeOK
    <2>6. WriterAlone'
      <3> SUFFICES ASSUME NEW k \in RwIds
                   PROVE  /\ \A u \in writes'[k] : writes'[k] = {u} /\ reads'[k] = {}
                          /\ readers'[k] = Cardinality(reads'[k])
                          /\ writer'[k] <=> writes'[k] # {}
        BY DEF WriterAlone
      <3>1. CASE k = l
        BY <3>1, <2>1, <2>3, <2>4, <1>3
      <3>2. CASE k # l
        BY <3>2, <2>1, <2>5 DEF RwInv, WriterAlone
      <3> QED BY <3>1, <3>2
    <2>7. ASSUME NEW u \in RwThreads, NEW k \in RwIds, rcall'[u].lock = k
          PROVE  u \notin reads'[k] \cup writes'[k]
      <3>1. u # t
        BY <2>1, <2>7 DEF Out, RwIds, RwInv, RwTypeOK
      <3>2. rcall'[u] = rcall[u]
        BY <3>1, <2>1 DEF RwInv, RwTypeOK
      <3> QED BY <2>1, <2>4, <2>5, <2>7, <3>1, <3>2 DEF RwInv, RwTypeOK
    <2> QED BY <2>1, <2>2, <2>6, <2>7 DEF RwInv
  <1>5. CASE writer[l] \/ readers[l] # 0
    <2>1. /\ rcall' = [rcall EXCEPT ![t] = [lock |-> l, mode |-> "write"]]
          /\ UNCHANGED <<NEXT_RWLOCK_ID, readers, writer, reads, writes>>
      BY <1>5 DEF rwlock_wrlock
    <2>2. RwTypeOK'
      BY <2>1, <1>2 DEF RwInv, RwTypeOK, RwIds
    <2>3. ASSUME NEW u \in RwThreads, NEW k \in RwIds, rcall'[u].lock = k
          PROVE  u \notin reads'[k] \cup writes'[k]
      BY <2>1, <2>3, <1>2 DEF RwInv, RwTypeOK
    <2> QED BY <2>1, <2>2, <2>3 DEF RwInv, WriterAlone
  <1> QED BY <1>4, <1>5

\* The counter that unlock changes is the one the caller's mode is counted in.
LEMMA RwUnlockKeeps ==
    ASSUME RwInv, NEW t \in RwThreads, NEW l \in RwIds, rwlock_unlock(t, l)
    PROVE  RwInv'
  <1>2. UNCHANGED <<NEXT_RWLOCK_ID, rcall>>
    BY DEF rwlock_unlock
  <1>3. /\ reads' = [reads EXCEPT ![l] = @ \ {t}]
        /\ writes' = [writes EXCEPT ![l] = @ \ {t}]
        /\ t \in reads[l] \cup writes[l]
    BY DEF rwlock_unlock
  <1>4. /\ reads'[l] = reads[l] \ {t} /\ writes'[l] = writes[l] \ {t}
        /\ \A k \in RwIds : k # l => reads'[k] = reads[k] /\ writes'[k] = writes[k]
    BY <1>2, <1>3 DEF RwInv, RwTypeOK
  <1>5. IsFiniteSet(reads[l]) /\ readers[l] = Cardinality(reads[l]) /\ readers[l] \in Nat
    BY <1>2 DEF RwInv, WriterAlone, RwTypeOK
  <1>6. \A k \in RwIds : IsFiniteSet(reads'[k])
    BY <1>4, FS_RemoveElement DEF RwInv
  <1>7. \A u \in RwThreads, k \in RwIds : rcall'[u].lock = k => u \notin reads'[k] \cup writes'[k]
    BY <1>2, <1>4 DEF RwInv
  <1>8. CASE writer[l]
    <2>1. writer' = [writer EXCEPT ![l] = FALSE] /\ readers' = readers
      BY <1>8 DEF rwlock_unlock
    <2>2. writes[l] = {t} /\ reads[l] = {}
      BY <1>2, <1>3, <1>8 DEF RwInv, WriterAlone
    <2>3. RwTypeOK'
      BY <1>2, <1>3, <2>1 DEF RwInv, RwTypeOK
    <2>4. WriterAlone'
      <3> SUFFICES ASSUME NEW k \in RwIds
                   PROVE  /\ \A u \in writes'[k] : writes'[k] = {u} /\ reads'[k] = {}
                          /\ readers'[k] = Cardinality(reads'[k])
                          /\ writer'[k] <=> writes'[k] # {}
        BY DEF WriterAlone
      <3>1. CASE k = l
        <4>1. writes'[k] = {} /\ reads'[k] = reads[k]
          BY <3>1, <1>4, <2>2
        <4>2. ~writer'[k]
          BY <3>1, <1>2, <2>1 DEF RwInv, RwTypeOK
        <4> QED BY <3>1, <4>1, <4>2, <2>1, <1>5
      <3>2. CASE k # l
        <4>1. writer'[k] = writer[k]
          BY <3>2, <2>1 DEF RwInv, RwTypeOK
        <4> QED BY <3>2, <4>1, <2>1, <1>4 DEF RwInv, WriterAlone
      <3> QED BY <3>1, <3>2
    <2> QED BY <1>6, <1>7, <2>3, <2>4 DEF RwInv
  <1>9. CASE ~writer[l]
    <2>1. readers' = [readers EXCEPT ![l] = @ - 1] /\ writer' = writer
      BY <1>9 DEF rwlock_unlock
    <2>2. writes[l] = {} /\ t \in reads[l]
      BY <1>2, <1>3, <1>9 DEF RwInv, WriterAlone
    <2>3. Cardinality(reads'[l]) = readers[l] - 1 /\ readers[l] > 0
      <3>1. Cardinality(reads'[l]) = Cardinality(reads[l]) - 1 /\ IsFiniteSet(reads'[l])
        BY <1>4, <1>5, <2>2, FS_RemoveElement
      <3>2. readers[l] # 0
        BY <1>5, <2>2, FS_EmptySet
      <3> QED BY <3>1, <3>2, <1>5
    <2>4. readers[l] - 1 \in Nat
      BY <2>3, <1>5
    <2>5. readers' \in [RwIds -> Nat] /\ readers'[l] = readers[l] - 1
      BY <2>1, <2>4, <1>2 DEF RwInv, RwTypeOK
    <2>6. RwTypeOK'
      BY <1>2, <1>3, <2>1, <2>5 DEF RwInv, RwTypeOK
    <2>7. WriterAlone'
      <3> SUFFICES ASSUME NEW k \in RwIds
                   PROVE  /\ \A u \in writes'[k] : writes'[k] = {u} /\ reads'[k] = {}
                          /\ readers'[k] = Cardinality(reads'[k])
                          /\ writer'[k] <=> writes'[k] # {}
        BY DEF WriterAlone
      <3>1. CASE k = l
        BY <3>1, <1>4, <1>9, <2>1, <2>2, <2>3, <2>5
      <3>2. CASE k # l
        <4>1. readers'[k] = readers[k]
          BY <3>2, <2>1 DEF RwInv, RwTypeOK
        <4> QED BY <3>2, <4>1, <2>1, <1>4 DEF RwInv, WriterAlone
      <3> QED BY <3>1, <3>2
    <2> QED BY <1>6, <1>7, <2>6, <2>7 DEF RwInv
  <1> QED BY <1>8, <1>9

\* While rwlock_wrlock has told a thread that it holds a lock, nobody else has
\* been told so in either mode, and the counters that rwlock_unlock works from
\* count the holders: for any number of threads and locks.
THEOREM WritersAreAlone == RwSpec => []WriterAlone
  <1>1. RwInit => RwInv
    <2>1. IsFiniteSet({}) /\ Cardinality({}) = 0
      BY FS_EmptySet
    <2> QED BY <2>1 DEF RwInit, RwInv, RwTypeOK, WriterAlone, Out, RwIds
  <1>2. RwInv /\ [RwNext]_rwvars => RwInv'
    <2> SUFFICES ASSUME RwInv, [RwNext]_rwvars PROVE RwInv'
      OBVIOUS
    <2>1. ASSUME NEW t \in RwThreads, rwlock_create(t) PROVE RwInv'
      BY <2>1 DEF rwlock_create, RwInv, RwTypeOK, WriterAlone
    <2>2. ASSUME UNCHANGED rwvars PROVE RwInv'
      BY <2>2 DEF rwvars, RwInv, RwTypeOK, WriterAlone
    <2> QED BY <2>1, <2>2, RdlockKeeps, WrlockKeeps, RwUnlockKeeps DEF RwNext, rwlock_missing
  <1>3. RwInv => WriterAlone
    BY DEF RwInv
  <1> QED BY <1>1, <1>2, <1>3, PTL DEF RwSpec

-----------------------------------------------------------------------------
\* Futexes

EntryRec  == [addr : Addrs, tid : FutexThreads, woken : BOOLEAN]
FutexCall == [at : {"user", "wait", "dead"}, addr : Addrs, looks : Int, told : BOOLEAN]

USE DEF FutexCall

FutexTypes ==
    /\ FUTEX_WAITERS \in Seq(EntryRec)
    /\ fcall \in [FutexThreads -> FutexCall]
    /\ fret \in [FutexThreads -> {0, 1}]

OneEntry ==
    \A i, j \in DOMAIN FUTEX_WAITERS : FUTEX_WAITERS[i].tid = FUTEX_WAITERS[j].tid => i = j

\* The entry of a waiting thread says what the wakes told it.
WaitingListed ==
    \A t \in FutexThreads : fcall[t].at = "wait" =>
        \E i \in DOMAIN FUTEX_WAITERS :
            /\ Mine(t, FUTEX_WAITERS[i])
            /\ FUTEX_WAITERS[i].woken <=> fcall[t].told

OthersNotListed ==
    \A t \in FutexThreads : fcall[t].at = "user" =>
        \A i \in DOMAIN FUTEX_WAITERS : FUTEX_WAITERS[i].tid # t

WokenFirst ==
    \A i, j \in DOMAIN FUTEX_WAITERS :
        i < j /\ FUTEX_WAITERS[i].addr = FUTEX_WAITERS[j].addr /\ FUTEX_WAITERS[j].woken
            => FUTEX_WAITERS[i].woken

FutexInv == FutexTypes /\ OneEntry /\ WaitingListed /\ OthersNotListed /\ WokenFirst

\* A list is as long as it has places, and they are counted from 1.
LEMMA UpTo ==
    ASSUME NEW n \in Nat
    PROVE  IsFiniteSet(1 .. n) /\ Cardinality(1 .. n) = n
  <1>1. IsFiniteSet(1 .. n) /\ Cardinality(1 .. n) = IF 1 > n THEN 0 ELSE n - 1 + 1
    BY FS_Interval
  <1> QED BY <1>1

\* Place k of the list after place p was taken out, as a place of the list before.
Shift(p, k) == IF k < p THEN k ELSE k + 1

\* Taking out place p renumbers the others one to one and keeps their order.
LEMMA ShiftFacts ==
    ASSUME NEW n \in Nat, NEW p \in 1 .. n
    PROVE  /\ \A k \in 1 .. n - 1 : Shift(p, k) \in 1 .. n /\ Shift(p, k) # p
           /\ \A k, l \in 1 .. n - 1 : Shift(p, k) = Shift(p, l) => k = l
           /\ \A k, l \in 1 .. n - 1 : k < l => Shift(p, k) < Shift(p, l)
           /\ \A i \in 1 .. n : i # p => \E k \in 1 .. n - 1 : Shift(p, k) = i
  <1>1. ASSUME NEW i \in 1 .. n, i # p PROVE \E k \in 1 .. n - 1 : Shift(p, k) = i
    <2>1. CASE i < p
      <3>1. i \in 1 .. n - 1 /\ Shift(p, i) = i
        BY <2>1 DEF Shift
      <3> QED BY <3>1
    <2>2. CASE i > p
      <3>1. i - 1 \in 1 .. n - 1 /\ Shift(p, i - 1) = i
        BY <2>2 DEF Shift
      <3> QED BY <3>1
    <2> QED BY <1>1, <2>1, <2>2
  <1>2. \A k \in 1 .. n - 1 : Shift(p, k) \in 1 .. n /\ Shift(p, k) # p
    BY DEF Shift
  <1>3. \A k, l \in 1 .. n - 1 : Shift(p, k) = Shift(p, l) => k = l
    BY DEF Shift
  <1>4. \A k, l \in 1 .. n - 1 : k < l => Shift(p, k) < Shift(p, l)
    BY DEF Shift
  <1> QED BY <1>1, <1>2, <1>3, <1>4

\* The rank of a place among those that are kept.
LEMMA RankOf ==
    ASSUME NEW t, NEW n \in Nat, NEW p \in 1 .. n, Kept(t) = (1 .. n) \ {p}, NEW i \in Kept(t)
    PROVE  Rank(t, i) = IF i < p THEN i ELSE i - 1
  <1>0. i \in 1 .. n /\ i # p /\ i \in Nat
    OBVIOUS
  <1>1. CASE i < p
    <2>1. {j \in Kept(t) : j <= i} = 1 .. i
      BY <1>0, <1>1
    <2> QED BY <1>0, <1>1, <2>1, UpTo DEF Rank
  <1>2. CASE i > p
    <2>1. {j \in Kept(t) : j <= i} = (1 .. i) \ {p}
      BY <1>0, <1>2
    <2>2. p \in 1 .. i
      BY <1>0, <1>2
    <2>3. Cardinality((1 .. i) \ {p}) = i - 1
      BY <1>0, <2>2, UpTo, FS_RemoveElement
    <2> QED BY <1>2, <2>1, <2>3 DEF Rank
  <1> QED BY <1>0, <1>1, <1>2

\* retain, when it finds one entry to take out, moves the later ones up.
LEMMA RemovedOne ==
    ASSUME FUTEX_WAITERS \in Seq(EntryRec), NEW t, NEW p \in DOMAIN FUTEX_WAITERS,
           Kept(t) = DOMAIN FUTEX_WAITERS \ {p}
    PROVE  /\ Removed(t) \in Seq(EntryRec)
           /\ Len(Removed(t)) = Len(FUTEX_WAITERS) - 1
           /\ \A k \in 1 .. Len(FUTEX_WAITERS) - 1 : Removed(t)[k] = FUTEX_WAITERS[Shift(p, k)]
  <1> DEFINE n == Len(FUTEX_WAITERS)
  <1>1. n \in Nat /\ DOMAIN FUTEX_WAITERS = 1 .. n /\ p \in 1 .. n
    OBVIOUS
  <1> HIDE DEF n
  <1>2. Cardinality(Kept(t)) = n - 1 /\ n - 1 \in Nat
    <2>1. IsFiniteSet(1 .. n) /\ Cardinality(1 .. n) = n
      BY <1>1, UpTo
    <2>2. Cardinality((1 .. n) \ {p}) = Cardinality(1 .. n) - 1
      BY <1>1, <2>1, FS_RemoveElement
    <2> QED BY <1>1, <2>1, <2>2
  <1>3. ASSUME NEW k \in 1 .. n - 1
        PROVE  /\ (CHOOSE i \in Kept(t) : Rank(t, i) = k) = Shift(p, k)
               /\ Shift(p, k) \in 1 .. n
    <2>1. Shift(p, k) \in Kept(t) /\ Shift(p, k) \in 1 .. n
      BY <1>1 DEF Shift
    <2>2. Rank(t, Shift(p, k)) = k
      <3>1. Rank(t, Shift(p, k)) = IF Shift(p, k) < p THEN Shift(p, k) ELSE Shift(p, k) - 1
        BY <1>1, <2>1, RankOf
      <3> QED BY <1>1, <3>1 DEF Shift
    <2>3. ASSUME NEW i \in Kept(t), Rank(t, i) = k PROVE i = Shift(p, k)
      <3>1. k = IF i < p THEN i ELSE i - 1
        BY <1>1, <2>3, RankOf
      <3>2. i \in 1 .. n /\ i # p
        BY <1>1
      <3> QED BY <1>1, <3>1, <3>2 DEF Shift
    <2> QED BY <2>1, <2>2, <2>3
  <1>4. Removed(t) = [k \in 1 .. n - 1 |-> FUTEX_WAITERS[CHOOSE i \in Kept(t) : Rank(t, i) = k]]
    BY <1>2 DEF Removed
  <1>5. \A k \in 1 .. n - 1 : Removed(t)[k] = FUTEX_WAITERS[Shift(p, k)]
    BY <1>3, <1>4
  <1>6. Removed(t) \in [1 .. n - 1 -> EntryRec]
    <2>1. \A k \in 1 .. n - 1 : FUTEX_WAITERS[Shift(p, k)] \in EntryRec
      BY <1>1, <1>3
    <2> QED BY <1>3, <1>4, <2>1
  <1>7. Removed(t) \in Seq(EntryRec) /\ Len(Removed(t)) = n - 1
    BY <1>2, <1>6
  <1> QED BY <1>5, <1>7 DEF n

\* A waiting thread that returns takes out its entry, and only that.
LEMMA OwnPlace ==
    ASSUME FutexInv, NEW t \in FutexThreads, fcall[t].at = "wait"
    PROVE  \E p \in DOMAIN FUTEX_WAITERS :
              /\ Mine(t, FUTEX_WAITERS[p])
              /\ FUTEX_WAITERS[p].woken <=> fcall[t].told
              /\ Kept(t) = DOMAIN FUTEX_WAITERS \ {p}
              /\ \A i \in DOMAIN FUTEX_WAITERS : FUTEX_WAITERS[i].tid = t => i = p
  <1>1. PICK p \in DOMAIN FUTEX_WAITERS :
               /\ Mine(t, FUTEX_WAITERS[p])
               /\ FUTEX_WAITERS[p].woken <=> fcall[t].told
    BY DEF FutexInv, WaitingListed
  <1>2. \A i \in DOMAIN FUTEX_WAITERS : FUTEX_WAITERS[i].tid = t => i = p
    BY <1>1 DEF FutexInv, OneEntry, Mine
  <1>3. Kept(t) = DOMAIN FUTEX_WAITERS \ {p}
    BY <1>1, <1>2 DEF Kept, Mine
  <1> QED BY <1>1, <1>2, <1>3

\* The end of futex_wait: the entry goes and the thread is back in user code.
LEMMA ReturnKeeps ==
    ASSUME FutexInv, NEW t \in FutexThreads, fcall[t].at = "wait",
           FUTEX_WAITERS' = Removed(t),
           fcall' = [fcall EXCEPT ![t] = Returned],
           fret' \in [FutexThreads -> {0, 1}]
    PROVE  FutexInv'
  <1>1. PICK p \in DOMAIN FUTEX_WAITERS :
              /\ Kept(t) = DOMAIN FUTEX_WAITERS \ {p}
              /\ FUTEX_WAITERS[p].tid = t
              /\ \A i \in DOMAIN FUTEX_WAITERS : FUTEX_WAITERS[i].tid = t => i = p
    BY OwnPlace DEF Mine
  <1> DEFINE n == Len(FUTEX_WAITERS)
             W == FUTEX_WAITERS'
  <1>2. FUTEX_WAITERS \in Seq(EntryRec) /\ n \in Nat /\ p \in 1 .. n
        /\ DOMAIN FUTEX_WAITERS = 1 .. n
    BY DEF FutexInv, FutexTypes
  <1>3. /\ W \in Seq(EntryRec) /\ Len(W) = n - 1
        /\ \A k \in 1 .. n - 1 : W[k] = FUTEX_WAITERS[Shift(p, k)]
    <2>1. Kept(t) = DOMAIN FUTEX_WAITERS \ {p} /\ FUTEX_WAITERS \in Seq(EntryRec)
      BY <1>1, <1>2
    <2>2. /\ Removed(t) \in Seq(EntryRec)
          /\ Len(Removed(t)) = Len(FUTEX_WAITERS) - 1
          /\ \A k \in 1 .. Len(FUTEX_WAITERS) - 1 : Removed(t)[k] = FUTEX_WAITERS[Shift(p, k)]
      BY <2>1, RemovedOne
    <2> QED BY <2>2
  <1>4. DOMAIN W = 1 .. n - 1
    BY <1>2, <1>3
  <1> HIDE DEF n
  <1>5. /\ \A k \in 1 .. n - 1 : Shift(p, k) \in DOMAIN FUTEX_WAITERS /\ Shift(p, k) # p
        /\ \A k, l \in 1 .. n - 1 : Shift(p, k) = Shift(p, l) => k = l
        /\ \A k, l \in 1 .. n - 1 : k < l => Shift(p, k) < Shift(p, l)
        /\ \A i \in DOMAIN FUTEX_WAITERS : i # p => \E k \in 1 .. n - 1 : Shift(p, k) = i
    BY <1>2, ShiftFacts
  <1>6. fcall'[t] = Returned /\ \A u \in FutexThreads : u # t => fcall'[u] = fcall[u]
    BY DEF FutexInv, FutexTypes
  <1>7. FutexTypes'
    <2>1. Returned \in FutexCall
      BY FutexAssumption DEF Returned
    <2> QED BY <1>3, <2>1 DEF FutexInv, FutexTypes
  <1>8. OneEntry'
    BY <1>3, <1>4, <1>5 DEF FutexInv, OneEntry
  <1>9. WokenFirst'
    <2> SUFFICES ASSUME NEW k \in DOMAIN W, NEW l \in DOMAIN W,
                        k < l, W[k].addr = W[l].addr, W[l].woken
                 PROVE  W[k].woken
      BY DEF WokenFirst
    <2>1. /\ W[k] = FUTEX_WAITERS[Shift(p, k)] /\ W[l] = FUTEX_WAITERS[Shift(p, l)]
          /\ Shift(p, k) < Shift(p, l)
          /\ Shift(p, k) \in DOMAIN FUTEX_WAITERS /\ Shift(p, l) \in DOMAIN FUTEX_WAITERS
      BY <1>3, <1>4, <1>5
    <2> HIDE DEF W
    <2> QED BY <2>1 DEF FutexInv, WokenFirst
  <1>10. OthersNotListed'
    <2> SUFFICES ASSUME NEW u \in FutexThreads, fcall'[u].at = "user", NEW k \in DOMAIN W
                 PROVE  W[k].tid # u
      BY DEF OthersNotListed
    <2>1. /\ W[k] = FUTEX_WAITERS[Shift(p, k)] /\ Shift(p, k) # p
          /\ Shift(p, k) \in DOMAIN FUTEX_WAITERS
      BY <1>3, <1>4, <1>5
    <2> HIDE DEF W
    <2>2. CASE u = t
      BY <1>1, <2>1, <2>2
    <2>3. CASE u # t
      BY <1>6, <2>1, <2>3 DEF FutexInv, OthersNotListed
    <2> QED BY <2>2, <2>3
  <1>11. WaitingListed'
    <2> SUFFICES ASSUME NEW u \in FutexThreads, fcall'[u].at = "wait"
                 PROVE  \E k \in DOMAIN W : /\ W[k].addr = fcall'[u].addr /\ W[k].tid = u
                                            /\ W[k].woken <=> fcall'[u].told
      BY DEF WaitingListed, Mine
    <2>1. u # t /\ fcall'[u] = fcall[u]
      BY <1>6 DEF Returned
    <2>2. PICK i \in DOMAIN FUTEX_WAITERS :
                 /\ Mine(u, FUTEX_WAITERS[i])
                 /\ FUTEX_WAITERS[i].woken <=> fcall[u].told
      BY <2>1 DEF FutexInv, WaitingListed
    <2>3. i # p
      BY <1>1, <2>1, <2>2 DEF Mine
    <2>4. PICK k \in 1 .. n - 1 : Shift(p, k) = i
      BY <1>5, <2>3
    <2>5. W[k] = FUTEX_WAITERS[i] /\ k \in DOMAIN W
      BY <1>3, <1>4, <2>4
    <2> HIDE DEF W
    <2> QED BY <2>1, <2>2, <2>5 DEF Mine
  <1> QED BY <1>7, <1>8, <1>9, <1>10, <1>11 DEF FutexInv

\* futex_wait enters a thread that is not on the list at its end, not woken.
LEMMA FutexWaitKeeps ==
    ASSUME FutexInv, NEW t \in FutexThreads, fcall[t].at = "user", NEW a \in Addrs,
           FUTEX_WAITERS' = Append(FUTEX_WAITERS, [addr |-> a, tid |-> t, woken |-> FALSE]),
           fcall' = [fcall EXCEPT ![t] = [at |-> "wait", addr |-> a,
                                          looks |-> MaxLooks - 1, told |-> FALSE]],
           UNCHANGED fret
    PROVE  FutexInv'
  <1> DEFINE n == Len(FUTEX_WAITERS)
             W == FUTEX_WAITERS'
             e == [addr |-> a, tid |-> t, woken |-> FALSE]
             c == [at |-> "wait", addr |-> a, looks |-> MaxLooks - 1, told |-> FALSE]
  <1>1. FUTEX_WAITERS \in Seq(EntryRec) /\ n \in Nat /\ DOMAIN FUTEX_WAITERS = 1 .. n
    BY DEF FutexInv, FutexTypes
  <1>2. e \in EntryRec
    BY DEF EntryRec
  <1>3. c \in FutexCall
    BY FutexAssumption
  <1>4. e.addr = a /\ e.tid = t /\ e.woken = FALSE /\ c.at = "wait" /\ c.addr = a /\ c.told = FALSE
    OBVIOUS
  <1>5. fcall' = [fcall EXCEPT ![t] = c] /\ W = Append(FUTEX_WAITERS, e)
    OBVIOUS
  <1> HIDE DEF e, c, n, W
  <1>6. /\ W \in Seq(EntryRec) /\ DOMAIN W = 1 .. n + 1
        /\ W[n + 1] = e /\ \A k \in 1 .. n : W[k] = FUTEX_WAITERS[k]
    BY <1>1, <1>2, <1>5 DEF n
  <1>7. fcall'[t] = c /\ \A u \in FutexThreads : u # t => fcall'[u] = fcall[u]
    BY <1>5 DEF FutexInv, FutexTypes
  <1>8. \A k \in 1 .. n : FUTEX_WAITERS[k].tid # t
    BY <1>1 DEF FutexInv, OthersNotListed
  <1>9. \A k \in 1 .. n + 1 : k = n + 1 \/ k \in 1 .. n
    BY <1>1
  <1>10. FutexTypes'
    BY <1>3, <1>5, <1>6 DEF FutexInv, FutexTypes, W
  <1>11. OneEntry'
    <2> SUFFICES ASSUME NEW k \in 1 .. n + 1, NEW l \in 1 .. n + 1, W[k].tid = W[l].tid
                 PROVE  k = l
      BY <1>6 DEF OneEntry, W
    <2>1. CASE k \in 1 .. n /\ l \in 1 .. n
      BY <1>1, <1>6, <2>1 DEF FutexInv, OneEntry
    <2>2. CASE k = n + 1 \/ l = n + 1
      BY <1>4, <1>6, <1>8, <1>9, <2>2
    <2> QED BY <1>9, <2>1, <2>2
  <1>12. WokenFirst'
    <2> SUFFICES ASSUME NEW k \in 1 .. n + 1, NEW l \in 1 .. n + 1,
                        k < l, W[k].addr = W[l].addr, W[l].woken
                 PROVE  W[k].woken
      BY <1>6 DEF WokenFirst, W
    <2>1. l \in 1 .. n
      BY <1>4, <1>6, <1>9
    <2>2. k \in 1 .. n
      BY <1>1, <2>1
    <2> QED BY <1>1, <1>6, <2>1, <2>2 DEF FutexInv, WokenFirst
  <1>13. OthersNotListed'
    <2> SUFFICES ASSUME NEW u \in FutexThreads, fcall'[u].at = "user", NEW k \in 1 .. n + 1
                 PROVE  W[k].tid # u
      BY <1>6 DEF OthersNotListed, W
    <2>1. u # t /\ fcall'[u] = fcall[u]
      BY <1>4, <1>7
    <2>2. CASE k \in 1 .. n
      BY <1>1, <1>6, <2>1, <2>2 DEF FutexInv, OthersNotListed
    <2>3. CASE k = n + 1
      BY <1>4, <1>6, <2>1, <2>3
    <2> QED BY <1>9, <2>2, <2>3
  <1>14. WaitingListed'
    <2> SUFFICES ASSUME NEW u \in FutexThreads, fcall'[u].at = "wait"
                 PROVE  \E k \in 1 .. n + 1 :
                            /\ W[k].addr = fcall'[u].addr /\ W[k].tid = u
                            /\ W[k].woken <=> fcall'[u].told
      BY <1>6 DEF WaitingListed, Mine, W
    <2>1. CASE u = t
      <3>1. n + 1 \in 1 .. n + 1
        BY <1>1
      <3> QED BY <1>4, <1>6, <1>7, <2>1, <3>1
    <2>2. CASE u # t
      <3>1. PICK k \in 1 .. n : /\ Mine(u, FUTEX_WAITERS[k])
                                /\ FUTEX_WAITERS[k].woken <=> fcall[u].told
        BY <1>1, <1>7, <2>2 DEF FutexInv, WaitingListed
      <3>2. k \in 1 .. n + 1 /\ W[k] = FUTEX_WAITERS[k]
        BY <1>1, <1>6
      <3> QED BY <1>7, <2>2, <3>1, <3>2 DEF Mine
    <2> QED BY <2>1, <2>2
  <1> QED BY <1>10, <1>11, <1>12, <1>13, <1>14 DEF FutexInv

\* futex_wake marks a beginning of those asleep on a word.
LEMMA MarkedFirst ==
    ASSUME FUTEX_WAITERS \in Seq(EntryRec), NEW a, NEW count \in Nat,
           NEW i \in Asleep(a), NEW j \in Marked(a, count), i < j
    PROVE  i \in Marked(a, count)
  <1> DEFINE Before(k) == {l \in Asleep(a) : l < k}
             c == IF count = 0 THEN 1 ELSE count
  <1>1. Asleep(a) \subseteq 1 .. Len(FUTEX_WAITERS) /\ Len(FUTEX_WAITERS) \in Nat
    BY DEF Asleep
  <1>2. IsFiniteSet(Asleep(a))
    BY <1>1, UpTo, FS_Subset
  <1>3. IsFiniteSet(Before(j)) /\ Before(i) \subseteq Before(j)
    <2>1. Before(j) \subseteq Asleep(a)
      OBVIOUS
    <2>2. IsFiniteSet(Before(j))
      BY <1>2, <2>1, FS_Subset
    <2>3. j \in Asleep(a)
      BY DEF Marked
    <2>4. Before(i) \subseteq Before(j)
      BY <1>1, <2>3
    <2> QED BY <2>2, <2>4
  <1>4. /\ Cardinality(Before(i)) <= Cardinality(Before(j))
        /\ Cardinality(Before(i)) \in Nat /\ Cardinality(Before(j)) \in Nat
    BY <1>3, FS_Subset, FS_CardinalityType
  <1>5. Cardinality(Before(j)) < c
    BY DEF Marked
  <1>6. Cardinality(Before(i)) < c
    BY <1>4, <1>5
  <1> QED BY <1>6 DEF Marked

\* Waking keeps the order, and tells a thread exactly when its entry is marked.
LEMMA WakeKeeps ==
    ASSUME FutexInv, NEW a \in Addrs, NEW count \in 0 .. MaxWakes,
           FUTEX_WAITERS' = [i \in DOMAIN FUTEX_WAITERS |->
               [FUTEX_WAITERS[i] EXCEPT !.woken = @ \/ i \in Marked(a, count)]],
           fcall' = [u \in FutexThreads |->
               [fcall[u] EXCEPT !.told = @ \/ \E i \in Marked(a, count) : FUTEX_WAITERS[i].tid = u]],
           UNCHANGED fret
    PROVE  FutexInv'
  <1> DEFINE n == Len(FUTEX_WAITERS)
             W == FUTEX_WAITERS'
             M == Marked(a, count)
             Told(u) == \E i \in M : FUTEX_WAITERS[i].tid = u
  <1>1. FUTEX_WAITERS \in Seq(EntryRec) /\ n \in Nat /\ DOMAIN FUTEX_WAITERS = 1 .. n
    BY DEF FutexInv, FutexTypes
  <1>2. M \subseteq Asleep(a) /\ M \subseteq 1 .. n
    BY <1>1 DEF Marked, Asleep
  <1>3. count \in Nat
    BY FutexAssumption
  <1>4. ASSUME NEW i \in 1 .. n
        PROVE  /\ W[i] \in EntryRec
               /\ W[i].addr = FUTEX_WAITERS[i].addr /\ W[i].tid = FUTEX_WAITERS[i].tid
               /\ W[i].woken <=> FUTEX_WAITERS[i].woken \/ i \in M
    <2>1. FUTEX_WAITERS[i] \in EntryRec
      BY <1>1
    <2>2. W[i] = [FUTEX_WAITERS[i] EXCEPT !.woken = FUTEX_WAITERS[i].woken \/ i \in M]
      BY <1>1
    <2> DEFINE b == FUTEX_WAITERS[i].woken \/ i \in M
    <2>3. b \in BOOLEAN
      OBVIOUS
    <2>4. W[i] = [FUTEX_WAITERS[i] EXCEPT !.woken = b]
      BY <2>2
    <2> HIDE DEF b, W, M
    <2>5. W[i] \in EntryRec /\ W[i].woken = b
          /\ W[i].addr = FUTEX_WAITERS[i].addr /\ W[i].tid = FUTEX_WAITERS[i].tid
      BY <2>1, <2>3, <2>4 DEF EntryRec
    <2> QED BY <2>5 DEF b
  <1>5. ASSUME NEW u \in FutexThreads
        PROVE  /\ fcall'[u] \in FutexCall
               /\ fcall'[u].at = fcall[u].at /\ fcall'[u].addr = fcall[u].addr
               /\ fcall'[u].told <=> fcall[u].told \/ Told(u)
    <2>1. fcall[u] \in FutexCall
      BY DEF FutexInv, FutexTypes
    <2> DEFINE b == fcall[u].told \/ Told(u)
    <2>2. fcall'[u] = [fcall[u] EXCEPT !.told = b]
      OBVIOUS
    <2>3. b \in BOOLEAN
      OBVIOUS
    <2> HIDE DEF b, M, Told
    <2>4. /\ fcall'[u] \in FutexCall
          /\ fcall'[u].at = fcall[u].at /\ fcall'[u].addr = fcall[u].addr /\ fcall'[u].told = b
      BY <2>1, <2>2, <2>3
    <2> QED BY <2>4 DEF b
  <1>6. DOMAIN W = 1 .. n /\ W = [i \in 1 .. n |-> W[i]]
    BY <1>1
  <1>7. DOMAIN fcall' = FutexThreads /\ fcall' = [u \in FutexThreads |-> fcall'[u]]
    OBVIOUS
  <1> HIDE DEF n, W, M, Told
  <1>8. FutexTypes'
    <2>1. W \in [1 .. n -> EntryRec]
      BY <1>4, <1>6
    <2>2. W \in Seq(EntryRec)
      BY <1>1, <2>1
    <2>3. fcall' \in [FutexThreads -> FutexCall]
      BY <1>5, <1>7
    <2> QED BY <2>2, <2>3 DEF FutexInv, FutexTypes, W
  <1>9. OneEntry'
    <2> SUFFICES ASSUME NEW i \in 1 .. n, NEW j \in 1 .. n, W[i].tid = W[j].tid
                 PROVE  i = j
      BY <1>6 DEF OneEntry, W
    <2>1. FUTEX_WAITERS[i].tid = FUTEX_WAITERS[j].tid
      BY <1>4
    <2> QED BY <1>1, <2>1 DEF FutexInv, OneEntry
  <1>10. OthersNotListed'
    <2> SUFFICES ASSUME NEW u \in FutexThreads, fcall'[u].at = "user", NEW i \in 1 .. n
                 PROVE  W[i].tid # u
      BY <1>6 DEF OthersNotListed, W
    <2>1. fcall[u].at = "user" /\ W[i].tid = FUTEX_WAITERS[i].tid
      BY <1>4, <1>5
    <2> QED BY <1>1, <2>1 DEF FutexInv, OthersNotListed
  <1>11. WokenFirst'
    <2> SUFFICES ASSUME NEW i \in 1 .. n, NEW j \in 1 .. n,
                        i < j, W[i].addr = W[j].addr, W[j].woken
                 PROVE  W[i].woken
      BY <1>6 DEF WokenFirst, W
    <2>1. FUTEX_WAITERS[i].addr = FUTEX_WAITERS[j].addr
      BY <1>4
    <2>2. CASE FUTEX_WAITERS[j].woken
      BY <1>1, <1>4, <2>1, <2>2 DEF FutexInv, WokenFirst
    <2>3. CASE j \in M
      <3>1. FUTEX_WAITERS[j].addr = a
        BY <1>2, <2>3 DEF Asleep
      <3>2. CASE FUTEX_WAITERS[i].woken
        BY <1>4, <3>2
      <3>3. CASE ~FUTEX_WAITERS[i].woken
        <4>1. i \in Asleep(a)
          BY <1>1, <2>1, <3>1, <3>3 DEF Asleep
        <4>2. i \in M
          BY <1>1, <1>3, <2>3, <4>1, MarkedFirst DEF M
        <4> QED BY <1>4, <4>2
      <3> QED BY <3>2, <3>3
    <2> QED BY <1>4, <2>2, <2>3
  <1>12. WaitingListed'
    <2> SUFFICES ASSUME NEW u \in FutexThreads, fcall'[u].at = "wait"
                 PROVE  \E k \in 1 .. n : /\ W[k].addr = fcall'[u].addr /\ W[k].tid = u
                                          /\ W[k].woken <=> fcall'[u].told
      BY <1>6 DEF WaitingListed, Mine, W
    <2>1. fcall[u].at = "wait"
      BY <1>5
    <2>2. PICK p \in 1 .. n : /\ Mine(u, FUTEX_WAITERS[p])
                              /\ FUTEX_WAITERS[p].woken <=> fcall[u].told
                              /\ \A i \in 1 .. n : FUTEX_WAITERS[i].tid = u => i = p
      BY <1>1, <2>1, OwnPlace
    <2>3. Told(u) <=> p \in M
      BY <1>2, <2>2 DEF Told, Mine
    <2> QED BY <1>4, <1>5, <2>2, <2>3 DEF Mine
  <1> QED BY <1>8, <1>9, <1>10, <1>11, <1>12 DEF FutexInv

\* A look that finds no wake, and kill, change one thread's call and no entry.
LEMMA CallKeeps ==
    ASSUME FutexInv, NEW t \in FutexThreads, UNCHANGED <<FUTEX_WAITERS, fret>>,
           NEW c \in FutexCall,
           fcall' = [fcall EXCEPT ![t] = c],
           \/ c.at = "dead"
           \/ c.at = fcall[t].at /\ c.addr = fcall[t].addr /\ c.told = fcall[t].told
    PROVE  FutexInv'
  <1>1. fcall'[t] = c /\ \A u \in FutexThreads : u # t => fcall'[u] = fcall[u]
    BY DEF FutexInv, FutexTypes
  <1>2. FutexTypes'
    BY DEF FutexInv, FutexTypes
  <1>3. OneEntry' /\ WokenFirst'
    BY DEF FutexInv, OneEntry, WokenFirst
  <1>4. OthersNotListed'
    BY <1>1 DEF FutexInv, OthersNotListed
  <1>5. WaitingListed'
    BY <1>1 DEF FutexInv, WaitingListed, Mine
  <1> QED BY <1>2, <1>3, <1>4, <1>5 DEF FutexInv

\* Each step of each thread keeps the list.
LEMMA FutexStep == FutexInv /\ [FutexNext]_fvars => FutexInv'
  <1> SUFFICES ASSUME FutexInv, [FutexNext]_fvars PROVE FutexInv'
    OBVIOUS
  <1>1. fcall \in [FutexThreads -> FutexCall] /\ fret \in [FutexThreads -> {0, 1}]
    BY DEF FutexInv, FutexTypes
  <1>2. ASSUME UNCHANGED <<FUTEX_WAITERS, fcall>>, fret' \in [FutexThreads -> {0, 1}]
        PROVE  FutexInv'
    BY <1>2 DEF FutexInv, FutexTypes, OneEntry, WokenFirst, OthersNotListed, WaitingListed, Mine
  <1>3. ASSUME NEW t \in FutexThreads, futex_wait(t) PROVE FutexInv'
    <2>1. PICK a \in Addrs : 
             \/ fret' = [fret EXCEPT ![t] = 1] /\ UNCHANGED <<FUTEX_WAITERS, fcall>>
             \/ /\ FUTEX_WAITERS' = Append(FUTEX_WAITERS, [addr |-> a, tid |-> t, woken |-> FALSE])
                /\ fcall' = [fcall EXCEPT ![t] = [at |-> "wait", addr |-> a,
                                                  looks |-> MaxLooks - 1, told |-> FALSE]]
                /\ UNCHANGED fret
      BY <1>3 DEF futex_wait
    <2>2. fcall[t].at = "user"
      BY <1>3 DEF futex_wait
    <2> QED BY <1>1, <1>2, <2>1, <2>2, FutexWaitKeeps
  <1>4. ASSUME NEW t \in FutexThreads, futex_look(t) PROVE FutexInv'
    <2>1. CASE \E w \in Entries : Mine(t, w) /\ w.woken
      BY <1>1, <1>4, <2>1, ReturnKeeps DEF futex_look
    <2>2. CASE ~\E w \in Entries : Mine(t, w) /\ w.woken
      <3> DEFINE c == [fcall[t] EXCEPT !.looks = fcall[t].looks - 1]
      <3>1. fcall' = [fcall EXCEPT ![t] = c] /\ UNCHANGED <<FUTEX_WAITERS, fret>>
        BY <1>1, <1>4, <2>2 DEF futex_look
      <3>2. fcall[t] \in FutexCall
        BY <1>1
      <3>3. c \in FutexCall /\ c.at = fcall[t].at /\ c.addr = fcall[t].addr /\ c.told = fcall[t].told
        BY <3>2
      <3> HIDE DEF c
      <3> QED BY <3>1, <3>3, CallKeeps
    <2> QED BY <2>1, <2>2
  <1>5. ASSUME NEW t \in FutexThreads, futex_timeout(t) PROVE FutexInv'
    BY <1>1, <1>5, ReturnKeeps DEF futex_timeout
  <1>6. ASSUME NEW t \in FutexThreads, futex_wake(t) PROVE FutexInv'
    <2>1. PICK a \in Addrs, count \in 0 .. MaxWakes :
             /\ FUTEX_WAITERS' = [i \in DOMAIN FUTEX_WAITERS |->
                  [FUTEX_WAITERS[i] EXCEPT !.woken = @ \/ i \in Marked(a, count)]]
             /\ fcall' = [u \in FutexThreads |->
                  [fcall[u] EXCEPT !.told = @ \/ \E i \in Marked(a, count) : FUTEX_WAITERS[i].tid = u]]
      BY <1>6, Zenon DEF futex_wake
    <2>2. UNCHANGED fret
      BY <1>6 DEF futex_wake
    <2> QED BY <2>1, <2>2, WakeKeeps
  <1>7. ASSUME NEW t \in FutexThreads, kill(t) PROVE FutexInv'
    <2> DEFINE c == [fcall[t] EXCEPT !.at = "dead"]
    <2>1. fcall' = [fcall EXCEPT ![t] = c] /\ UNCHANGED <<FUTEX_WAITERS, fret>>
      BY <1>1, <1>7 DEF kill
    <2>2. fcall[t] \in FutexCall
      BY <1>1
    <2>3. c \in FutexCall /\ c.at = "dead"
      BY <2>2
    <2> HIDE DEF c
    <2> QED BY <2>1, <2>3, CallKeeps
  <1> QED BY <1>1, <1>2, <1>3, <1>4, <1>5, <1>6, <1>7 DEF FutexNext, store, fvars

\* At the start nobody waits and the list is empty.
LEMMA FutexStart == FutexInit => FutexInv
  <1> SUFFICES ASSUME FutexInit PROVE FutexInv
    OBVIOUS
  <1>1. FUTEX_WAITERS \in Seq(EntryRec) /\ DOMAIN FUTEX_WAITERS = {}
    BY DEF FutexInit
  <1>2. Returned \in FutexCall
        /\ Returned.at = "user"
    BY FutexAssumption DEF Returned
  <1>3. FutexTypes
    BY <1>1, <1>2 DEF FutexInit, FutexTypes
  <1>4. OneEntry /\ OthersNotListed /\ WokenFirst
    BY <1>1 DEF OneEntry, OthersNotListed, WokenFirst
  <1>5. WaitingListed
    BY <1>2 DEF FutexInit, WaitingListed
  <1> QED BY <1>3, <1>4, <1>5 DEF FutexInv

\* For any threads, words, list size and counts: whoever is in futex_wait has one
\* entry, nobody else but the killed has any, and the waiters of a word are woken
\* in the order in which they came.
THEOREM WaitersAreInOrder == FutexSpec => []WaitersInOrder
  <1>1. FutexInv => WaitersInOrder
    <2> SUFFICES ASSUME FutexInv PROVE WaitersInOrder
      OBVIOUS
    <2>1. ASSUME NEW t \in FutexThreads
          PROVE  LET own == {i \in DOMAIN FUTEX_WAITERS : FUTEX_WAITERS[i].tid = t} IN
                 /\ fcall[t].at = "wait" => Cardinality(own) = 1 /\ \A i \in own : Mine(t, FUTEX_WAITERS[i])
                 /\ fcall[t].at = "user" => own = {}
                 /\ Cardinality(own) <= 1
      <3> DEFINE own == {i \in DOMAIN FUTEX_WAITERS : FUTEX_WAITERS[i].tid = t}
      <3>1. own = {} \/ \E i : own = {i}
        BY DEF FutexInv, OneEntry
      <3>2. Cardinality(own) <= 1 /\ (own # {} => Cardinality(own) = 1)
        <4>1. CASE own = {}
          BY <4>1, FS_EmptySet
        <4>2. ASSUME NEW i, own = {i} PROVE Cardinality(own) = 1
          BY <4>2, FS_Singleton
        <4> QED BY <3>1, <4>1, <4>2
      <3>3. fcall[t].at = "wait" => own # {} /\ \A i \in own : Mine(t, FUTEX_WAITERS[i])
        BY OwnPlace DEF Mine
      <3>4. fcall[t].at = "user" => own = {}
        BY DEF FutexInv, OthersNotListed
      <3> QED BY <3>2, <3>3, <3>4
    <2> QED BY <2>1 DEF WaitersInOrder, FutexInv, WokenFirst
  <1> QED BY <1>1, FutexStart, FutexStep, PTL DEF FutexSpec

\* futex_wait returns 0 exactly when a wake was counted for its thread while it
\* still had iterations left: no wake is lost to another waiter.
THEOREM WakesAreSeen == FutexSpec => WakeIsSeen
  <1> DEFINE Seen == \A t \in FutexThreads :
                        fcall[t].at = "wait" /\ fcall'[t].at = "user"
                          => (fret'[t] = 0 <=> fcall[t].told /\ fcall[t].looks > 0)
  <1>1. FutexInv /\ [FutexNext]_fvars => [Seen]_fvars
    <2> SUFFICES ASSUME FutexInv, FutexNext, NEW u \in FutexThreads,
                        fcall[u].at = "wait", fcall'[u].at = "user"
                 PROVE  fret'[u] = 0 <=> fcall[u].told /\ fcall[u].looks > 0
      OBVIOUS
    <2>1. /\ fcall \in [FutexThreads -> FutexCall]
          /\ fret \in [FutexThreads -> {0, 1}]
      BY DEF FutexInv, FutexTypes
    <2>2. PICK p \in DOMAIN FUTEX_WAITERS :
             /\ Mine(u, FUTEX_WAITERS[p])
             /\ FUTEX_WAITERS[p].woken <=> fcall[u].told
             /\ \A i \in DOMAIN FUTEX_WAITERS : FUTEX_WAITERS[i].tid = u => i = p
      BY OwnPlace
    <2>3. (\E w \in Entries : Mine(u, w) /\ w.woken) <=> fcall[u].told
      BY <2>2 DEF Entries, Mine
    <2>4. ASSUME NEW t \in FutexThreads, futex_look(t)
          PROVE  fret'[u] = 0 <=> fcall[u].told /\ fcall[u].looks > 0
      <3>1. t = u
        BY <2>1, <2>4 DEF futex_look
      <3>2. CASE fcall[u].told
        BY <2>1, <2>3, <2>4, <3>1, <3>2 DEF futex_look
      <3>3. CASE ~fcall[u].told
        <4>1. fcall'[u].at = "wait"
          BY <2>1, <2>3, <2>4, <3>1, <3>3 DEF futex_look
        <4> QED BY <4>1
      <3> QED BY <3>2, <3>3
    <2>5. ASSUME NEW t \in FutexThreads, futex_timeout(t)
          PROVE  fret'[u] = 0 <=> fcall[u].told /\ fcall[u].looks > 0
      <3>1. t = u
        BY <2>1, <2>5 DEF futex_timeout
      <3> QED BY <2>1, <2>5, <3>1 DEF futex_timeout
    <2>6. ASSUME NEW t \in FutexThreads, futex_wait(t) PROVE FALSE
      BY <2>1, <2>6 DEF futex_wait
    <2>7. ASSUME NEW t \in FutexThreads, store(t) \/ kill(t) PROVE FALSE
      BY <2>1, <2>7 DEF store, kill
    <2>8. ASSUME NEW t \in FutexThreads, futex_wake(t) PROVE FALSE
      <3>1. PICK b : fcall'[u] = [fcall[u] EXCEPT !.told = b]
        BY <2>8 DEF futex_wake
      <3>2. fcall'[u].at = fcall[u].at
        BY <2>1, <3>1
      <3> QED BY <3>2
    <2> QED BY <2>4, <2>5, <2>6, <2>7, <2>8 DEF FutexNext
  <1> QED BY <1>1, FutexStart, FutexStep, PTL DEF FutexSpec, WakeIsSeen
=============================================================================
