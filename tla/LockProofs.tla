----------------------------- MODULE LockProofs -----------------------------
(***************************************************************************)
(* The ticket lock of locks.rs, and the mutexes and condition variables of *)
(* pthread.rs.                                                             *)
(*                                                                         *)
(* The ticket lock is mutually exclusive for any finite set of threads and *)
(* any word width with more values than there are threads.  The inductive  *)
(* invariant is Window: the outstanding tickets are distinct and fill the  *)
(* gap between now_serving and next_ticket, counted across the wrap.       *)
(* It implements a first-in first-out line: by the pigeonhole principle    *)
(* each place of the window belongs to one thread, so that the line is     *)
(* well defined, a ticket is a place at its end, and an unlock moves       *)
(* everybody up by one.                                                    *)
(*                                                                         *)
(* For any number of threads, mutexes and condvars, a mutex is held by its *)
(* owner and no one else, `waiters` counts the threads in the loop of      *)
(* mutex_lock, and a signal is seen by every thread that was waiting.      *)
(* OwnerHolds and WaitersCounted are about mutexes that exist, and one     *)
(* that is destroyed leaves holders and waiters behind; what makes them    *)
(* inductive is that an id is never used twice, so that nobody holds or    *)
(* waits for a mutex that is about to be created (Fresh).  NoLostSignal    *)
(* follows from the order of the count a waiter noted and the condvar's.   *)
(***************************************************************************)
EXTENDS TicketLock, Pthread, FiniteSetTheorems, SequenceTheorems, TLAPS

-----------------------------------------------------------------------------
\* Mutexes and condition variables

CallRec == [at : {"user", "lock", "wait", "relock"}, m : Nat, c : Nat, seen : Nat,
            polls : Int, told : BOOLEAN]

PTypes ==
    /\ NEXT_MUTEX_ID \in 1 .. MaxMutexId + 1
    /\ MUTEXES \subseteq 1 .. NEXT_MUTEX_ID - 1
    /\ owner_tid \in [MutexIds -> Threads \cup {NoThread}]
    /\ m_waiters \in [MutexIds -> Int]
    /\ NEXT_CONDVAR_ID \in 1 .. MaxCondvarId + 1
    /\ CONDVARS \subseteq CondvarIds
    /\ signal_count \in [CondvarIds -> Nat]
    /\ c_waiters \in [CondvarIds -> Int]
    /\ call \in [Threads -> CallRec]
    /\ holds \in [Threads -> SUBSET (1 .. NEXT_MUTEX_ID - 1)]

\* No thread knows an id that was not given out, and its slot is as Init left it.
Fresh ==
    /\ \A t \in Threads : call[t].m < NEXT_MUTEX_ID /\ (call[t].at # "user" => call[t].m > 0)
    /\ \A m \in MutexIds : m >= NEXT_MUTEX_ID => owner_tid[m] = NoThread /\ m_waiters[m] = 0

Looping(m) == {t \in Threads : call[t].at \in {"lock", "relock"} /\ call[t].m = m}

Counted == \A m \in MUTEXES : m_waiters[m] = Cardinality(Looping(m))

\* The count that a waiting thread noted is not ahead of the condvar's, and
\* behind it once the thread was signalled.
Behind ==
    \A t \in Threads : call[t].at = "wait" =>
        /\ call[t].c \in CondvarIds
        /\ call[t].seen <= signal_count[call[t].c]
        /\ call[t].told => call[t].seen < signal_count[call[t].c]

PInv == PTypes /\ Fresh /\ OwnerHolds /\ Counted /\ Behind

\* One thread more or less in a loop.
LEMMA LoopingFinite ==
    ASSUME NEW m
    PROVE  /\ IsFiniteSet(Looping(m)) /\ Cardinality(Looping(m)) \in Nat
           /\ \A t : t \in Looping(m) => Cardinality(Looping(m) \ {t}) = Cardinality(Looping(m)) - 1
           /\ \A t : t \notin Looping(m) =>
                        Cardinality(Looping(m) \cup {t}) = Cardinality(Looping(m)) + 1
  <1>1. IsFiniteSet(Looping(m))
    BY ThreadsFinite, FS_Subset DEF Looping
  <1> QED BY <1>1, FS_CardinalityType, FS_AddElement, FS_RemoveElement

\* A pass of the loop of mutex_lock, from whichever call it is made.
LEMMA GrabKeeps ==
    ASSUME PInv, NEW t \in Threads, NEW m \in 1 .. NEXT_MUTEX_ID - 1,
           NEW counted \in {0, 1}, NEW later \in {"lock", "relock"},
           counted = 1 => call[t].at \in {"lock", "relock"} /\ call[t].m = m,
           counted = 0 => call[t].at \notin {"lock", "relock"},
           Grab(t, m, counted, later),
           UNCHANGED <<MUTEXES, NEXT_MUTEX_ID, CONDVARS, NEXT_CONDVAR_ID, signal_count>>,
           c_waiters' \in [CondvarIds -> Int]
    PROVE  PInv'
  <1> USE DEF PInv
  <1>1. m \in MutexIds /\ m \in Nat /\ m < NEXT_MUTEX_ID /\ NEXT_MUTEX_ID \in Nat
    BY LimitsAssumption DEF PTypes, MutexIds
  <1>2. PICK c \in CallRec :
          /\ call' = [call EXCEPT ![t] = c]
          /\ \/ c.at = "user" /\ c.m = 0
             \/ c.at = later /\ c.m = m
    <2>1. Idle \in CallRec /\ Idle.at = "user" /\ Idle.m = 0
      BY DEF Idle, CallRec
    <2> DEFINE loop == [Idle EXCEPT !.at = later, !.m = m]
    <2>2. loop \in CallRec /\ loop.at = later /\ loop.m = m
      BY <1>1, <2>1, Zenon DEF CallRec
    <2>3. call' = [call EXCEPT ![t] = Idle] \/ call' = [call EXCEPT ![t] = loop]
      BY DEF Grab
    <2> HIDE DEF loop
    <2> QED BY <2>1, <2>2, <2>3
  <1>3. /\ call' \in [Threads -> CallRec] /\ call'[t] = c
        /\ \A u \in Threads \ {t} : call'[u] = call[u]
    BY <1>2 DEF PTypes
  <1>4. c.at \in {"user", "lock", "relock"} /\ c.m \in {0, m} /\ (c.at # "user" => c.m = m)
    BY <1>2
  <1>5. Behind'
    BY <1>3, <1>4 DEF Behind
  <1>6. \A u \in Threads :
          call'[u].m < NEXT_MUTEX_ID' /\ (call'[u].at # "user" => call'[u].m > 0)
    BY <1>1, <1>3, <1>4 DEF Fresh
  <1>7. \A k : k # m => Looping(k)' = Looping(k)
    <2> SUFFICES ASSUME NEW k, k # m PROVE Looping(k)' = Looping(k)
      OBVIOUS
    <2>1. t \notin Looping(k)
      BY DEF Looping
    <2>2. t \notin Looping(k)'
      BY <1>2, <1>3 DEF Looping
    <2> QED BY <1>3, <2>1, <2>2 DEF Looping
  <1>8. CASE m \notin MUTEXES /\ UNCHANGED <<owner_tid, m_waiters, holds>>
    <2>1. PTypes' /\ Fresh'
      BY <1>3, <1>6, <1>8 DEF PTypes, Fresh
    <2>2. OwnerHolds'
      BY <1>8 DEF OwnerHolds
    <2>3. Counted'
      BY <1>7, <1>8 DEF Counted
    <2> QED BY <1>5, <2>1, <2>2, <2>3
  <1>9. CASE /\ m \in MUTEXES
             /\ owner_tid[m] = NoThread
             /\ owner_tid' = [owner_tid EXCEPT ![m] = t]
             /\ m_waiters' = [m_waiters EXCEPT ![m] = @ - counted]
             /\ holds' = [holds EXCEPT ![t] = @ \cup {m}]
             /\ call' = [call EXCEPT ![t] = Idle]
    <2>1. PTypes'
      BY <1>1, <1>3, <1>9 DEF PTypes
    <2>2. Fresh'
      BY <1>1, <1>6, <1>9 DEF Fresh, PTypes
    <2>3. OwnerHolds'
      BY <1>1, <1>9, ThreadsFinite DEF OwnerHolds, PTypes
    <2>4. Looping(m)' = Looping(m) \ {t}
      <3>1. call'[t].at = "user"
        BY <1>9 DEF PTypes, Idle
      <3> QED BY <1>3, <3>1 DEF Looping
    <2>5. m_waiters[m] = Cardinality(Looping(m)) /\ m_waiters'[m] = m_waiters[m] - counted
      BY <1>1, <1>9 DEF Counted, PTypes
    <2>6. m_waiters'[m] = Cardinality(Looping(m)')
      <3>1. CASE counted = 1
        <4>1. t \in Looping(m)
          BY <3>1 DEF Looping
        <4> QED BY <3>1, <4>1, <2>4, <2>5, LoopingFinite
      <3>2. CASE counted = 0
        <4>1. Looping(m) \ {t} = Looping(m)
          BY <3>2 DEF Looping
        <4>2. Cardinality(Looping(m)) \in Nat /\ Cardinality(Looping(m)') = Cardinality(Looping(m))
          BY <4>1, <2>4, LoopingFinite, Zenon
        <4> QED BY <3>2, <4>2, <2>5
      <3> QED BY <3>1, <3>2
    <2>7. Counted'
      BY <1>1, <1>7, <1>9, <2>6 DEF Counted, PTypes
    <2> QED BY <1>5, <2>1, <2>2, <2>3, <2>7
  <1>10. CASE /\ m \in MUTEXES
              /\ m_waiters' = [m_waiters EXCEPT ![m] = @ + 1 - counted]
              /\ call' = [call EXCEPT ![t] = [Idle EXCEPT !.at = later, !.m = m]]
              /\ UNCHANGED <<owner_tid, holds>>
    <2>1. PTypes'
      BY <1>1, <1>3, <1>10 DEF PTypes
    <2>2. Fresh'
      BY <1>1, <1>6, <1>10 DEF Fresh, PTypes
    <2>3. OwnerHolds'
      BY <1>10 DEF OwnerHolds
    <2>4. Looping(m)' = Looping(m) \cup {t}
      <3>1. call'[t] = [Idle EXCEPT !.at = later, !.m = m]
        BY <1>10 DEF PTypes
      <3>2. call'[t].at = later /\ call'[t].m = m
        BY <3>1 DEF Idle
      <3> QED BY <1>3, <3>2 DEF Looping
    <2>5. m_waiters[m] = Cardinality(Looping(m)) /\ m_waiters'[m] = m_waiters[m] + 1 - counted
      BY <1>1, <1>10 DEF Counted, PTypes
    <2>6. m_waiters'[m] = Cardinality(Looping(m)')
      <3>1. CASE counted = 1
        <4>1. Looping(m) \cup {t} = Looping(m)
          BY <3>1 DEF Looping
        <4>2. Cardinality(Looping(m)) \in Nat /\ Cardinality(Looping(m)') = Cardinality(Looping(m))
          BY <4>1, <2>4, LoopingFinite, Zenon
        <4> QED BY <3>1, <4>2, <2>5
      <3>2. CASE counted = 0
        <4>1. t \notin Looping(m)
          BY <3>2 DEF Looping
        <4> QED BY <3>2, <4>1, <2>4, <2>5, LoopingFinite
      <3> QED BY <3>1, <3>2
    <2>7. Counted'
      BY <1>1, <1>7, <1>10, <2>6 DEF Counted, PTypes
    <2> QED BY <1>5, <2>1, <2>2, <2>3, <2>7
  <1> QED BY <1>8, <1>9, <1>10 DEF Grab

-----------------------------------------------------------------------------
\* A step that leaves the mutexes, and the mutex that each thread loops for.
LEMMA MutexesKept ==
    ASSUME PTypes, Counted, OwnerHolds, Fresh, UNCHANGED mutexVars, UNCHANGED holds,
           \A u \in Threads : call'[u].at = call[u].at /\ call'[u].m = call[u].m
    PROVE  Counted' /\ OwnerHolds' /\ Fresh'
  <1> USE DEF mutexVars
  <1>1. \A m : Looping(m)' = Looping(m)
    BY DEF Looping
  <1>2. Counted'
    BY <1>1 DEF Counted
  <1>3. OwnerHolds' /\ Fresh'
    BY DEF OwnerHolds, Fresh
  <1> QED BY <1>2, <1>3

\* mutex_create gives out an id that nobody holds or waits for yet.
LEMMA CreateMutexKeeps == ASSUME PInv, NEW t \in Threads, mutex_create(t) PROVE PInv'
  <1> USE DEF PInv, condVars
  <1>1. /\ NEXT_MUTEX_ID <= MaxMutexId /\ NEXT_MUTEX_ID' = NEXT_MUTEX_ID + 1
        /\ MUTEXES' = MUTEXES \cup {NEXT_MUTEX_ID} \/ MUTEXES' = MUTEXES
        /\ UNCHANGED <<owner_tid, m_waiters, condVars, call, holds>>
    BY DEF mutex_create
  <1>2. /\ NEXT_MUTEX_ID \in Nat /\ NEXT_MUTEX_ID \in MutexIds /\ MaxMutexId \in Nat
        /\ NEXT_MUTEX_ID' \in 1 .. MaxMutexId + 1
    BY <1>1, LimitsAssumption DEF PTypes, MutexIds
  <1>3. PTypes'
    <2>1. /\ 1 .. NEXT_MUTEX_ID - 1 \subseteq 1 .. NEXT_MUTEX_ID' - 1
          /\ NEXT_MUTEX_ID \in 1 .. NEXT_MUTEX_ID' - 1
      BY <1>1, <1>2 DEF MutexIds
    <2>2. MUTEXES' \subseteq 1 .. NEXT_MUTEX_ID' - 1
      BY <1>1, <2>1, Zenon DEF PTypes
    <2>3. holds' \in [Threads -> SUBSET (1 .. NEXT_MUTEX_ID' - 1)]
      BY <1>1, <2>1 DEF PTypes
    <2> QED BY <1>1, <1>2, <2>2, <2>3 DEF PTypes
  <1>4. Fresh'
    <2>1. \A u \in Threads : call[u].m \in Nat
      BY DEF PTypes, CallRec
    <2> QED BY <1>1, <1>2, <2>1 DEF Fresh, MutexIds
  <1>5. OwnerHolds'
    <2>1. \A u \in Threads : NEXT_MUTEX_ID \notin holds[u]
      BY <1>2 DEF PTypes
    <2>2. owner_tid[NEXT_MUTEX_ID] = NoThread
      BY <1>2 DEF Fresh
    <2> QED BY <1>1, <2>1, <2>2, ThreadsFinite DEF OwnerHolds
  <1>6. Counted'
    <2>1. \A m : Looping(m)' = Looping(m)
      BY <1>1 DEF Looping
    <2>2. Looping(NEXT_MUTEX_ID) = {}
      <3>1. \A u \in Threads : call[u].m \in Nat
        BY DEF PTypes, CallRec
      <3>2. \A u \in Threads : call[u].m # NEXT_MUTEX_ID
        BY <1>2, <3>1 DEF Fresh
      <3> QED BY <3>2 DEF Looping
    <2>3. m_waiters[NEXT_MUTEX_ID] = 0
      BY <1>2 DEF Fresh
    <2> QED BY <1>1, <2>1, <2>2, <2>3, FS_EmptySet DEF Counted
  <1>7. Behind'
    BY <1>1 DEF Behind
  <1> QED BY <1>3, <1>4, <1>5, <1>6, <1>7

\* mutex_destroy takes one mutex out of the table, held or not.
LEMMA DestroyMutexKeeps == ASSUME PInv, NEW t \in Threads, mutex_destroy(t) PROVE PInv'
  <1> USE DEF PInv, condVars
  <1>1. /\ MUTEXES' \subseteq MUTEXES
        /\ UNCHANGED <<NEXT_MUTEX_ID, owner_tid, m_waiters, condVars, call, holds>>
    BY DEF mutex_destroy
  <1>2. \A m : Looping(m)' = Looping(m)
    BY <1>1 DEF Looping
  <1>3. PTypes' /\ Fresh' /\ OwnerHolds' /\ Behind'
    BY <1>1 DEF PTypes, Fresh, OwnerHolds, Behind
  <1>4. Counted'
    BY <1>1, <1>2 DEF Counted
  <1> QED BY <1>3, <1>4

\* What mutex_unlock and condvar_wait do to a mutex that the caller holds.
LEMMA ReleaseKeeps ==
    ASSUME PTypes, Fresh, OwnerHolds, NEW t \in Threads, NEW m \in holds[t],
           owner_tid' = Released(m), holds' = [holds EXCEPT ![t] = @ \ {m}],
           UNCHANGED <<MUTEXES, NEXT_MUTEX_ID>>
    PROVE  /\ owner_tid' \in [MutexIds -> Threads \cup {NoThread}]
           /\ holds' \in [Threads -> SUBSET (1 .. NEXT_MUTEX_ID - 1)]
           /\ OwnerHolds'
           /\ \A k \in MutexIds : k >= NEXT_MUTEX_ID => owner_tid'[k] = NoThread
  <1>1. m \in MutexIds /\ m \in 1 .. NEXT_MUTEX_ID - 1
    BY LimitsAssumption DEF PTypes, MutexIds
  <1>2. owner_tid' \in [MutexIds -> Threads \cup {NoThread}]
    BY <1>1 DEF PTypes, Released
  <1>3. holds' \in [Threads -> SUBSET (1 .. NEXT_MUTEX_ID - 1)]
    BY DEF PTypes
  <1>4. \A k \in MutexIds : k >= NEXT_MUTEX_ID => owner_tid'[k] = NoThread
    BY <1>1 DEF PTypes, Released, Fresh
  <1>5. OwnerHolds'
    <2> SUFFICES ASSUME NEW k \in MUTEXES, NEW u \in Threads
                 PROVE  k \in holds'[u] <=> owner_tid'[k] = u
      BY DEF OwnerHolds
    <2>1. k \in MutexIds /\ (k \in holds[u] <=> owner_tid[k] = u)
      BY LimitsAssumption DEF OwnerHolds, PTypes, MutexIds
    <2>2. CASE k = m
      <3>1. owner_tid[m] = t /\ owner_tid'[m] = NoThread
        BY <2>1, <2>2 DEF OwnerHolds, Released, PTypes
      <3>2. u # t => m \notin holds[u]
        BY <2>1, <2>2, <3>1
      <3> QED BY <2>2, <3>1, <3>2, ThreadsFinite DEF PTypes
    <2>3. CASE k # m
      <3>1. owner_tid'[k] = owner_tid[k]
        BY <1>1, <2>1, <2>3 DEF Released, PTypes
      <3>2. k \in holds'[u] <=> k \in holds[u]
        BY <2>3 DEF PTypes
      <3> QED BY <2>1, <3>1, <3>2
    <2> QED BY <2>2, <2>3
  <1> QED BY <1>2, <1>3, <1>4, <1>5

\* mutex_unlock gives up a lock its caller owns.
LEMMA UnlockKeeps == ASSUME PInv, NEW t \in Threads, mutex_unlock(t) PROVE PInv'
  <1> USE DEF PInv, condVars
  <1>1. PICK m \in holds[t] :
          owner_tid' = Released(m) /\ holds' = [holds EXCEPT ![t] = @ \ {m}]
    BY Zenon DEF mutex_unlock
  <1>2. UNCHANGED <<MUTEXES, NEXT_MUTEX_ID, m_waiters, condVars, call>>
    BY DEF mutex_unlock
  <1>3. /\ owner_tid' \in [MutexIds -> Threads \cup {NoThread}]
        /\ holds' \in [Threads -> SUBSET (1 .. NEXT_MUTEX_ID - 1)]
        /\ OwnerHolds'
        /\ \A k \in MutexIds : k >= NEXT_MUTEX_ID => owner_tid'[k] = NoThread
    BY <1>1, <1>2, ReleaseKeeps, Zenon
  <1>4. PTypes' /\ Fresh'
    BY <1>2, <1>3 DEF PTypes, Fresh
  <1>5. \A k : Looping(k)' = Looping(k)
    BY <1>2 DEF Looping
  <1>6. Counted' /\ Behind'
    BY <1>2, <1>5 DEF Counted, Behind
  <1> QED BY <1>3, <1>4, <1>6

\* condvar_wait notes the signals so far and unlocks in one step.
LEMMA WaitKeeps == ASSUME PInv, NEW t \in Threads, condvar_wait(t) PROVE PInv'
  <1> USE DEF PInv
  <1>1. PICK c \in CONDVARS, m \in holds[t] :
          /\ c_waiters' = [c_waiters EXCEPT ![c] = @ + 1]
          /\ owner_tid' = Released(m)
          /\ holds' = [holds EXCEPT ![t] = @ \ {m}]
          /\ call' = [call EXCEPT ![t] =
                        [at |-> "wait", m |-> m, c |-> c, seen |-> signal_count[c],
                         polls |-> MaxPolls, told |-> FALSE]]
    BY Zenon DEF condvar_wait
  <1>2. /\ call[t].at = "user"
        /\ UNCHANGED <<MUTEXES, NEXT_MUTEX_ID, m_waiters, CONDVARS, NEXT_CONDVAR_ID, signal_count>>
    BY DEF condvar_wait, InUser
  <1>3. /\ owner_tid' \in [MutexIds -> Threads \cup {NoThread}]
        /\ holds' \in [Threads -> SUBSET (1 .. NEXT_MUTEX_ID - 1)]
        /\ OwnerHolds'
        /\ \A k \in MutexIds : k >= NEXT_MUTEX_ID => owner_tid'[k] = NoThread
    BY <1>1, <1>2, ReleaseKeeps, Zenon
  <1>4. /\ m \in 1 .. NEXT_MUTEX_ID - 1 /\ NEXT_MUTEX_ID \in Nat
        /\ c \in CondvarIds /\ c \in Nat /\ signal_count[c] \in Nat /\ MaxPolls \in Int
    BY LimitsAssumption DEF PTypes, CondvarIds
  <1> DEFINE w == [at |-> "wait", m |-> m, c |-> c, seen |-> signal_count[c],
                   polls |-> MaxPolls, told |-> FALSE]
  <1>5. w \in CallRec
    <2>1. m \in Nat
      BY <1>4
    <2> QED BY <1>4, <2>1, Zenon DEF CallRec
  <1>6. /\ w.at = "wait" /\ w.m = m /\ w.c = c /\ w.seen = signal_count[c] /\ w.told = FALSE
        /\ call' = [call EXCEPT ![t] = w]
    BY <1>1
  <1> HIDE DEF w
  <1>7. /\ call' \in [Threads -> CallRec] /\ call'[t] = w
        /\ \A u \in Threads \ {t} : call'[u] = call[u]
    BY <1>5, <1>6 DEF PTypes
  <1>8. PTypes'
    <2>1. c_waiters' \in [CondvarIds -> Int]
      BY <1>1, <1>4 DEF PTypes
    <2> QED BY <1>2, <1>3, <1>7, <2>1 DEF PTypes
  <1>9. Fresh'
    BY <1>2, <1>3, <1>4, <1>6, <1>7 DEF Fresh
  <1>10. \A k : Looping(k)' = Looping(k)
    BY <1>2, <1>6, <1>7 DEF Looping
  <1>11. Counted'
    BY <1>2, <1>10 DEF Counted
  <1>12. Behind'
    BY <1>2, <1>4, <1>6, <1>7 DEF Behind
  <1> QED BY <1>3, <1>8, <1>9, <1>11, <1>12

\* mutex_lock takes a free mutex or joins the waiters; the loop leaves them.
LEMMA LockKeeps ==
    ASSUME PInv, NEW t \in Threads, mutex_lock(t) \/ mutex_lock_loop(t)
    PROVE  PInv'
  <1>1. CASE mutex_lock(t)
    <2>1. PICK m \in (1 .. NEXT_MUTEX_ID - 1) \ holds[t] : Grab(t, m, 0, "lock")
      BY <1>1 DEF mutex_lock
    <2>2. call[t].at = "user" /\ UNCHANGED <<MUTEXES, NEXT_MUTEX_ID, condVars>>
      BY <1>1 DEF mutex_lock, InUser
    <2>3. c_waiters' \in [CondvarIds -> Int]
      BY <2>2 DEF condVars, PInv, PTypes
    <2> QED BY <2>1, <2>2, <2>3, GrabKeeps DEF condVars
  <1>2. CASE mutex_lock_loop(t)
    <2>1. /\ call[t].at \in {"lock", "relock"} /\ Grab(t, call[t].m, 1, call[t].at)
          /\ UNCHANGED <<MUTEXES, NEXT_MUTEX_ID, condVars>>
      BY <1>2 DEF mutex_lock_loop
    <2>2. PICK m \in 1 .. NEXT_MUTEX_ID - 1, later \in {"lock", "relock"} :
            m = call[t].m /\ later = call[t].at
      BY <2>1 DEF PInv, PTypes, CallRec, Fresh
    <2>3. Grab(t, m, 1, later)
      BY <2>1, <2>2
    <2>4. c_waiters' \in [CondvarIds -> Int]
      BY <2>1 DEF condVars, PInv, PTypes
    <2> QED BY <2>1, <2>2, <2>3, <2>4, GrabKeeps DEF condVars
  <1> QED BY <1>1, <1>2

\* A wait ends by a signal or a timeout, and goes on to relock its mutex.
LEMMA PollKeeps ==
    ASSUME PInv, NEW t \in Threads, condvar_poll(t) \/ condvar_timeout(t)
    PROVE  PInv'
  <1> USE DEF PInv
  <1>1. call[t].at = "wait" /\ UNCHANGED <<MUTEXES, NEXT_MUTEX_ID, CONDVARS, NEXT_CONDVAR_ID,
                                           signal_count>>
    BY DEF condvar_poll, condvar_timeout, condVars
  <1>2. PICK m \in 1 .. NEXT_MUTEX_ID - 1 : m = call[t].m
    BY <1>1 DEF PTypes, CallRec, Fresh
  <1>3. call[t].c \in CondvarIds /\ call[t] \in CallRec
    BY <1>1 DEF Behind, PTypes
  <1>4. CASE /\ Grab(t, call[t].m, 0, "relock")
             /\ \/ c_waiters' = [c_waiters EXCEPT ![call[t].c] = @ - 1]
                \/ UNCHANGED c_waiters
    <2>1. Grab(t, m, 0, "relock")
      BY <1>2, <1>4
    <2>2. c_waiters' \in [CondvarIds -> Int]
      BY <1>3, <1>4 DEF PTypes
    <2> QED BY <1>1, <2>1, <2>2, GrabKeeps
  <1>5. CASE /\ call' = [call EXCEPT ![t].polls = @ - 1]
             /\ UNCHANGED <<c_waiters, owner_tid, m_waiters, holds>>
    <2>1. PICK w \in CallRec :
            /\ call' = [call EXCEPT ![t] = w]
            /\ w.at = "wait" /\ w.m = call[t].m /\ w.c = call[t].c /\ w.seen = call[t].seen
            /\ w.told = call[t].told
      <3> DEFINE w == [call[t] EXCEPT !.polls = @ - 1]
      <3>1. w \in CallRec
        BY <1>3 DEF CallRec
      <3>2. /\ call' = [call EXCEPT ![t] = w]
            /\ w.at = "wait" /\ w.m = call[t].m /\ w.c = call[t].c /\ w.seen = call[t].seen
            /\ w.told = call[t].told
        BY <1>1, <1>3, <1>5 DEF CallRec
      <3> HIDE DEF w
      <3> QED BY <3>1, <3>2, Zenon
    <2>2. /\ call' \in [Threads -> CallRec] /\ call'[t] = w
          /\ \A u \in Threads \ {t} : call'[u] = call[u]
      BY <2>1 DEF PTypes
    <2>3. PTypes'
      BY <1>1, <1>5, <2>2 DEF PTypes
    <2>4. Counted' /\ OwnerHolds' /\ Fresh'
      BY <1>1, <1>5, <2>1, <2>2, MutexesKept DEF mutexVars
    <2>5. Behind'
      BY <1>1, <2>1, <2>2 DEF Behind
    <2> QED BY <2>3, <2>4, <2>5
  <1> QED BY <1>4, <1>5 DEF condvar_poll, condvar_timeout, condVars

\* A signal, or a broadcast, adds to the count and reaches every waiter.
LEMMA TellKeeps ==
    ASSUME PInv, NEW c \in CONDVARS, NEW n \in Nat, n > 0,
           signal_count' = [signal_count EXCEPT ![c] = @ + n], Tell(c),
           UNCHANGED <<mutexVars, CONDVARS, NEXT_CONDVAR_ID, c_waiters, holds>>
    PROVE  PInv'
  <1> USE DEF PInv
  <1>1. /\ c \in CondvarIds /\ signal_count' \in [CondvarIds -> Nat]
        /\ \A d \in CondvarIds : signal_count'[d] >= signal_count[d]
        /\ signal_count'[c] > signal_count[c]
    BY DEF PTypes
  <1>2. call' \in [Threads -> CallRec]
    <2>1. \A u \in Threads : [call[u] EXCEPT !.told = TRUE] \in CallRec /\ call[u] \in CallRec
      BY Zenon DEF PTypes, CallRec
    <2> QED BY <2>1 DEF Tell
  <1>3. \A u \in Threads :
          /\ call'[u].at = call[u].at /\ call'[u].m = call[u].m /\ call'[u].c = call[u].c
          /\ call'[u].seen = call[u].seen
          /\ call'[u].told => call[u].told \/ u \in WaitingOn(c)
    <2> SUFFICES ASSUME NEW u \in Threads
                 PROVE  /\ call'[u].at = call[u].at /\ call'[u].m = call[u].m
                        /\ call'[u].c = call[u].c /\ call'[u].seen = call[u].seen
                        /\ call'[u].told => call[u].told \/ u \in WaitingOn(c)
      OBVIOUS
    <2>1. call'[u] = (IF u \in WaitingOn(c) THEN [call[u] EXCEPT !.told = TRUE] ELSE call[u])
      BY DEF Tell
    <2>2. call[u] \in CallRec
      BY DEF PTypes
    <2> QED BY <2>1, <2>2 DEF CallRec
  <1>4. PTypes'
    BY <1>1, <1>2 DEF PTypes, mutexVars
  <1>5. Counted' /\ OwnerHolds' /\ Fresh'
    BY <1>3, MutexesKept
  <1>6. Behind'
    <2> SUFFICES ASSUME NEW u \in Threads, call'[u].at = "wait"
                 PROVE  /\ call'[u].c \in CondvarIds
                        /\ call'[u].seen <= signal_count'[call'[u].c]
                        /\ call'[u].told => call'[u].seen < signal_count'[call'[u].c]
      BY DEF Behind
    <2>1. /\ call[u].c \in CondvarIds /\ call[u].seen <= signal_count[call[u].c]
          /\ call[u].told => call[u].seen < signal_count[call[u].c]
      BY <1>3 DEF Behind
    <2>2. call[u].seen \in Nat /\ \A d \in CondvarIds : signal_count[d] \in Nat
                                                        /\ signal_count'[d] \in Nat
      BY <1>1 DEF PTypes, CallRec
    <2>3. u \in WaitingOn(c) => call[u].c = c
      BY DEF WaitingOn
    <2>4. call'[u].c = call[u].c /\ call'[u].seen = call[u].seen
      BY <1>3
    <2>5. signal_count'[call[u].c] >= signal_count[call[u].c]
      BY <1>1, <2>1
    <2>6. call'[u].told => call[u].seen < signal_count'[call[u].c]
      <3>1. CASE call[u].told
        BY <3>1, <2>1, <2>2, <2>5
      <3>2. CASE u \in WaitingOn(c)
        BY <3>2, <1>1, <2>1, <2>2, <2>3
      <3>3. call'[u].told => call[u].told \/ u \in WaitingOn(c)
        BY <1>3
      <3> QED BY <3>1, <3>2, <3>3, Zenon
    <2> QED BY <2>1, <2>2, <2>4, <2>5, <2>6
  <1> QED BY <1>4, <1>5, <1>6

\* A signal raises the count of its condvar past what every waiter noted.
LEMMA SignalKeeps ==
    ASSUME PInv, NEW t \in Threads, condvar_signal(t) \/ condvar_broadcast(t)
    PROVE  PInv'
  <1>1. CASE condvar_signal(t)
    <2>1. PICK c \in CONDVARS :
            signal_count' = [signal_count EXCEPT ![c] = @ + 1] /\ Tell(c)
      BY <1>1, Zenon DEF condvar_signal
    <2>2. UNCHANGED <<mutexVars, CONDVARS, NEXT_CONDVAR_ID, c_waiters, holds>>
      BY <1>1 DEF condvar_signal
    <2>3. 1 \in Nat /\ 1 > 0
      OBVIOUS
    <2> QED BY <2>1, <2>2, <2>3, TellKeeps, Zenon
  <1>2. CASE condvar_broadcast(t)
    <2>1. PICK c \in CONDVARS :
            LET n == IF c_waiters[c] > 1 THEN c_waiters[c] ELSE 1 IN
            signal_count' = [signal_count EXCEPT ![c] = @ + n] /\ Tell(c)
      BY <1>2, Zenon DEF condvar_broadcast
    <2>2. c_waiters[c] \in Int
      BY DEF PInv, PTypes
    <2> DEFINE k == IF c_waiters[c] > 1 THEN c_waiters[c] ELSE 1
    <2>3. k \in Nat /\ k > 0
      BY <2>2
    <2>4. signal_count' = [signal_count EXCEPT ![c] = @ + k] /\ Tell(c)
      BY <2>1
    <2> HIDE DEF k
    <2>5. PICK n \in Nat : n > 0 /\ signal_count' = [signal_count EXCEPT ![c] = @ + n]
      BY <2>3, <2>4, Zenon
    <2>6. UNCHANGED <<mutexVars, CONDVARS, NEXT_CONDVAR_ID, c_waiters, holds>>
      BY <1>2 DEF condvar_broadcast
    <2> QED BY <2>4, <2>5, <2>6, TellKeeps, Zenon
  <1> QED BY <1>1, <1>2

\* Condvars come with fresh ids and a count of zero, and may go while waited for.
LEMMA CondvarsKeep ==
    ASSUME PInv, NEW t \in Threads, condvar_create(t) \/ condvar_destroy(t)
    PROVE  PInv'
  <1> USE DEF PInv
  <1>1. /\ UNCHANGED <<mutexVars, signal_count, c_waiters, call, holds>>
        /\ NEXT_CONDVAR_ID' \in 1 .. MaxCondvarId + 1 /\ CONDVARS' \subseteq CondvarIds
    <2>1. CASE condvar_create(t)
      <3>1. NEXT_CONDVAR_ID <= MaxCondvarId /\ NEXT_CONDVAR_ID' = NEXT_CONDVAR_ID + 1
            /\ CONDVARS' \subseteq CONDVARS \cup {NEXT_CONDVAR_ID}
            /\ UNCHANGED <<mutexVars, signal_count, c_waiters, call, holds>>
        BY <2>1 DEF condvar_create
      <3>2. NEXT_CONDVAR_ID \in CondvarIds /\ NEXT_CONDVAR_ID' \in 1 .. MaxCondvarId + 1
        BY <3>1, LimitsAssumption DEF PTypes, CondvarIds
      <3> QED BY <3>1, <3>2 DEF PTypes
    <2>2. CASE condvar_destroy(t)
      BY <2>2 DEF condvar_destroy, PTypes
    <2> QED BY <2>1, <2>2
  <1>2. PTypes' /\ Behind'
    BY <1>1 DEF PTypes, Behind, mutexVars
  <1>3. Counted' /\ OwnerHolds' /\ Fresh'
    BY <1>1, MutexesKept
  <1> QED BY <1>2, <1>3

-----------------------------------------------------------------------------
\* The inductive invariant holds in every reachable state.
THEOREM PthreadInvariant == Spec => []PInv
  <1>1. Init => PInv
    <2> SUFFICES ASSUME Init PROVE PInv
      OBVIOUS
    <2>1. PTypes
      <3>1. Idle \in CallRec
        BY DEF Idle, CallRec
      <3>2. MaxMutexId \in Nat /\ MaxCondvarId \in Nat
        BY LimitsAssumption
      <3> QED BY <3>1, <3>2 DEF Init, PTypes
    <2>2. Fresh /\ OwnerHolds /\ Counted /\ Behind
      BY DEF Init, Fresh, OwnerHolds, Counted, Behind, Idle
    <2> QED BY <2>1, <2>2 DEF PInv
  <1>2. PInv /\ UNCHANGED vars => PInv'
    <2> SUFFICES ASSUME PInv, UNCHANGED vars PROVE PInv'
      OBVIOUS
    <2>1. PTypes' /\ Behind'
      BY DEF vars, PInv, PTypes, Behind
    <2>2. Counted' /\ OwnerHolds' /\ Fresh'
      BY MutexesKept DEF vars, mutexVars, PInv
    <2> QED BY <2>1, <2>2 DEF PInv
  <1>3. PInv /\ [Next]_vars => PInv'
    BY <1>2, CreateMutexKeeps, DestroyMutexKeeps, UnlockKeeps, LockKeeps, WaitKeeps, PollKeeps,
       SignalKeeps, CondvarsKeep
    DEF Next
  <1> QED BY <1>1, <1>3, PTL DEF Spec

\* pthread.rs: exactly the thread recorded as owner was told it holds a mutex.
THEOREM OwnersHold == Spec => []OwnerHolds
  <1>1. PInv => OwnerHolds
    BY DEF PInv
  <1> QED BY <1>1, PthreadInvariant, PTL

\* pthread.rs: `waiters` counts the threads in the loop of mutex_lock.
THEOREM WaitersAreCounted == Spec => []WaitersCounted
  <1>1. PInv => WaitersCounted
    BY DEF PInv, Counted, Looping, WaitersCounted
  <1> QED BY <1>1, PthreadInvariant, PTL

\* pthread.rs: a signal or broadcast is seen by every thread that was waiting.
THEOREM SignalsAreSeen == Spec => []NoLostSignal
  <1>1. PInv => NoLostSignal
    <2> SUFFICES ASSUME PInv, NEW t \in Threads, call[t].at = "wait", call[t].told,
                        call[t].c \in CONDVARS
                 PROVE  Signalled(t)
      BY DEF NoLostSignal
    <2>1. /\ call[t].c \in CondvarIds /\ call[t].seen \in Nat
          /\ call[t].seen < signal_count[call[t].c] /\ signal_count[call[t].c] \in Nat
      BY DEF PInv, Behind, PTypes, CallRec
    <2> QED BY <2>1 DEF Signalled
  <1> QED BY <1>1, PthreadInvariant, PTL

-----------------------------------------------------------------------------
\* The ticket lock

\* Advancing a counter by one wraps at Wrap.
LEMMA Advance ==
    ASSUME NEW n \in Tickets
    PROVE  /\ (n + 1) % Wrap = IF n + 1 = Wrap THEN 0 ELSE n + 1
           /\ (n + 1) % Wrap \in Tickets
  <1>1. CASE n + 1 = Wrap
    BY <1>1, WrapAssumption, Z3 DEF Tickets
  <1>2. CASE n + 1 # Wrap
    BY <1>2, WrapAssumption, Z3 DEF Tickets
  <1> QED BY <1>1, <1>2

\* The threads that hold a ticket are finitely many, fewer than the tickets.
LEMMA PendingFinite ==
    /\ IsFiniteSet(Pending)
    /\ Cardinality(Pending) \in Nat
    /\ Cardinality(Pending) <= Cardinality(Contenders)
    /\ Cardinality(Contenders) \in Nat
    /\ Cardinality(Pending) < Wrap
  <1>1. Pending \subseteq Contenders
    BY DEF Pending
  <1>2. IsFiniteSet(Pending) /\ Cardinality(Pending) <= Cardinality(Contenders)
    BY <1>1, ContendersAssumption, FS_Subset
  <1>3. Cardinality(Pending) \in Nat /\ Cardinality(Contenders) \in Nat
    BY <1>2, ContendersAssumption, FS_CardinalityType
  <1> QED BY <1>2, <1>3, WrapAssumption

\* Every step keeps the counters, tickets and control states well typed.
THEOREM TypeCorrect == TicketSpec => []TicketTypeOK
  <1>1. TicketInit => TicketTypeOK
    <2>1. 0 \in Tickets
      BY WrapAssumption, ContendersAssumption, FS_CardinalityType DEF Tickets
    <2> QED BY <2>1 DEF TicketInit, TicketTypeOK
  <1>2. TicketTypeOK /\ [TicketNext]_lockvars => TicketTypeOK'
    <2> SUFFICES ASSUME TicketTypeOK, [TicketNext]_lockvars PROVE TicketTypeOK'
      OBVIOUS
    <2>1. ASSUME NEW t \in Contenders, Take(t) PROVE TicketTypeOK'
      BY <2>1, Advance DEF Take, TicketTypeOK
    <2>2. ASSUME NEW t \in Contenders, Acquire(t) PROVE TicketTypeOK'
      BY <2>2 DEF Acquire, TicketTypeOK
    <2>3. ASSUME NEW t \in Contenders, Unlock(t) PROVE TicketTypeOK'
      BY <2>3, Advance DEF Unlock, TicketTypeOK
    <2>4. CASE UNCHANGED lockvars
      BY <2>4 DEF lockvars, TicketTypeOK
    <2> QED BY <2>1, <2>2, <2>3, <2>4 DEF TicketNext
  <1> QED BY <1>1, <1>2, PTL DEF TicketSpec

\* Taking a ticket extends the window by one place, which nobody holds.
LEMMA TakeKeepsWindow ==
    ASSUME TicketTypeOK, Window, NEW t \in Contenders, Take(t)
    PROVE  Window'
  <1> DEFINE N == Cardinality(Pending)
  <1>1. Pending' = Pending \cup {t} /\ t \notin Pending
    BY DEF Take, Pending, TicketTypeOK
  <1>2. Cardinality(Pending') = N + 1 /\ N \in Nat
    BY <1>1, PendingFinite, FS_AddElement
  <1>3. N + 1 < Wrap
    <2>1. Pending' \subseteq Contenders
      BY DEF Pending
    <2>2. Cardinality(Pending') <= Cardinality(Contenders)
      BY <2>1, ContendersAssumption, FS_Subset
    <2> QED BY <1>2, <2>2, WrapAssumption, PendingFinite
  <1>4. /\ next_ticket' = IF next_ticket + 1 = Wrap THEN 0 ELSE next_ticket + 1
        /\ now_serving' = now_serving
        /\ ticket' = [ticket EXCEPT ![t] = next_ticket]
        /\ pc' = [pc EXCEPT ![t] = "wait"]
    BY Advance DEF Take, TicketTypeOK
  <1>5. Turns(next_ticket)' = N + 1
    BY <1>2, <1>3, <1>4, WrapAssumption DEF Window, Turns, TicketTypeOK, Tickets
  <1>6. \A u \in Pending : u # t /\ ticket'[u] = ticket[u] /\ pc'[u] = pc[u]
    BY <1>1, <1>4 DEF TicketTypeOK, Pending
  <1>7. ticket'[t] = next_ticket /\ pc'[t] = "wait"
    BY <1>4 DEF TicketTypeOK
  <1>8. \A u \in Pending : Turns(ticket[u]) < N /\ Turns(next_ticket) = N
    BY DEF Window
  <1>9. \A u \in Pending : ticket[u] # next_ticket
    BY <1>8, <1>2
  <1>10. ASSUME NEW u \in Pending' PROVE Turns(ticket[u])' < N + 1
    <2>1. CASE u = t
      BY <2>1, <1>2, <1>4, <1>7, <1>8 DEF Turns, Window
    <2>2. CASE u # t
      <3>1. u \in Pending /\ Turns(ticket[u])' = Turns(ticket[u])
        BY <2>2, <1>1, <1>4, <1>6 DEF Turns
      <3>2. Turns(ticket[u]) \in Int
        BY <3>1, WrapAssumption DEF Turns, TicketTypeOK, Tickets, Pending
      <3> QED BY <3>1, <3>2, <1>2, <1>8
    <2> QED BY <2>1, <2>2
  <1>11. ASSUME NEW u \in Pending', NEW v \in Pending', ticket'[u] = ticket'[v]
         PROVE  u = v
    BY <1>11, <1>1, <1>6, <1>7, <1>9 DEF Window
  <1>12. ASSUME NEW u \in Pending', pc'[u] = "in" PROVE ticket'[u] = now_serving'
    BY <1>12, <1>1, <1>4, <1>6, <1>7 DEF Window
  <1> QED BY <1>2, <1>5, <1>10, <1>11, <1>12 DEF Window

\* Entering changes nobody's ticket: only the thread being served gets in.
LEMMA AcquireKeepsWindow ==
    ASSUME TicketTypeOK, Window, NEW t \in Contenders, Acquire(t)
    PROVE  Window'
  <1>1. Pending' = Pending
    BY DEF Acquire, Pending, TicketTypeOK
  <1>2. UNCHANGED <<next_ticket, now_serving, ticket>> /\ pc' = [pc EXCEPT ![t] = "in"]
        /\ ticket[t] = now_serving
    BY DEF Acquire
  <1>3. \A u \in Pending : Turns(ticket[u])' = Turns(ticket[u])
    BY <1>2 DEF Turns
  <1>4. Turns(next_ticket)' = Turns(next_ticket)
    BY <1>2 DEF Turns
  <1>5. \A u \in Pending : pc'[u] = "in" => ticket'[u] = now_serving'
    BY <1>2 DEF Window, TicketTypeOK, Pending
  <1> QED BY <1>1, <1>2, <1>3, <1>4, <1>5 DEF Window

\* Unlocking moves the window on by one place, the one its holder leaves.
LEMMA UnlockKeepsWindow ==
    ASSUME TicketTypeOK, Window, NEW t \in Contenders, Unlock(t)
    PROVE  Window'
  <1> DEFINE N == Cardinality(Pending)
  <1>1. t \in Pending /\ Pending' = Pending \ {t} /\ pc[t] = "in"
    BY DEF Unlock, Pending, TicketTypeOK
  <1>2. Cardinality(Pending') = N - 1 /\ N \in Nat /\ N < Wrap
    BY <1>1, PendingFinite, FS_RemoveElement
  <1>3. /\ now_serving' = IF now_serving + 1 = Wrap THEN 0 ELSE now_serving + 1
        /\ UNCHANGED <<next_ticket, ticket>>
        /\ pc' = [pc EXCEPT ![t] = "idle"]
    BY Advance DEF Unlock, TicketTypeOK
  <1>4. ticket[t] = now_serving
    BY <1>1 DEF Window
  <1>5. N >= 1
    BY <1>1, <1>2, PendingFinite, FS_EmptySet
  <1>6. ASSUME NEW n \in Tickets, n # now_serving PROVE Turns(n)' = Turns(n) - 1
    BY <1>3, <1>6, WrapAssumption DEF Turns, TicketTypeOK, Tickets
  <1>7. next_ticket # now_serving
    BY <1>2, <1>5, WrapAssumption DEF Window, Turns, TicketTypeOK, Tickets
  <1>8. Turns(next_ticket)' = N - 1
    <2>1. Turns(next_ticket) = N
      BY DEF Window
    <2>2. next_ticket \in Tickets
      BY DEF TicketTypeOK
    <2>3. (IF next_ticket >= now_serving' THEN next_ticket - now_serving'
           ELSE next_ticket + Wrap - now_serving') = N - 1
      BY <2>1, <2>2, <1>3, <1>7, WrapAssumption DEF Turns, TicketTypeOK, Tickets
    <2> QED BY <2>3, <1>3 DEF Turns
  <1>9. ASSUME NEW u \in Pending' PROVE Turns(ticket[u])' < N - 1
    <2>1. u \in Pending /\ u # t /\ ticket[u] \in Tickets
      BY <1>1 DEF Pending, TicketTypeOK
    <2>2. ticket[u] # now_serving
      BY <2>1, <1>1, <1>4 DEF Window
    <2>3. Turns(ticket[u]) < N
      BY <2>1 DEF Window
    <2>4. (IF ticket[u] >= now_serving' THEN ticket[u] - now_serving'
           ELSE ticket[u] + Wrap - now_serving') < N - 1
      BY <2>1, <2>2, <2>3, <1>2, <1>3, WrapAssumption DEF Turns, TicketTypeOK, Tickets
    <2> QED BY <2>4, <1>3 DEF Turns
  <1>10. \A u, v \in Pending' : ticket'[u] = ticket'[v] => u = v
    BY <1>1, <1>3 DEF Window
  <1>11. \A u \in Pending' : pc'[u] # "in"
    BY <1>1, <1>3, <1>4 DEF Window, TicketTypeOK, Pending
  <1> QED BY <1>2, <1>8, <1>9, <1>10, <1>11 DEF Window

\* In every reachable state the outstanding tickets are exactly the window
\* from now_serving to next_ticket, and the thread inside is being served.
THEOREM TicketsFillWindow == TicketSpec => []Window
  <1>1. TicketInit => Window
    <2> SUFFICES ASSUME TicketInit PROVE Window
      OBVIOUS
    <2>1. Pending = {}
      BY DEF TicketInit, Pending
    <2>2. Cardinality(Pending) = 0
      BY <2>1, FS_EmptySet
    <2> QED BY <2>1, <2>2 DEF TicketInit, Window, Turns
  <1>2. TicketTypeOK /\ Window /\ [TicketNext]_lockvars => Window'
    <2> SUFFICES ASSUME TicketTypeOK, Window, [TicketNext]_lockvars PROVE Window'
      OBVIOUS
    <2>1. CASE UNCHANGED lockvars
      BY <2>1 DEF lockvars, Window, Turns, Pending
    <2> QED BY <2>1, TakeKeepsWindow, AcquireKeepsWindow, UnlockKeepsWindow DEF TicketNext
  <1> QED BY <1>1, <1>2, TypeCorrect, PTL DEF TicketSpec

\* No two threads are between TicketLock::lock and unlock at once, however
\* many threads compete and however often the 64-bit counters wrap.
THEOREM Exclusion == TicketSpec => []MutualExclusion
  <1>1. Window => MutualExclusion
    BY DEF Window, MutualExclusion, Pending
  <1> QED BY <1>1, TicketsFillWindow, PTL

-----------------------------------------------------------------------------
\* The line of threads

\* How many turns each thread is away.
Away == [t \in Contenders |-> Turns(ticket[t])]

\* A thread stands where its ticket puts it, and every place is taken.
Places ==
    /\ Line \in Seq(Contenders)
    /\ Len(Line) = Cardinality(Pending)
    /\ \A i \in 1 .. Cardinality(Pending) : Line[i] \in Pending /\ Away[Line[i]] = i - 1
    /\ \A t \in Pending : Away[t] + 1 \in 1 .. Cardinality(Pending) /\ Line[Away[t] + 1] = t

\* Different tickets are a different number of turns away.
LEMMA TurnsDiffer ==
    ASSUME TicketTypeOK, NEW m \in Tickets, NEW n \in Tickets
    PROVE  /\ Turns(m) \in Nat
           /\ Turns(m) = Turns(n) => m = n
  BY WrapAssumption DEF Turns, TicketTypeOK, Tickets

\* No two threads in line are equally far away.
LEMMA AwayDiffer ==
    ASSUME TicketTypeOK, Window, NEW t \in Pending
    PROVE  /\ Away[t] = Turns(ticket[t])
           /\ Away[t] \in 0 .. Cardinality(Pending) - 1
           /\ \A u \in Pending : Away[t] = Away[u] => t = u
  <1>1. \A u \in Pending : ticket[u] \in Tickets /\ Away[u] = Turns(ticket[u])
    BY DEF Away, TicketTypeOK, Pending
  <1>2. Turns(ticket[t]) < Cardinality(Pending) /\ Turns(ticket[t]) \in Nat
    BY <1>1, TurnsDiffer DEF Window
  <1>3. ASSUME NEW u \in Pending, Away[t] = Away[u] PROVE t = u
    <2>1. ticket[t] = ticket[u]
      BY <1>1, <1>3, TurnsDiffer
    <2> QED BY <2>1 DEF Window
  <1> QED BY <1>1, <1>2, <1>3, PendingFinite

\* As many distinct tickets as places: none is left out.
LEMMA EveryPlaceTaken ==
    ASSUME TicketTypeOK, Window, NEW i \in 1 .. Cardinality(Pending)
    PROVE  \E t \in Pending : Away[t] = i - 1
  <1> DEFINE N == Cardinality(Pending)
             f == [t \in Pending |-> Away[t]]
  <1>1. N \in Nat
    BY PendingFinite
  <1>2. f \in [Pending -> 0 .. N - 1]
    BY AwayDiffer
  <1>3. \A t, u \in Pending : f[t] = f[u] => t = u
    BY AwayDiffer
  <1>4. IsFiniteSet(0 .. N - 1) /\ Cardinality(0 .. N - 1) = N
    <2> DEFINE b == N - 1
    <2>1. b \in Int /\ N = b + 1 /\ b >= 0 - 1
      BY <1>1
    <2> HIDE DEF b, N
    <2>2. IsFiniteSet(0 .. b) /\ Cardinality(0 .. b) = IF 0 > b THEN 0 ELSE b - 0 + 1
      BY <2>1, FS_Interval
    <2>3. Cardinality(0 .. b) = b + 1
      BY <2>1, <2>2
    <2> QED BY <2>1, <2>2, <2>3 DEF b
  <1> HIDE DEF f, N
  <1>5. f \in Injection(Pending, 0 .. N - 1)
    BY <1>2, <1>3 DEF Injection, IsInjective
  <1>6. f \in Surjection(Pending, 0 .. N - 1)
    BY <1>4, <1>5, FS_Injection DEF N
  <1>7. i - 1 \in 0 .. N - 1
    BY <1>1 DEF N
  <1>8. \E t \in Pending : f[t] = i - 1
    BY <1>6, <1>7 DEF Surjection
  <1> QED BY <1>8 DEF f

\* The line that FifoOrder speaks of is well defined.
LEMMA LineIsPlaces == TicketTypeOK /\ Window => Places
  <1> SUFFICES ASSUME TicketTypeOK, Window PROVE Places
    OBVIOUS
  <1> DEFINE N == Cardinality(Pending)
  <1>1. N \in Nat /\ Pending \subseteq Contenders
    BY PendingFinite DEF Pending
  <1>2. ASSUME NEW i \in 1 .. N PROVE Line[i] \in Pending /\ Away[Line[i]] = i - 1
    <2>1. \A t \in Pending : Away[t] = Turns(ticket[t])
      BY AwayDiffer
    <2>2. \E t \in Pending : Turns(ticket[t]) = i - 1
      BY <2>1, EveryPlaceTaken
    <2>3. Line[i] = CHOOSE t \in Pending : Turns(ticket[t]) = i - 1
      BY DEF Line
    <2>4. Line[i] \in Pending /\ Turns(ticket[Line[i]]) = i - 1
      BY <2>2, <2>3
    <2> QED BY <2>1, <2>4
  <1>3. Line \in Seq(Contenders) /\ Len(Line) = N
    <2>1. Line = [i \in 1 .. N |-> Line[i]]
      BY DEF Line
    <2>2. \A i \in 1 .. N : Line[i] \in Contenders
      BY <1>1, <1>2
    <2>3. Line \in [1 .. N -> Contenders]
      BY <2>1, <2>2
    <2> QED BY <1>1, <2>3
  <1>4. ASSUME NEW t \in Pending
        PROVE  Away[t] + 1 \in 1 .. N /\ Line[Away[t] + 1] = t
    <2>1. Away[t] + 1 \in 1 .. N /\ Away[t] \in Nat
      BY <1>1, AwayDiffer
    <2>2. /\ Line[Away[t] + 1] \in Pending
          /\ Away[Line[Away[t] + 1]] = Away[t]
      BY <1>2, <2>1
    <2> QED BY <2>1, <2>2, AwayDiffer
  <1> QED BY <1>2, <1>3, <1>4 DEF Places

\* What makes a sequence the extension of another by one element.
LEMMA IsAppend ==
    ASSUME NEW S, NEW s \in Seq(S), NEW t \in Seq(S), NEW b \in S,
           Len(t) = Len(s) + 1, t[Len(s) + 1] = b,
           \A k \in 1 .. Len(s) : t[k] = s[k]
    PROVE  t = Append(s, b)
  <1>1. Append(s, b) \in Seq(S) /\ Len(Append(s, b)) = Len(s) + 1
    OBVIOUS
  <1>2. \A k \in 1 .. Len(t) : t[k] = Append(s, b)[k]
    OBVIOUS
  <1> QED BY <1>1, <1>2, SeqEqual

\* What makes a sequence the rest of another after its head.
LEMMA IsTail ==
    ASSUME NEW S, NEW s \in Seq(S), NEW t \in Seq(S),
           s # <<>>, Len(t) = Len(s) - 1,
           \A k \in 1 .. Len(t) : t[k] = s[k + 1]
    PROVE  t = Tail(s)
  <1>1. Tail(s) \in Seq(S) /\ Len(Tail(s)) = Len(s) - 1
    OBVIOUS
  <1>2. \A k \in 1 .. Len(t) : t[k] = Tail(s)[k]
    OBVIOUS
  <1> QED BY <1>1, <1>2, SeqEqual

Inside == {t \in Contenders : pc[t] = "in"}

\* fetch_add puts the thread at the end of the line.
LEMMA TakeAsks ==
    ASSUME TicketTypeOK, Window, Places, Places', NEW t \in Contenders, Take(t)
    PROVE  Queue!Ask(t)
  <1> DEFINE N == Cardinality(Pending)
  <1>1. Pending' = Pending \cup {t} /\ t \notin Pending /\ Pending \subseteq Contenders
    BY DEF Take, Pending, TicketTypeOK
  <1>2. N \in Nat /\ Cardinality(Pending') = N + 1
    BY <1>1, PendingFinite, FS_AddElement
  <1>3. /\ Line \in Seq(Contenders) /\ Len(Line) = N
        /\ Line' \in Seq(Contenders) /\ Len(Line') = N + 1
    BY <1>2 DEF Places
  <1>4. /\ \A u \in Pending : Away'[u] = Away[u]
        /\ Away'[t] = N
    <2>1. /\ now_serving' = now_serving
          /\ ticket' = [ticket EXCEPT ![t] = next_ticket]
          /\ ticket \in [Contenders -> Tickets]
      BY DEF Take, TicketTypeOK
    <2>2. Away'[t] = Turns(next_ticket)
      BY <2>1 DEF Away, Turns
    <2>3. ASSUME NEW u \in Pending PROVE Away'[u] = Away[u]
      <3>1. u # t /\ u \in Contenders
        BY <1>1
      <3> QED BY <2>1, <3>1 DEF Away, Turns
    <2> QED BY <2>2, <2>3 DEF Window
  <1>5. ASSUME NEW i \in 1 .. N PROVE Line'[i] = Line[i]
    <2>1. Line[i] \in Pending /\ Away[Line[i]] = i - 1
      BY DEF Places
    <2>2. Line[i] \in Pending' /\ Away'[Line[i]] + 1 = i
      BY <1>1, <1>4, <2>1, <1>2
    <2> QED BY <2>2 DEF Places
  <1>6. Line'[N + 1] = t
    <2>1. t \in Pending' /\ Away'[t] + 1 = N + 1
      BY <1>1, <1>4
    <2> QED BY <2>1 DEF Places
  <1>7. Line' = Append(Line, t)
    BY <1>3, <1>5, <1>6, IsAppend
  <1>8. \A i \in 1 .. Len(Line) : Line[i] # t
    BY <1>1, <1>3 DEF Places
  <1>9. Inside' = Inside
    BY DEF Take, Inside, TicketTypeOK
  <1> QED BY <1>7, <1>8, <1>9 DEF Queue!Ask, Inside

\* The spin loop ends for the thread at the head of the line, when nobody is inside.
LEMMA AcquireEnters ==
    ASSUME TicketTypeOK, Window, Places, Places', NEW t \in Contenders, Acquire(t)
    PROVE  Queue!Enter(t)
  <1> DEFINE N == Cardinality(Pending)
  <1>1. Pending' = Pending /\ t \in Pending /\ Pending \subseteq Contenders
    BY DEF Acquire, Pending, TicketTypeOK
  <1>2. Away[t] = 0
    BY <1>1, AwayDiffer DEF Acquire, Turns, TicketTypeOK, Tickets
  <1>3. N \in Nat /\ 1 \in 1 .. N /\ Line[1] = t
    <2>1. N \in Nat /\ 0 + 1 = 1
      BY PendingFinite
    <2>2. Away[t] + 1 \in 1 .. N /\ Line[Away[t] + 1] = t
      BY <1>1 DEF Places
    <2> QED BY <1>2, <2>1, <2>2
  <1>4. Line \in Seq(Contenders) /\ Len(Line) = N
    BY DEF Places
  <1>5. Line # <<>> /\ t = Head(Line)
    BY <1>3, <1>4
  <1>6. Inside = {}
    BY <1>1 DEF Inside, Window, Acquire, Pending
  <1>7. Inside' = {t}
    BY <1>6 DEF Inside, Acquire, TicketTypeOK
  <1>8. Line' = Line
    BY <1>1 DEF Line, Acquire, Turns
  <1> QED BY <1>5, <1>6, <1>7, <1>8 DEF Queue!Enter, Inside

\* unlock() is called by the head of the line, and everybody moves up.
LEMMA UnlockLeaves ==
    ASSUME TicketTypeOK, Window, Places, Places', NEW t \in Contenders, Unlock(t)
    PROVE  Queue!Leave(t)
  <1> DEFINE N == Cardinality(Pending)
  <1>1. Pending' = Pending \ {t} /\ t \in Pending /\ Pending \subseteq Contenders
    BY DEF Unlock, Pending, TicketTypeOK
  <1>2. N \in Nat /\ Cardinality(Pending') = N - 1 /\ N # 0
    BY <1>1, PendingFinite, FS_RemoveElement, FS_EmptySet
  <1>3. /\ Line \in Seq(Contenders) /\ Len(Line) = N
        /\ Line' \in Seq(Contenders) /\ Len(Line') = N - 1
    BY <1>2 DEF Places
  <1>4. ticket[t] = now_serving /\ ticket' = ticket
    BY <1>1 DEF Unlock, Window
  <1>5. ASSUME NEW u \in Pending' PROVE Away'[u] = Away[u] - 1 /\ Away[u] \in Nat
    <2>1. u \in Pending /\ u \in Contenders /\ ticket[u] \in Tickets /\ ticket[u] # now_serving
      BY <1>1, <1>4 DEF Window, TicketTypeOK
    <2>2. now_serving' = IF now_serving + 1 = Wrap THEN 0 ELSE now_serving + 1
      BY Advance DEF Unlock, TicketTypeOK
    <2>3. Away[u] = IF ticket[u] >= now_serving THEN ticket[u] - now_serving
                    ELSE ticket[u] + Wrap - now_serving
      BY <2>1 DEF Away, Turns
    <2>4. Away'[u] = IF ticket[u] >= now_serving' THEN ticket[u] - now_serving'
                     ELSE ticket[u] + Wrap - now_serving'
      BY <1>4, <2>1 DEF Away, Turns
    <2> QED BY <2>1, <2>2, <2>3, <2>4, WrapAssumption DEF TicketTypeOK, Tickets
  <1>6. ASSUME NEW i \in 1 .. N - 1 PROVE Line'[i] = Line[i + 1]
    <2>1. i \in Nat /\ i \in 1 .. Cardinality(Pending')
      BY <1>2
    <2>2. Line'[i] \in Pending' /\ Away'[Line'[i]] = i - 1
      BY <2>1 DEF Places
    <2>3. Line'[i] \in Pending /\ Away[Line'[i]] + 1 = i + 1
      BY <1>1, <1>5, <2>1, <2>2
    <2> QED BY <2>3 DEF Places
  <1>7. Line' = Tail(Line)
    <2>1. Line # <<>>
      BY <1>2, <1>3
    <2> QED BY <1>2, <1>3, <1>6, <2>1, IsTail
  <1>8. Inside = {t}
    BY <1>1, <1>4 DEF Inside, Unlock, Window, Pending
  <1>9. Inside' = {}
    BY <1>8 DEF Inside, Unlock, TicketTypeOK
  <1> QED BY <1>7, <1>8, <1>9 DEF Queue!Leave, Inside

\* locks.rs, "Ticket lock: FIFO ordering": lock() lets threads in one at a time
\* and in the order of their fetch_add, however many there are and however often
\* the counters wrap.
THEOREM TicketsAreFifo == TicketSpec => FifoOrder
  <1>1. TicketInit => Queue!FInit
    <2> SUFFICES ASSUME TicketInit PROVE Queue!FInit
      OBVIOUS
    <2>1. Pending = {} /\ Inside = {}
      BY DEF TicketInit, Pending, Inside
    <2>2. Cardinality(Pending) = 0
      BY <2>1, FS_EmptySet
    <2>3. Line = <<>>
      BY <2>2 DEF Line
    <2> QED BY <2>1, <2>3 DEF Queue!FInit, Inside
  <1>2. TicketTypeOK /\ Window /\ Places /\ Places' /\ [TicketNext]_lockvars => [Queue!FNext]_(Queue!fvars)
    <2> SUFFICES ASSUME TicketTypeOK, Window, Places, Places', [TicketNext]_lockvars
                 PROVE  [Queue!FNext]_(Queue!fvars)
      OBVIOUS
    <2>1. ASSUME NEW t \in Contenders, Take(t) PROVE Queue!FNext
      BY <2>1, TakeAsks DEF Queue!FNext
    <2>2. ASSUME NEW t \in Contenders, Acquire(t) PROVE Queue!FNext
      BY <2>2, AcquireEnters DEF Queue!FNext
    <2>3. ASSUME NEW t \in Contenders, Unlock(t) PROVE Queue!FNext
      BY <2>3, UnlockLeaves DEF Queue!FNext
    <2>4. CASE UNCHANGED lockvars
      BY <2>4 DEF lockvars, Queue!fvars, Line, Pending, Turns
    <2> QED BY <2>1, <2>2, <2>3, <2>4 DEF TicketNext
  <1> QED BY <1>1, <1>2, LineIsPlaces, TypeCorrect, TicketsFillWindow, PTL
         DEF TicketSpec, FifoOrder, Queue!FSpec
=============================================================================
