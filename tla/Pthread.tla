------------------------------ MODULE Pthread ------------------------------
(***************************************************************************)
(* The mutexes and condition variables of src/src/pthread.rs, called by    *)
(* ring-3 threads through SYS_MUTEX_* and SYS_CONDVAR_*.  A system call    *)
(* runs with interrupts off and gives up the CPU only in yield_now, so a   *)
(* step is a call up to its next yield or its return.  Threads unlock, and *)
(* wait with, mutexes they hold; nothing else is asked of them.            *)
(***************************************************************************)
EXTENDS Naturals, FiniteSets

CONSTANTS
    Threads,
    NoThread,       \* the owner_tid 0 of an unlocked mutex
    MAX_MUTEXES,    \* 64 in the code
    MAX_CONDVARS,   \* 32 in the code
    MaxMutexId,     \* bound: mutex_create calls
    MaxCondvarId,   \* bound: condvar_create calls
    MaxSignals,     \* bound: value of signal_count
    MaxWaits,       \* bound: condvar waits that timed out or are under way
    MaxPolls        \* the 1000 iterations of the wait loop

ASSUME ThreadsFinite    == IsFiniteSet(Threads) /\ NoThread \notin Threads
ASSUME LimitsAssumption == {MAX_MUTEXES, MAX_CONDVARS, MaxMutexId, MaxCondvarId,
                            MaxSignals, MaxWaits, MaxPolls} \subseteq Nat

MutexIds   == 1 .. MaxMutexId
CondvarIds == 1 .. MaxCondvarId

Idle == [at |-> "user", m |-> 0, c |-> 0, seen |-> 0, polls |-> 0, told |-> FALSE]

VARIABLES
    MUTEXES,        \* the ids with a slot in the table
    NEXT_MUTEX_ID,
    owner_tid,      \* owner_tid[m]: NoThread while unlocked
    m_waiters,
    CONDVARS,
    NEXT_CONDVAR_ID,
    signal_count,
    c_waiters,
    call,           \* the call each thread is in, with its arguments and locals:
                    \* at is "user" (none), "lock", "wait" (condvar loop) or
                    \* "relock"; told says a signal came while it was waiting
    holds           \* mutexes each thread was told it holds

mutexVars == <<MUTEXES, NEXT_MUTEX_ID, owner_tid, m_waiters>>
condVars  == <<CONDVARS, NEXT_CONDVAR_ID, signal_count, c_waiters>>
vars      == <<MUTEXES, NEXT_MUTEX_ID, owner_tid, m_waiters,
               CONDVARS, NEXT_CONDVAR_ID, signal_count, c_waiters, call, holds>>

Init ==
    /\ MUTEXES = {} /\ NEXT_MUTEX_ID = 1
    /\ owner_tid = [m \in MutexIds |-> NoThread]
    /\ m_waiters = [m \in MutexIds |-> 0]
    /\ CONDVARS = {} /\ NEXT_CONDVAR_ID = 1
    /\ signal_count = [c \in CondvarIds |-> 0]
    /\ c_waiters = [c \in CondvarIds |-> 0]
    /\ call = [t \in Threads |-> Idle]
    /\ holds = [t \in Threads |-> {}]

InUser(t) == call[t].at = "user"

-----------------------------------------------------------------------------
\* mutex_create: a table that is full keeps no mutex, but the id is returned.
mutex_create(t) ==
    /\ InUser(t)
    /\ NEXT_MUTEX_ID <= MaxMutexId
    /\ NEXT_MUTEX_ID' = NEXT_MUTEX_ID + 1
    /\ MUTEXES' = IF Cardinality(MUTEXES) < MAX_MUTEXES
                  THEN MUTEXES \cup {NEXT_MUTEX_ID} ELSE MUTEXES
    /\ UNCHANGED <<owner_tid, m_waiters, condVars, call, holds>>

mutex_destroy(t) ==
    /\ InUser(t)
    /\ \E m \in MUTEXES : MUTEXES' = MUTEXES \ {m}
    /\ UNCHANGED <<NEXT_MUTEX_ID, owner_tid, m_waiters, condVars, call, holds>>

\* Variant: a thread coming out of a wait takes the mutex without looking at
\* `locked`.
Grab_blind(t, m, counted, later) ==
    \/ /\ m \notin MUTEXES
       /\ call' = [call EXCEPT ![t] = Idle]
       /\ UNCHANGED <<owner_tid, m_waiters, holds>>
    \/ /\ m \in MUTEXES
       /\ owner_tid[m] = NoThread \/ later = "relock"
       /\ owner_tid' = [owner_tid EXCEPT ![m] = t]
       /\ m_waiters' = [m_waiters EXCEPT ![m] = @ - counted]
       /\ holds' = [holds EXCEPT ![t] = @ \cup {m}]
       /\ call' = [call EXCEPT ![t] = Idle]
    \/ /\ m \in MUTEXES
       /\ owner_tid[m] # NoThread /\ later # "relock"
       /\ m_waiters' = [m_waiters EXCEPT ![m] = @ + 1 - counted]
       /\ call' = [call EXCEPT ![t] = [Idle EXCEPT !.at = later, !.m = m]]
       /\ UNCHANGED <<owner_tid, holds>>

\* One pass of the loop of mutex_lock for thread t: the mutex is gone, free or
\* taken.  counted is 1 once the thread is among the waiters; the first pass
\* also counts it in.
Grab(t, m, counted, later) ==
    \/ /\ m \notin MUTEXES
       /\ call' = [call EXCEPT ![t] = Idle]
       /\ UNCHANGED <<owner_tid, m_waiters, holds>>
    \/ /\ m \in MUTEXES
       /\ owner_tid[m] = NoThread
       /\ owner_tid' = [owner_tid EXCEPT ![m] = t]
       /\ m_waiters' = [m_waiters EXCEPT ![m] = @ - counted]
       /\ holds' = [holds EXCEPT ![t] = @ \cup {m}]
       /\ call' = [call EXCEPT ![t] = Idle]
    \/ /\ m \in MUTEXES
       /\ owner_tid[m] # NoThread
       /\ m_waiters' = [m_waiters EXCEPT ![m] = @ + 1 - counted]
       /\ call' = [call EXCEPT ![t] = [Idle EXCEPT !.at = later, !.m = m]]
       /\ UNCHANGED <<owner_tid, holds>>

mutex_lock(t) ==
    /\ InUser(t)
    /\ \E m \in (1 .. NEXT_MUTEX_ID - 1) \ holds[t] : Grab(t, m, 0, "lock")
    /\ UNCHANGED <<MUTEXES, NEXT_MUTEX_ID, condVars>>

mutex_lock_loop(t) ==
    /\ call[t].at \in {"lock", "relock"}
    /\ Grab(t, call[t].m, 1, call[t].at)
    /\ UNCHANGED <<MUTEXES, NEXT_MUTEX_ID, condVars>>

\* A destroyed mutex has no slot to write to; unlocking it returns -1.
Released(m) ==
    IF m \in MUTEXES THEN [owner_tid EXCEPT ![m] = NoThread] ELSE owner_tid

mutex_unlock(t) ==
    /\ InUser(t)
    /\ \E m \in holds[t] :
          /\ owner_tid' = Released(m)
          /\ holds' = [holds EXCEPT ![t] = @ \ {m}]
    /\ UNCHANGED <<MUTEXES, NEXT_MUTEX_ID, m_waiters, condVars, call>>

-----------------------------------------------------------------------------
\* condvar_create: destroyed condvars keep their slot, so the limit is on the
\* ones ever created.
condvar_create(t) ==
    /\ InUser(t)
    /\ NEXT_CONDVAR_ID <= MaxCondvarId
    /\ NEXT_CONDVAR_ID' = NEXT_CONDVAR_ID + 1
    /\ CONDVARS' = IF NEXT_CONDVAR_ID <= MAX_CONDVARS
                   THEN CONDVARS \cup {NEXT_CONDVAR_ID} ELSE CONDVARS
    /\ UNCHANGED <<mutexVars, signal_count, c_waiters, call, holds>>

condvar_destroy(t) ==
    /\ InUser(t)
    /\ \E c \in CONDVARS : CONDVARS' = CONDVARS \ {c}
    /\ UNCHANGED <<mutexVars, NEXT_CONDVAR_ID, signal_count, c_waiters, call, holds>>

\* condvar_wait up to its first yield: note the signal count, release the
\* mutex, look once (nothing can have changed) and yield.
condvar_wait(t) ==
    /\ InUser(t)
    /\ \E c \in CONDVARS, m \in holds[t] :
          /\ c_waiters[c] < MaxWaits
          /\ c_waiters' = [c_waiters EXCEPT ![c] = @ + 1]
          /\ owner_tid' = Released(m)
          /\ holds' = [holds EXCEPT ![t] = @ \ {m}]
          /\ call' = [call EXCEPT ![t] =
                        [at |-> "wait", m |-> m, c |-> c, seen |-> signal_count[c],
                         polls |-> MaxPolls, told |-> FALSE]]
    /\ UNCHANGED <<MUTEXES, NEXT_MUTEX_ID, m_waiters, CONDVARS, NEXT_CONDVAR_ID, signal_count>>

Signalled(t) == call[t].c \in CONDVARS /\ signal_count[call[t].c] # call[t].seen

\* Variant: a poll that sees no signal notes the count afresh, after a yield.
condvar_poll_rereads(t) ==
    /\ call[t].at = "wait"
    /\ call[t].polls > 0
    /\ \/ /\ Signalled(t) /\ call[t].polls < MaxPolls
          /\ c_waiters' = [c_waiters EXCEPT ![call[t].c] = @ - 1]
          /\ Grab(t, call[t].m, 0, "relock")
       \/ /\ ~Signalled(t) \/ call[t].polls = MaxPolls
          /\ call' = [call EXCEPT ![t].polls = @ - 1, ![t].seen = signal_count[call[t].c]]
          /\ UNCHANGED <<c_waiters, owner_tid, m_waiters, holds>>
    /\ UNCHANGED <<MUTEXES, NEXT_MUTEX_ID, CONDVARS, NEXT_CONDVAR_ID, signal_count>>

\* A pass of the wait loop: signalled, to relock; or not, to yield again.
condvar_poll(t) ==
    /\ call[t].at = "wait"
    /\ call[t].polls > 0
    /\ \/ /\ Signalled(t)
          /\ c_waiters' = [c_waiters EXCEPT ![call[t].c] = @ - 1]
          /\ Grab(t, call[t].m, 0, "relock")
       \/ /\ ~Signalled(t)
          /\ call' = [call EXCEPT ![t].polls = @ - 1]
          /\ UNCHANGED <<c_waiters, owner_tid, m_waiters, holds>>
    /\ UNCHANGED <<MUTEXES, NEXT_MUTEX_ID, CONDVARS, NEXT_CONDVAR_ID, signal_count>>

\* The loop ran out: relock and return -1, still among the condvar's waiters.
condvar_timeout(t) ==
    /\ call[t].at = "wait"
    /\ call[t].polls = 0
    /\ Grab(t, call[t].m, 0, "relock")
    /\ UNCHANGED <<MUTEXES, NEXT_MUTEX_ID, condVars>>

WaitingOn(c) == {u \in Threads : call[u].at = "wait" /\ call[u].c = c}

Tell(c) ==
    call' = [u \in Threads |->
               IF u \in WaitingOn(c) THEN [call[u] EXCEPT !.told = TRUE] ELSE call[u]]

condvar_signal(t) ==
    /\ InUser(t)
    /\ \E c \in CONDVARS :
          /\ signal_count[c] < MaxSignals
          /\ signal_count' = [signal_count EXCEPT ![c] = @ + 1]
          /\ Tell(c)
    /\ UNCHANGED <<mutexVars, CONDVARS, NEXT_CONDVAR_ID, c_waiters, holds>>

condvar_broadcast(t) ==
    /\ InUser(t)
    /\ \E c \in CONDVARS :
          LET n == IF c_waiters[c] > 1 THEN c_waiters[c] ELSE 1 IN
          /\ signal_count[c] + n <= MaxSignals
          /\ signal_count' = [signal_count EXCEPT ![c] = @ + n]
          /\ Tell(c)
    /\ UNCHANGED <<mutexVars, CONDVARS, NEXT_CONDVAR_ID, c_waiters, holds>>

-----------------------------------------------------------------------------
Next ==
    \E t \in Threads :
        \/ mutex_create(t) \/ mutex_destroy(t) \/ mutex_lock(t) \/ mutex_unlock(t)
        \/ mutex_lock_loop(t)
        \/ condvar_create(t) \/ condvar_destroy(t) \/ condvar_wait(t)
        \/ condvar_poll(t) \/ condvar_timeout(t)
        \/ condvar_signal(t) \/ condvar_broadcast(t)

Spec == Init /\ [][Next]_vars

-----------------------------------------------------------------------------
\* The tables keep their limits, ids come from the counters, and the waiter
\* counts never run below zero or past the threads there are.
TypeOK ==
    /\ MUTEXES \subseteq 1 .. NEXT_MUTEX_ID - 1
    /\ Cardinality(MUTEXES) <= MAX_MUTEXES
    /\ CONDVARS \subseteq 1 .. NEXT_CONDVAR_ID - 1
    /\ owner_tid \in [MutexIds -> Threads \cup {NoThread}]
    /\ m_waiters \in [MutexIds -> 0 .. Cardinality(Threads)]
    /\ signal_count \in [CondvarIds -> 0 .. MaxSignals]
    /\ c_waiters \in [CondvarIds -> 0 .. MaxWaits]
    /\ call \in [Threads -> [at : {"user", "lock", "wait", "relock"}, m : 0 .. MaxMutexId,
                             c : 0 .. MaxCondvarId, seen : 0 .. MaxSignals,
                             polls : 0 .. MaxPolls, told : BOOLEAN]]
    /\ holds \in [Threads -> SUBSET MutexIds]

\* Exactly the thread recorded as owner was told that it holds a mutex: two
\* threads never do, whether they came through mutex_lock, out of a signalled
\* condvar_wait or out of one that timed out.
OwnerHolds ==
    \A m \in MUTEXES, t \in Threads : m \in holds[t] <=> owner_tid[m] = t

\* The `waiters` field of a mutex ("number of threads waiting") counts the
\* threads in the loop of mutex_lock, those relocking after a wait included.
WaitersCounted ==
    \A m \in MUTEXES :
        m_waiters[m] = Cardinality({t \in Threads :
                                      call[t].at \in {"lock", "relock"} /\ call[t].m = m})

\* No wakeup is lost: a thread that was waiting when the condvar was signalled
\* or broadcast sees it at its next poll, whatever happened in between.
NoLostSignal ==
    \A t \in Threads :
        call[t].at = "wait" /\ call[t].told /\ call[t].c \in CONDVARS => Signalled(t)

\* pthread.rs:181, "Signal one waiter on a condition variable."
SignalOne ==
    [][(\E t \in Threads : condvar_signal(t)) =>
          Cardinality({u \in Threads : call[u].at = "wait" /\ ~Signalled(u)
                                       /\ Signalled(u)'}) <= 1]_vars

\* pthread.rs:40, "Create a new mutex. Returns mutex ID.": the id names one.
CreateMakesMutex ==
    [][\A t \in Threads : mutex_create(t) => NEXT_MUTEX_ID \in MUTEXES']_vars
=============================================================================
