------------------------------- MODULE Futex -------------------------------
(***************************************************************************)
(* futex_wait and futex_wake of src/src/pthread.rs, called by ring-3       *)
(* threads.  A system call runs with interrupts off and gives up the CPU   *)
(* only in yield_now, so a step is a call up to its next yield or return.  *)
(* The shell may kill a thread between two steps; a killed thread never    *)
(* runs again, and no code takes its entry off the list.                   *)
(***************************************************************************)
EXTENDS Naturals, Sequences, FiniteSets

CONSTANTS
    FutexThreads,
    Addrs,              \* userspace words that are waited on
    MAX_FUTEX_WAITERS,  \* 64 in the code
    MaxLooks,           \* the 1000 iterations of the wait loop
    MaxWakes            \* largest count handed to futex_wake

ASSUME FutexAssumption == Addrs # {} /\ MaxLooks \in Nat \ {0} /\ MaxWakes \in Nat

VARIABLES
    FUTEX_WAITERS,  \* the list of [addr, tid, woken], oldest first
    word,           \* word[a]: the value user code keeps at a
    fcall,          \* the call of each thread: at is "user", "wait" or "dead";
                    \* looks are the iterations left, told says a wake marked it
    fret            \* what the last futex_wait of a thread returned

fvars == <<FUTEX_WAITERS, word, fcall, fret>>

Returned == [at |-> "user", addr |-> CHOOSE a \in Addrs : TRUE, looks |-> 0, told |-> FALSE]

FutexInit ==
    /\ FUTEX_WAITERS = <<>>
    /\ word = [a \in Addrs |-> 0]
    /\ fcall = [t \in FutexThreads |-> Returned]
    /\ fret = [t \in FutexThreads |-> 0]

Mine(t, w) == w.addr = fcall[t].addr /\ w.tid = t

Entries == {FUTEX_WAITERS[i] : i \in DOMAIN FUTEX_WAITERS}

\* retain: the entries of other threads and words move up.
Kept(t)    == {i \in DOMAIN FUTEX_WAITERS : ~Mine(t, FUTEX_WAITERS[i])}
Rank(t, i) == Cardinality({j \in Kept(t) : j <= i})
Removed(t) ==
    [k \in 1 .. Cardinality(Kept(t)) |-> FUTEX_WAITERS[CHOOSE i \in Kept(t) : Rank(t, i) = k]]

\* User code changes the word (no system call).
store(t) ==
    /\ fcall[t].at = "user"
    /\ \E a \in Addrs : word' = [word EXCEPT ![a] = 1 - @]
    /\ UNCHANGED <<FUTEX_WAITERS, fcall, fret>>

\* futex_wait up to its first yield: the first look finds its own new entry.
futex_wait(t) ==
    /\ fcall[t].at = "user"
    /\ \E a \in Addrs, expected \in 0 .. 1 :
          \/ /\ word[a] # expected \/ Len(FUTEX_WAITERS) >= MAX_FUTEX_WAITERS
             /\ fret' = [fret EXCEPT ![t] = 1]
             /\ UNCHANGED <<FUTEX_WAITERS, fcall>>
          \/ /\ word[a] = expected /\ Len(FUTEX_WAITERS) < MAX_FUTEX_WAITERS
             /\ FUTEX_WAITERS' = Append(FUTEX_WAITERS, [addr |-> a, tid |-> t, woken |-> FALSE])
             /\ fcall' = [fcall EXCEPT ![t] = [at |-> "wait", addr |-> a,
                                               looks |-> MaxLooks - 1, told |-> FALSE]]
             /\ UNCHANGED fret
    /\ UNCHANGED word

\* Variant: the thread that was woken leaves its entry behind.
futex_look_keeps(t) ==
    /\ fcall[t].at = "wait" /\ fcall[t].looks > 0
    /\ \/ /\ \E w \in Entries : Mine(t, w) /\ w.woken
          /\ fcall' = [fcall EXCEPT ![t] = Returned]
          /\ fret' = [fret EXCEPT ![t] = 0]
          /\ UNCHANGED FUTEX_WAITERS
       \/ /\ \A w \in Entries : Mine(t, w) => ~w.woken
          /\ fcall' = [fcall EXCEPT ![t].looks = @ - 1]
          /\ UNCHANGED <<FUTEX_WAITERS, fret>>
    /\ UNCHANGED word

\* Variant: any woken entry of the address counts, whoever it belongs to.
futex_look_any(t) ==
    /\ fcall[t].at = "wait" /\ fcall[t].looks > 0
    /\ \/ /\ \E w \in Entries : w.addr = fcall[t].addr /\ w.woken
          /\ FUTEX_WAITERS' = Removed(t)
          /\ fcall' = [fcall EXCEPT ![t] = Returned]
          /\ fret' = [fret EXCEPT ![t] = 0]
       \/ /\ \A w \in Entries : Mine(t, w) => ~w.woken
          /\ fcall' = [fcall EXCEPT ![t].looks = @ - 1]
          /\ UNCHANGED <<FUTEX_WAITERS, fret>>
    /\ UNCHANGED word

\* An iteration of the wait loop after a yield: woken, or look again later.
\* (Its entry is always there: only the thread itself takes it off.)
futex_look(t) ==
    /\ fcall[t].at = "wait" /\ fcall[t].looks > 0
    /\ \/ /\ \E w \in Entries : Mine(t, w) /\ w.woken
          /\ FUTEX_WAITERS' = Removed(t)
          /\ fcall' = [fcall EXCEPT ![t] = Returned]
          /\ fret' = [fret EXCEPT ![t] = 0]
       \/ /\ \A w \in Entries : Mine(t, w) => ~w.woken
          /\ fcall' = [fcall EXCEPT ![t].looks = @ - 1]
          /\ UNCHANGED <<FUTEX_WAITERS, fret>>
    /\ UNCHANGED word

\* The loop ran out: the entry goes, woken or not, and the call returns -1.
futex_timeout(t) ==
    /\ fcall[t].at = "wait" /\ fcall[t].looks = 0
    /\ FUTEX_WAITERS' = Removed(t)
    /\ fcall' = [fcall EXCEPT ![t] = Returned]
    /\ fret' = [fret EXCEPT ![t] = 1]
    /\ UNCHANGED word

\* The places futex_wake marks: the first unwoken entries of the address, at
\* least one (`woken >= count` is looked at after the store).
Asleep(a) == {i \in DOMAIN FUTEX_WAITERS : FUTEX_WAITERS[i].addr = a /\ ~FUTEX_WAITERS[i].woken}

Marked(a, count) ==
    {i \in Asleep(a) : Cardinality({j \in Asleep(a) : j < i}) < (IF count = 0 THEN 1 ELSE count)}

futex_wake(t) ==
    /\ fcall[t].at = "user"
    /\ \E a \in Addrs, count \in 0 .. MaxWakes :
          LET marked == Marked(a, count) IN
          /\ FUTEX_WAITERS' = [i \in DOMAIN FUTEX_WAITERS |->
                                 [FUTEX_WAITERS[i] EXCEPT !.woken = @ \/ i \in marked]]
          /\ fcall' = [u \in FutexThreads |->
                         [fcall[u] EXCEPT !.told = @ \/ \E i \in marked : FUTEX_WAITERS[i].tid = u]]
    /\ UNCHANGED <<word, fret>>

\* task::kill from the shell, at a yield; one thread is left to go on.
kill(t) ==
    /\ fcall[t].at # "dead"
    /\ \E u \in FutexThreads \ {t} : fcall[u].at # "dead"
    /\ fcall' = [fcall EXCEPT ![t].at = "dead"]
    /\ UNCHANGED <<FUTEX_WAITERS, word, fret>>

FutexNext ==
    \E t \in FutexThreads :
        \/ store(t) \/ futex_wait(t) \/ futex_look(t) \/ futex_timeout(t)
        \/ futex_wake(t) \/ kill(t)

FutexSpec == FutexInit /\ [][FutexNext]_fvars

-----------------------------------------------------------------------------
\* The list keeps MAX_FUTEX_WAITERS and its entries are well formed.
FutexTypeOK ==
    /\ Len(FUTEX_WAITERS) <= MAX_FUTEX_WAITERS
    /\ Entries \subseteq [addr : Addrs, tid : FutexThreads, woken : BOOLEAN]
    /\ word \in [Addrs -> 0 .. 1]
    /\ fcall \in [FutexThreads -> [at : {"user", "wait", "dead"}, addr : Addrs,
                                   looks : 0 .. MaxLooks, told : BOOLEAN]]
    /\ fret \in [FutexThreads -> 0 .. 1]

\* Every thread in futex_wait has exactly one entry, and an entry without such
\* a thread is one of a thread killed in the wait: timeouts, wakes and the full
\* list leave nothing behind.  Waiters of an address are woken in the order in
\* which they came, whatever counts the wakes had and whoever timed out.
WaitersInOrder ==
    /\ \A t \in FutexThreads :
          LET own == {i \in DOMAIN FUTEX_WAITERS : FUTEX_WAITERS[i].tid = t} IN
          /\ fcall[t].at = "wait" => Cardinality(own) = 1 /\ \A i \in own : Mine(t, FUTEX_WAITERS[i])
          /\ fcall[t].at = "user" => own = {}
          /\ Cardinality(own) <= 1
    /\ \A i, j \in DOMAIN FUTEX_WAITERS :
          i < j /\ FUTEX_WAITERS[i].addr = FUTEX_WAITERS[j].addr /\ FUTEX_WAITERS[j].woken
              => FUTEX_WAITERS[i].woken

\* A wake that was counted for a thread makes its futex_wait return 0, unless
\* the thread was killed or had already used up its iterations.
WakeIsSeen ==
    [][\A t \in FutexThreads :
          fcall[t].at = "wait" /\ fcall'[t].at = "user"
            => (fret'[t] = 0 <=> fcall[t].told /\ fcall[t].looks > 0)]_fvars
=============================================================================
