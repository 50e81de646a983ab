----------------------------- MODULE TicketLock -----------------------------
(***************************************************************************)
(* The ticket lock of src/src/locks.rs.  lock() takes a ticket with one    *)
(* fetch_add and spins until now_serving reaches it; unlock() advances     *)
(* now_serving.  Both counters are machine words that wrap at Wrap (2^64   *)
(* in the code).  A thread unlocks only a lock it holds, as every caller   *)
(* in the kernel does; unlock() itself does not check.                     *)
(***************************************************************************)
EXTENDS Integers, FiniteSets, Sequences

CONSTANTS
    Contenders,
    Wrap      \* the counters count modulo Wrap

ASSUME ContendersAssumption == IsFiniteSet(Contenders)
ASSUME WrapAssumption    == Wrap \in Nat /\ Cardinality(Contenders) < Wrap

VARIABLES
    next_ticket,
    now_serving,
    ticket,       \* the ticket each thread took last
    pc            \* "idle", "wait" (spinning in lock) or "in"

lockvars == <<next_ticket, now_serving, ticket, pc>>

Tickets == 0 .. Wrap - 1

TicketInit ==
    /\ next_ticket = 0
    /\ now_serving = 0
    /\ ticket = [t \in Contenders |-> 0]
    /\ pc     = [t \in Contenders |-> "idle"]

\* Variant: the ticket is read and then stored back, so that two threads can
\* be handed the same one.
Take_not_atomic(t) ==
    /\ pc[t] = "idle"
    /\ \E old \in {next_ticket, (next_ticket + Wrap - 1) % Wrap} :
          /\ ticket' = [ticket EXCEPT ![t] = old]
          /\ next_ticket' = (old + 1) % Wrap
    /\ pc' = [pc EXCEPT ![t] = "wait"]
    /\ UNCHANGED now_serving

\* The fetch_add of lock().
Take(t) ==
    /\ pc[t] = "idle"
    /\ ticket' = [ticket EXCEPT ![t] = next_ticket]
    /\ next_ticket' = (next_ticket + 1) % Wrap
    /\ pc' = [pc EXCEPT ![t] = "wait"]
    /\ UNCHANGED now_serving

\* Variant: a waiter gets in whenever nobody is inside, as with Spinlock.
Acquire_barges(t) ==
    /\ pc[t] = "wait"
    /\ \A u \in Contenders : pc[u] # "in"
    /\ pc' = [pc EXCEPT ![t] = "in"]
    /\ UNCHANGED <<next_ticket, now_serving, ticket>>

\* The load in the spin loop of lock() sees the thread's own ticket.
Acquire(t) ==
    /\ pc[t] = "wait"
    /\ now_serving = ticket[t]
    /\ pc' = [pc EXCEPT ![t] = "in"]
    /\ UNCHANGED <<next_ticket, now_serving, ticket>>

\* unlock().
Unlock(t) ==
    /\ pc[t] = "in"
    /\ now_serving' = (now_serving + 1) % Wrap
    /\ pc' = [pc EXCEPT ![t] = "idle"]
    /\ UNCHANGED <<next_ticket, ticket>>

TicketNext == \E t \in Contenders : Take(t) \/ Acquire(t) \/ Unlock(t)

TicketSpec == TicketInit /\ [][TicketNext]_lockvars

\* Spinning threads run, and critical sections end; nobody has to ask.
TicketFairSpec == TicketSpec /\ \A t \in Contenders : WF_lockvars(Acquire(t)) /\ WF_lockvars(Unlock(t))

-----------------------------------------------------------------------------
\* Both counters and every ticket are words below Wrap.
TicketTypeOK ==
    /\ next_ticket \in Tickets
    /\ now_serving \in Tickets
    /\ ticket \in [Contenders -> Tickets]
    /\ pc \in [Contenders -> {"idle", "wait", "in"}]

\* At most one thread is between lock() and unlock(), also after the counters
\* have wrapped.
MutualExclusion == \A t, u \in Contenders : pc[t] = "in" /\ pc[u] = "in" => t = u

Pending == {t \in Contenders : pc[t] # "idle"}

\* How many turns a ticket is away from being served, across the wrap.
Turns(n) == IF n >= now_serving THEN n - now_serving ELSE n + Wrap - now_serving

\* The tickets in use are exactly the window from now_serving to next_ticket,
\* one per pending thread, and the thread inside holds the one being served.
Window ==
    /\ Turns(next_ticket) = Cardinality(Pending)
    /\ \A t \in Pending : Turns(ticket[t]) < Cardinality(Pending)
    /\ \A t, u \in Pending : ticket[t] = ticket[u] => t = u
    /\ \A t \in Pending : pc[t] = "in" => ticket[t] = now_serving

Line == [i \in 1 .. Cardinality(Pending) |->
            CHOOSE t \in Pending : Turns(ticket[t]) = i - 1]

Queue == INSTANCE FifoLock WITH
    line <- Line, holder <- {t \in Contenders : pc[t] = "in"}

\* "Ticket lock: FIFO ordering": threads enter in the order of their fetch_add.
FifoOrder == Queue!FSpec

\* "prevents starvation": a thread that took a ticket enters.
NoStarvation == \A t \in Contenders : pc[t] = "wait" ~> pc[t] = "in"
=============================================================================
