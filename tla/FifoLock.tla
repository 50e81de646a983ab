------------------------------ MODULE FifoLock ------------------------------
(***************************************************************************)
(* What "Ticket lock: FIFO ordering" promises (src/src/locks.rs): threads  *)
(* enter in the order in which they asked, one at a time.                  *)
(***************************************************************************)
EXTENDS Naturals, Sequences

CONSTANT Contenders

VARIABLES
    line,    \* the threads that asked and have not unlocked, oldest first
    holder   \* the set of threads inside

fvars == <<line, holder>>

FInit == line = <<>> /\ holder = {}

Ask(t) ==
    /\ \A i \in 1 .. Len(line) : line[i] # t
    /\ line' = Append(line, t)
    /\ UNCHANGED holder

Enter(t) ==
    /\ line # <<>>
    /\ t = Head(line)
    /\ holder = {}
    /\ holder' = {t}
    /\ UNCHANGED line

Leave(t) ==
    /\ holder = {t}
    /\ holder' = {}
    /\ line' = Tail(line)

FNext == \E t \in Contenders : Ask(t) \/ Enter(t) \/ Leave(t)

FSpec == FInit /\ [][FNext]_fvars
=============================================================================
