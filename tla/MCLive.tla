------------------------------- MODULE MCLive -------------------------------
(***************************************************************************)
(* What must eventually happen, in four parts of the kernel, one at a      *)
(* time: `part` says which one a behaviour exercises.  "lock": threads at  *)
(* a ticket lock.  "tasks": background programs and kernel threads under   *)
(* the scheduler.  "signals": the queues of sighandler.rs with the calls   *)
(* it asks for.  "cluster": machines that exchange heartbeats.             *)
(***************************************************************************)
EXTENDS TicketLock

CONSTANTS SIGNAL_QUEUE_CAP, Sigs, Machines, Epochs, Timeout, MaxBoots, MaxNet

VARIABLES
    part,
    pid, state, rsp, CURRENT, NEXT_PID, cpu, ring3, frame0, sleeping, op, held, mode,
    tpid, alive, next_pid, PENDING, spid, handlers, pending, last,
    up, local_id, nodes, net, due, boots, stable

Tk == INSTANCE Task WITH MAX_TASKS <- 3, MaxPid <- 3, Commands <- {"bg"}
Sg == INSTANCE Signals WITH MAX_TASKS <- 2, MAX_TRACKED <- 1, MaxTask <- 2, Wired <- TRUE
Cl == INSTANCE Cluster

taskVars    == <<pid, state, rsp, CURRENT, NEXT_PID, cpu, ring3, frame0, sleeping, op, held, mode>>
signalVars  == <<tpid, alive, next_pid, PENDING, spid, handlers, pending, last>>
clusterVars == <<up, local_id, nodes, net, due, boots, stable>>
allvars     == <<part, lockvars, taskVars, signalVars, clusterVars>>

MCInit ==
    /\ part \in {"lock", "tasks", "signals", "cluster"}
    /\ TicketInit /\ Tk!Init /\ Sg!SignalsInit /\ Cl!Init

MCNext ==
    /\ UNCHANGED part
    /\ \/ part = "lock" /\ TicketNext /\ UNCHANGED <<taskVars, signalVars, clusterVars>>
       \/ part = "tasks" /\ Tk!Next /\ UNCHANGED <<lockvars, signalVars, clusterVars>>
       \/ part = "signals" /\ Sg!SignalsNext /\ UNCHANGED <<lockvars, taskVars, clusterVars>>
       \/ part = "cluster" /\ Cl!Next /\ UNCHANGED <<lockvars, taskVars, signalVars>>

\* The fairness of TicketFairSpec of TicketLock, FairSpec of Task, SignalsFairSpec
\* and Spec of Cluster, each for the behaviours that exercise the part.
Fairness ==
    /\ \A t \in Contenders : WF_lockvars(part = "lock" /\ Acquire(t)) /\ WF_lockvars(part = "lock" /\ Unlock(t))
    /\ SF_taskVars(part = "tasks" /\ Tk!Timer)
    /\ WF_taskVars(part = "tasks" /\ Tk!SleepLoop)
    /\ WF_taskVars(part = "tasks" /\ Tk!Cooperate)
    /\ \A p \in 0 .. 2 : WF_signalVars(part = "signals" /\ Sg!check_pending_signals(p))
    /\ WF_clusterVars(part = "cluster" /\ Cl!Settle)

MCSpec == MCInit /\ [][MCNext]_allvars /\ Fairness

-----------------------------------------------------------------------------
\* Scheduler: a ready slot is switched to.
ReadyRuns == Tk!ReadyRuns

\* Scheduler: SYS_SLEEP ends.
SleepersWake == Tk!SleepersWake

\* Signals: a queued signal of a live process is handled.
SignalsDrained == Sg!SignalsDrained

\* Cluster: once the network is stable, members find each other again.
MembersMeet == Cl!MembersMeet

\* Cluster: once the network is stable, nobody elects a leader that is gone.
LeaderIsAlive == Cl!LeaderIsAlive
=============================================================================
