------------------------------ MODULE Signals ------------------------------
(***************************************************************************)
(* Signals: the shell's send_signal (src/src/signal.rs), the handler table *)
(* and queues behind SYS_KILL and SYS_SIGACTION (src/src/sighandler.rs),   *)
(* over the task table they act on (src/src/task.rs, see module Task).     *)
(*                                                                         *)
(* sighandler.rs asks its callers for two calls that the kernel does not   *)
(* make: check_pending_signals on every tick and cleanup when a process    *)
(* exits.  With Wired = FALSE this is the kernel as it is; with Wired =    *)
(* TRUE the calls are made, which shows what the module itself provides.   *)
(***************************************************************************)
EXTENDS Integers, Sequences, FiniteSets

CONSTANTS
    MAX_TASKS,         \* task slots, and words of PENDING
    MAX_TRACKED,       \* MAX_PROCESSES of sighandler.rs: slots of the handler table
    SIGNAL_QUEUE_CAP,
    MaxTask,           \* bound: tasks spawned
    Sigs,              \* the signals in use, of KILL, USR1, TERM and STOP
    Wired

\* SIGCONT (18) takes the paths of SIGSTOP in both files, SIGINT and SIGUSR2
\* those of SIGUSR1.
MAX_SIGNALS == 16
SigNo   == [KILL |-> 9, USR1 |-> 10, TERM |-> 15, STOP |-> 19]
Queued  == Sigs \cap {"USR1", "TERM"}      \* the ones that reach the queue
TaskIds == 0 .. MaxTask
TSlots  == 0 .. MAX_TASKS - 1
PSlots  == 0 .. MAX_TRACKED - 1
NoCall  == [op |-> "none", pid |-> 0, sig |-> "KILL", ok |-> TRUE]

VARIABLES
    tpid,      \* the pid in each task slot
    alive,     \* task slots that are neither Empty nor Finished
    next_pid,
    PENDING,   \* signal.rs: the words in which a bit is set
    spid,      \* ProcessSignalState.pid
    handlers,  \* ProcessSignalState.handlers, of the queued signals
    pending,   \* ProcessSignalState.pending
    last       \* the latest call, and whether it returned Ok

tasks == <<tpid, alive, next_pid>>
state == <<spid, handlers, pending>>
sgvars == <<tpid, alive, next_pid, PENDING, spid, handlers, pending, last>>

Default == [g \in Queued |-> "Default"]

SignalsInit ==
    /\ tpid     = [s \in TSlots |-> 0]
    /\ alive    = {0}
    /\ next_pid = 1
    /\ PENDING  = {}
    /\ spid     = [i \in PSlots |-> 0]
    /\ handlers = [i \in PSlots |-> Default]
    /\ pending  = [i \in PSlots |-> <<>>]
    /\ last     = NoCall

-----------------------------------------------------------------------------
(***************************************************************************)
(* The task table.                                                         *)
(***************************************************************************)
\* task::spawn: the first free slot, or none; the pid is used up either way.
Spawn ==
    /\ next_pid <= MaxTask
    /\ \/ \E s \in TSlots \ alive :
             /\ \A r \in TSlots \ alive : s <= r
             /\ tpid'  = [tpid EXCEPT ![s] = next_pid]
             /\ alive' = alive \cup {s}
       \/ TSlots = alive /\ UNCHANGED <<tpid, alive>>
    /\ next_pid' = next_pid + 1
    /\ last'     = NoCall
    /\ UNCHANGED <<PENDING, state>>

AlivePids == {tpid[s] : s \in alive}

\* Variant: task::kill without the check for pid 0.
KillTask_any(p) == {s \in alive : tpid[s] = p}

\* task::kill: nothing happens to pid 0 or to a task that is not alive.
KillTask(p) == {s \in alive : p # 0 /\ tpid[s] = p}

cleaned(p) == {i \in PSlots : Wired /\ p # 0 /\ spid[i] = p}

\* sighandler::cleanup of the process.
cleanup(p) ==
    /\ spid'     = [i \in PSlots |-> IF i \in cleaned(p) THEN 0 ELSE spid[i]]
    /\ handlers' = [i \in PSlots |-> IF i \in cleaned(p) THEN Default ELSE handlers[i]]
    /\ pending'  = [i \in PSlots |-> IF i \in cleaned(p) THEN <<>> ELSE pending[i]]

\* A task returns or calls task::exit.
Exit(p) ==
    /\ p # 0 /\ p \in AlivePids
    /\ alive' = alive \ KillTask(p)
    /\ cleanup(p)
    /\ last' = [op |-> "exit", pid |-> p, sig |-> "KILL", ok |-> TRUE]
    /\ UNCHANGED <<tpid, next_pid, PENDING>>

-----------------------------------------------------------------------------
(***************************************************************************)
(* signal.rs: the shell command "signal p g".                              *)
(***************************************************************************)

\* task::list leaves out the slots that are not alive, and send_signal uses
\* the position in that list as the index into PENDING.
ListIndex(p) == Cardinality({s \in alive : \A r \in KillTask(p) : s < r})

send_signal(p, g) ==
    LET found == p # 0 /\ p \in AlivePids
        dies  == found /\ g \in {"KILL", "TERM"}
    IN /\ last'  = [op |-> "signal", pid |-> p, sig |-> g, ok |-> found /\ g # "USR1"]
       /\ alive' = IF dies THEN alive \ KillTask(p) ELSE alive
       /\ PENDING' = IF found /\ g = "STOP"
                     THEN PENDING \cup {ListIndex(p)}
                     ELSE PENDING
       /\ IF dies THEN cleanup(p) ELSE UNCHANGED state
       /\ UNCHANGED <<tpid, next_pid>>

-----------------------------------------------------------------------------
(***************************************************************************)
(* sighandler.rs.                                                          *)
(***************************************************************************)
InRange(g) == SigNo[g] <= MAX_SIGNALS

\* Variant: a free slot is taken before the table is searched for the pid.
slot_for_free_first(p) ==
    {i \in PSlots : spid[i] = 0 /\ \A j \in PSlots : spid[j] = 0 => i <= j}

\* slot_for: the slot of p, else the first free one, else none.  For p = 0 the
\* first free slot passes for the slot of the process.
slot_for(p) ==
    LET own  == {i \in PSlots : spid[i] = p}
        free == {i \in PSlots : spid[i] = 0}
        cand == IF own # {} THEN own ELSE free
    IN {i \in cand : \A j \in cand : i <= j}

\* SYS_SIGACTION: register_handler for the calling task.
register_handler(p, g, h) ==
    /\ p \in AlivePids
    /\ LET i == slot_for(p)
       IN /\ last' = [op |-> "sigaction", pid |-> p, sig |-> "KILL", ok |-> i # {}]
          /\ spid'     = [k \in PSlots |-> IF k \in i THEN p ELSE spid[k]]
          /\ handlers' = [k \in PSlots |-> IF k \in i THEN [handlers[k] EXCEPT ![g] = h]
                                           ELSE handlers[k]]
    /\ UNCHANGED <<tasks, PENDING, pending>>

Push(q, g) == IF Len(q) < SIGNAL_QUEUE_CAP THEN Append(q, g) ELSE q

\* SYS_KILL: deliver_signal.  SIGSTOP, SIGCONT and SIGCHLD are refused by the
\* range check, before the code that handles them.
deliver_signal(p, g) ==
    LET i    == slot_for(p)
        kill == g = "KILL"
        ok   == InRange(g) /\ (kill \/ i # {})
        push == ok /\ ~kill
    IN /\ last'    = [op |-> "kill", pid |-> p, sig |-> g, ok |-> ok]
       /\ alive'   = IF ok /\ kill THEN alive \ KillTask(p) ELSE alive
       /\ IF ok /\ kill
          THEN cleanup(p)
          ELSE /\ spid'    = [k \in PSlots |-> IF push /\ k \in i THEN p ELSE spid[k]]
               /\ pending' = [k \in PSlots |-> IF push /\ k \in i THEN Push(pending[k], g)
                                               ELSE pending[k]]
               /\ UNCHANGED handlers
       /\ UNCHANGED <<tpid, next_pid, PENDING>>

\* dispatch_default terminates the process for every signal that gets here.
fatal(i) ==
    {g \in Queued : handlers[i][g] = "Default"
                    /\ \E n \in DOMAIN pending[i] : pending[i][n] = g}

\* Variant: the queue is walked and not drained.
check_pending_signals_iter(p) ==
    /\ Wired
    /\ p \in AlivePids
    /\ \E i \in PSlots :
          /\ spid[i] = p /\ p # 0 /\ pending[i] # <<>>
          /\ IF fatal(i) # {}
             THEN alive' = alive \ KillTask(p) /\ cleanup(p)
             ELSE UNCHANGED <<alive, state>>
    /\ last' = [op |-> "check", pid |-> p, sig |-> "KILL", ok |-> TRUE]
    /\ UNCHANGED <<tpid, next_pid, PENDING>>

\* check_pending_signals, from the timer handler: the queue is drained, and
\* every signal in it handled.
check_pending_signals(p) ==
    /\ Wired
    /\ p \in AlivePids
    /\ \E i \in PSlots :
          /\ spid[i] = p /\ p # 0 /\ pending[i] # <<>>
          /\ IF fatal(i) # {}
             THEN /\ alive' = alive \ KillTask(p)
                  /\ cleanup(p)
             ELSE /\ pending' = [pending EXCEPT ![i] = <<>>]
                  /\ UNCHANGED <<alive, spid, handlers>>
    /\ last' = [op |-> "check", pid |-> p, sig |-> "KILL", ok |-> TRUE]
    /\ UNCHANGED <<tpid, next_pid, PENDING>>

SignalsNext ==
    \/ Spawn
    \/ \E p \in TaskIds :
          \/ Exit(p) \/ check_pending_signals(p)
          \/ \E g \in Sigs : send_signal(p, g) \/ deliver_signal(p, g)
          \/ \E g \in Queued, h \in {"Default", "Ignore"} : register_handler(p, g, h)

SignalsSpec == SignalsInit /\ [][SignalsNext]_sgvars

\* The timer handler runs again and again.
SignalsFairSpec == SignalsSpec /\ \A p \in TaskIds : WF_sgvars(check_pending_signals(p))

-----------------------------------------------------------------------------
(***************************************************************************)
(* Properties.                                                             *)
(***************************************************************************)

\* The tables have their types and no queue exceeds SIGNAL_QUEUE_CAP.
SignalsTypeOK ==
    /\ tpid \in [TSlots -> TaskIds]
    /\ alive \subseteq TSlots
    /\ next_pid \in 1 .. MaxTask + 1
    /\ PENDING \subseteq TSlots
    /\ spid \in [PSlots -> TaskIds]
    /\ handlers \in [PSlots -> [Queued -> {"Default", "Ignore"}]]
    /\ \A i \in PSlots : pending[i] \in Seq(Queued) /\ Len(pending[i]) <= SIGNAL_QUEUE_CAP
    /\ last \in [op : {"none", "exit", "signal", "sigaction", "kill", "check"},
                 pid : TaskIds, sig : DOMAIN SigNo, ok : BOOLEAN]

\* A process never has two slots of the handler table, so a handler it
\* registered is the one that its queue is dispatched with.
TrackedOnce ==
    \A i, j \in PSlots : i # j /\ spid[i] = spid[j] => spid[i] = 0

\* send_signal, deliver_signal and check_pending_signals end only the task
\* they name, and never the kernel task.
OnlyTargetDies ==
    [][\A s \in alive : s \notin alive' =>
          tpid[s] = last'.pid /\ s # 0]_sgvars

\* sighandler.rs: "The scheduler calls check_pending_signals on every tick to
\* drain each task's queue."  A queued signal of a live process is handled.
SignalsDrained ==
    \A i \in PSlots :
        (spid[i] # 0 /\ spid[i] \in AlivePids /\ pending[i] # <<>>)
            ~> (spid[i] = 0 \/ spid[i] \notin AlivePids \/ pending[i] = <<>>)

(***************************************************************************)
(* What the comments say, and the code does not do.                        *)
(***************************************************************************)

\* sighandler.rs, on ProcessSignalState: "Per-process signal configuration:
\* handler table + pending queue": a process that gets a slot starts with no
\* more than the signal, or the handler, that got it the slot.
FreshSlot ==
    [][\A i \in PSlots : spid[i] = 0 /\ spid'[i] # 0 =>
          pending'[i] \in {<<>>, <<last'.sig>>}]_sgvars

\* sighandler.rs, on deliver_signal: "For uncatchable signals the kernel acts
\* immediately.": SIGSTOP is not refused.
StopIsAccepted == last.op = "kill" /\ last.sig = "STOP" => last.ok

\* sighandler.rs, on deliver_signal: "the signal is pushed onto the process's
\* pending queue": a call that returned Ok left the signal in the queue.
OkMeansQueued ==
    last.op = "kill" /\ last.ok /\ last.sig # "KILL" =>
        \E i \in PSlots : spid[i] = last.pid /\ \E n \in DOMAIN pending[i] :
            pending[i][n] = last.sig

\* sighandler.rs: MAX_PROCESSES is the "Maximum number of concurrent processes
\* the handler table tracks.": the table is full only of live processes.
FullOfLive ==
    (\A i \in PSlots : spid[i] # 0) => \A i \in PSlots : spid[i] \in AlivePids

\* signal.rs: "Pending signals per task slot (bitmask).": the bit for a task is
\* set in the word of the task's slot.
BitInItsSlot ==
    [][\A s \in PENDING' \ PENDING : tpid[s] = last'.pid]_sgvars
=============================================================================
