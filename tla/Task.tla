-------------------------------- MODULE Task --------------------------------
(***************************************************************************)
(* The kernel task table and its scheduler: src/src/task.rs, with the      *)
(* timer and keyboard interrupt handlers that drive it                     *)
(* (src/src/interrupts.rs), the entry into ring 3 (src/src/process.rs) and *)
(* the one stack the CPU uses on every entry from ring 3 (src/src/gdt.rs). *)
(*                                                                         *)
(* There is one CPU.  A thread is named by the pid it was spawned with;    *)
(* thread 0 is the boot context.  What runs with interrupts disabled is    *)
(* one step: interrupt handlers (hence the shell commands, which run in    *)
(* the keyboard handler), system calls, and every spawned kernel thread,   *)
(* because context_switch does not restore RFLAGS and the first switch to  *)
(* a thread happens with the interrupt flag off.  Interrupts reach only    *)
(* thread 0 and the threads that have entered ring 3.                      *)
(***************************************************************************)
EXTENDS Integers, FiniteSets

CONSTANTS
    MAX_TASKS,   \* slots of the task table
    MaxPid,      \* bound: spawns after the first MaxPid do not happen
    Commands     \* the shell commands in use besides spawn, kill and ps

ASSUME MaxTasksAssumption == MAX_TASKS \in Nat /\ MAX_TASKS >= 2
ASSUME MaxPidAssumption   == MaxPid \in Nat
\* "bg" runs a user program as a task, "run" runs one in the shell's own
\* context, "edit" is any full-screen command (edit, vim, forth, chat) after
\* which the rest of the command line runs with interrupts enabled.
ASSUME CommandsAssumption == Commands \subseteq {"bg", "run", "edit"}

Slots   == 0 .. MAX_TASKS - 1
Threads == 0 .. MaxPid
NoOp    == [kind |-> "none", pid |-> 0]

VARIABLES
    pid,       \* TaskSlot::Occupied.pid (0 while the slot is Empty)
    state,     \* TaskState, or "Empty"
    rsp,       \* the thread whose saved context the slot's rsp points to
    CURRENT,   \* slot of the running task
    NEXT_PID,
    cpu,       \* the thread the CPU is executing
    ring3,     \* threads that have entered ring 3
    frame0,    \* the thread that last entered the kernel on the TSS stack
    sleeping,  \* threads in the SYS_SLEEP loop
    op,        \* task operation a thread is in, with interrupts enabled
    held,      \* cpu holds TASKS with interrupts enabled
    mode       \* "run", or how the CPU got stuck: "spin", "hlt", "lost"

table == <<pid, state, rsp, CURRENT>>
vars  == <<pid, state, rsp, CURRENT, NEXT_PID, cpu, ring3, frame0, sleeping,
           op, held, mode>>

(***************************************************************************)
(* After task::init: slot 0 is the boot context.                           *)
(***************************************************************************)
Init ==
    /\ pid      = [s \in Slots |-> 0]
    /\ state    = [s \in Slots |-> IF s = 0 THEN "Running" ELSE "Empty"]
    /\ rsp      = [s \in Slots |-> 0]
    /\ CURRENT  = 0
    /\ NEXT_PID = 1
    /\ cpu      = 0
    /\ ring3    = {}
    /\ frame0   = 0
    /\ sleeping = {}
    /\ op       = [t \in Threads |-> NoOp]
    /\ held     = FALSE
    /\ mode     = "run"

-----------------------------------------------------------------------------
(***************************************************************************)
(* yield_now and context_switch.                                           *)
(***************************************************************************)

\* Variant: the search always starts at slot 0.
Hops_from_zero(n) == n

\* The round-robin search starts one slot after CURRENT; CURRENT comes last.
Hops(n) == (n + MAX_TASKS - CURRENT - 1) % MAX_TASKS

\* Variant: the search accepts any occupied slot.
IsNext_occupied(st, n) ==
    /\ st[n] # "Empty"
    /\ \A m \in Slots : st[m] # "Empty" => Hops(n) <= Hops(m)

IsNext(st, n) ==
    /\ st[n] = "Ready"
    /\ \A m \in Slots : st[m] = "Ready" => Hops(n) <= Hops(m)

\* Entering the kernel from ring 3 pushes the frame at the top of the one
\* privilege stack of the TSS, whoever's frame was there.
Entered == IF cpu \in ring3 THEN cpu ELSE frame0

\* A thread suspended in the kernel after it came from ring 3 left its frames
\* on that stack; every other thread is suspended on its own stack.
Intact(t) == t \in ring3 => Entered = t

\* Variant: CURRENT is stored before old_rsp is taken from its slot.
context_switch_swapped(n) ==
    /\ rsp'     = [rsp EXCEPT ![n] = cpu]
    /\ CURRENT' = n
    /\ cpu'     = rsp[n]
    /\ mode'    = "run"

context_switch(n) ==
    /\ rsp'     = [rsp EXCEPT ![CURRENT] = cpu]
    /\ CURRENT' = n
    /\ cpu'     = rsp[n]
    /\ mode'    = IF Intact(rsp[n]) THEN "run" ELSE "lost"

\* Variant: the task that is left keeps its state.
yield_now_no_demotion(st, stays) ==
    \/ \E n \in Slots \ {CURRENT} :
          /\ IsNext(st, n)
          /\ state' = [st EXCEPT ![n] = "Running"]
          /\ context_switch(n)
    \/ /\ \A n \in Slots \ {CURRENT} : st[n] # "Ready"
       /\ state' = st
       /\ mode'  = stays
       /\ UNCHANGED <<rsp, CURRENT, cpu>>

\* Variant: the search leaves out slot 0, as the one of spawn does.
yield_now_skips_kernel(st, stays) ==
    \/ \E n \in Slots \ {CURRENT, 0} :
          /\ IsNext([st EXCEPT ![0] = "Running"], n)
          /\ state' = [st EXCEPT
                          ![CURRENT] = IF @ = "Running" THEN "Ready" ELSE @,
                          ![n] = "Running"]
          /\ context_switch(n)
    \/ /\ \A n \in Slots \ {CURRENT, 0} : st[n] # "Ready"
       /\ state' = st
       /\ mode'  = stays
       /\ UNCHANGED <<rsp, CURRENT, cpu>>

\* st is the table's state column as the caller leaves it; stays is the mode
\* of a caller to which yield_now returns without a switch.
yield_now(st, stays) ==
    \/ \E n \in Slots \ {CURRENT} :
          /\ IsNext(st, n)
          /\ state' = [st EXCEPT
                          ![CURRENT] = IF @ = "Running" THEN "Ready" ELSE @,
                          ![n] = "Running"]
          /\ context_switch(n)
    \/ /\ \A n \in Slots \ {CURRENT} : st[n] # "Ready"
       /\ state' = st
       /\ mode'  = stays
       /\ UNCHANGED <<rsp, CURRENT, cpu>>

-----------------------------------------------------------------------------
(***************************************************************************)
(* The table operations, as they run inside the TASKS lock.                *)
(***************************************************************************)
Free(s) == s # 0 /\ state[s] \in {"Empty", "Finished"}

\* The scan of spawn: the first free slot after slot 0, or nothing (the pid
\* is used up either way).
insert(p) ==
    \/ \E s \in Slots :
          /\ Free(s)
          /\ \A r \in Slots : Free(r) => s <= r
          /\ pid'   = [pid EXCEPT ![s] = p]
          /\ state' = [state EXCEPT ![s] = "Ready"]
          /\ rsp'   = [rsp EXCEPT ![s] = p]
    \/ /\ \A s \in Slots : ~Free(s)
       /\ UNCHANGED <<pid, state, rsp>>

Alive(s, p) == pid[s] = p /\ state[s] \in {"Ready", "Running"}

\* The scan of kill.  (kill(0) is refused before the lock is taken.)
finish(p) ==
    /\ state' = [s \in Slots |-> IF Alive(s, p) THEN "Finished" ELSE state[s]]
    /\ UNCHANGED <<pid, rsp>>

-----------------------------------------------------------------------------
(***************************************************************************)
(* Steps of the running thread.                                            *)
(***************************************************************************)
Running == mode = "run" /\ cpu \notin sleeping /\ op[cpu] = NoOp

\* A kernel thread or a system call (SYS_YIELD) yields.
Yield ==
    /\ Running
    /\ yield_now(state, "run")
    /\ frame0' = Entered
    /\ UNCHANGED <<pid, NEXT_PID, ring3, sleeping, op, held>>

\* task_wrapper and SYS_EXIT.  exit never returns: if yield_now does, it
\* halts, with interrupts disabled.
Exit ==
    /\ Running
    /\ cpu # 0 \/ 0 \in ring3
    /\ yield_now([state EXCEPT ![CURRENT] = "Finished"], "hlt")
    /\ frame0' = Entered
    /\ UNCHANGED <<pid, NEXT_PID, ring3, sleeping, op, held>>

\* enter_ring3 turns interrupts on.  The task of a background program does it
\* on its own stack, the command "run" on the stack of the keyboard handler.
EnterRing3 ==
    /\ Running
    /\ cpu \notin ring3
    /\ IF cpu = 0 THEN "run" \in Commands ELSE "bg" \in Commands
    /\ ring3' = ring3 \cup {cpu}
    /\ UNCHANGED <<table, NEXT_PID, cpu, frame0, sleeping, op, held, mode>>

\* SYS_SLEEP: read the tick counter, then loop on yield_now until it moved.
Sleep ==
    /\ Running
    /\ cpu \in ring3
    /\ sleeping' = sleeping \cup {cpu}
    /\ frame0'   = cpu
    /\ UNCHANGED <<table, NEXT_PID, cpu, ring3, op, held, mode>>

SleepLoop ==
    /\ mode = "run"
    /\ cpu \in sleeping
    /\ yield_now(state, "run")
    /\ UNCHANGED <<pid, NEXT_PID, ring3, frame0, sleeping, op, held>>

-----------------------------------------------------------------------------
(***************************************************************************)
(* Interrupts.  They are taken between two instructions of a thread that   *)
(* runs with interrupts enabled.                                           *)
(***************************************************************************)
Interruptible == mode = "run" /\ cpu \notin sleeping /\ (cpu = 0 \/ cpu \in ring3)

\* The handler wants the lock that the code it interrupted holds.
SpinOnTasks ==
    /\ mode' = "spin"
    /\ UNCHANGED <<table, NEXT_PID, cpu, ring3, sleeping, op, held>>

timer_tick ==
    IF \E s \in Slots \ {CURRENT} : state[s] = "Ready"
    THEN yield_now(state, "run")
    ELSE UNCHANGED <<state, rsp, CURRENT, cpu, mode>>

\* timer_handler: the tick counter, then timer_tick.
Timer ==
    /\ Interruptible
    /\ frame0' = Entered
    /\ IF held THEN SpinOnTasks
       ELSE /\ timer_tick
            /\ sleeping' = {}
            /\ UNCHANGED <<pid, NEXT_PID, ring3, op, held>>

\* keyboard_handler running a command line: "spawn" (or "bg").
SpawnCommand ==
    /\ Interruptible
    /\ NEXT_PID <= MaxPid
    /\ frame0'   = Entered
    /\ IF held THEN SpinOnTasks
       ELSE /\ insert(NEXT_PID)
            /\ NEXT_PID' = NEXT_PID + 1
            /\ UNCHANGED <<CURRENT, cpu, ring3, sleeping, op, held, mode>>

\* Variant: kill without the check for pid 0.
KillCommand_any(p) ==
    /\ Interruptible
    /\ frame0' = Entered
    /\ IF held THEN SpinOnTasks
       ELSE /\ finish(p)
            /\ UNCHANGED <<CURRENT, NEXT_PID, cpu, ring3, sleeping, op, held, mode>>

\* keyboard_handler running "kill p", or SYS_KILL of a ring 3 thread.
KillCommand(p) ==
    /\ Interruptible
    /\ p # 0
    /\ frame0' = Entered
    /\ IF held THEN SpinOnTasks
       ELSE /\ finish(p)
            /\ UNCHANGED <<CURRENT, NEXT_PID, cpu, ring3, sleeping, op, held, mode>>

-----------------------------------------------------------------------------
(***************************************************************************)
(* The rest of a command line after a full-screen command: the same        *)
(* operations, with interrupts enabled.                                    *)
(***************************************************************************)
Chained == "edit" \in Commands /\ Interruptible /\ ~held

\* Variant: the pid is read, and NEXT_PID not advanced with it.
BeginSpawn_load ==
    /\ Chained
    /\ op[cpu] = NoOp
    /\ NEXT_PID <= MaxPid
    /\ op' = [op EXCEPT ![cpu] = [kind |-> "spawn", pid |-> NEXT_PID]]
    /\ UNCHANGED <<table, NEXT_PID, cpu, ring3, frame0, sleeping, held, mode>>

\* spawn takes its pid before it takes the lock.
BeginSpawn ==
    /\ Chained
    /\ op[cpu] = NoOp
    /\ NEXT_PID <= MaxPid
    /\ op' = [op EXCEPT ![cpu] = [kind |-> "spawn", pid |-> NEXT_PID]]
    /\ NEXT_PID' = NEXT_PID + 1
    /\ UNCHANGED <<table, cpu, ring3, frame0, sleeping, held, mode>>

BeginKill(p) ==
    /\ Chained
    /\ op[cpu] = NoOp
    /\ p # 0
    /\ op' = [op EXCEPT ![cpu] = [kind |-> "kill", pid |-> p]]
    /\ UNCHANGED <<table, NEXT_PID, cpu, ring3, frame0, sleeping, held, mode>>

LockTasks ==
    /\ Chained
    /\ op[cpu] # NoOp
    /\ held' = TRUE
    /\ UNCHANGED <<table, NEXT_PID, cpu, ring3, frame0, sleeping, op, mode>>

UnlockTasks ==
    /\ mode = "run"
    /\ held
    /\ \/ op[cpu].kind = "spawn" /\ insert(op[cpu].pid)
       \/ op[cpu].kind = "kill" /\ finish(op[cpu].pid)
    /\ op'   = [op EXCEPT ![cpu] = NoOp]
    /\ held' = FALSE
    /\ UNCHANGED <<CURRENT, NEXT_PID, cpu, ring3, frame0, sleeping, mode>>

\* A handler spinning on TASKS, the hlt loop of exit, and the execution of a
\* destroyed context: none of them gives the CPU back.
Stuck ==
    /\ mode # "run"
    /\ UNCHANGED vars

Next ==
    \/ Yield \/ Exit \/ EnterRing3 \/ Sleep \/ SleepLoop
    \/ Timer \/ SpawnCommand \/ BeginSpawn \/ LockTasks \/ UnlockTasks
    \/ \E p \in Threads : KillCommand(p) \/ BeginKill(p)
    \/ Stuck

Spec == Init /\ [][Next]_vars

\* The PIT fires every 10 ms.  Thread 0 waits in hlt between two key presses,
\* and no command yields for ever, so a tick cannot miss it again and again:
\* strong fairness.  A system call runs on by itself.
TimerSpec == Spec /\ SF_vars(Timer) /\ WF_vars(SleepLoop)

\* Moreover every spawned kernel thread yields or returns again and again, as
\* the demo, producer and consumer tasks do.
Cooperate == (cpu # 0 /\ Yield) \/ Exit
FairSpec  == TimerSpec /\ WF_vars(Cooperate)
-----------------------------------------------------------------------------
(***************************************************************************)
(* Properties.                                                             *)
(***************************************************************************)

\* The columns of the task table, CURRENT and the CPU's state have their types;
\* only a thread that entered ring 3 is in SYS_SLEEP.
TypeOK ==
    /\ pid \in [Slots -> Threads]
    /\ state \in [Slots -> {"Empty", "Ready", "Running", "Finished"}]
    /\ rsp \in [Slots -> Threads]
    /\ CURRENT \in Slots
    /\ NEXT_PID \in 1 .. MaxPid + 1
    /\ cpu \in Threads
    /\ ring3 \subseteq Threads
    /\ frame0 \in Threads
    /\ sleeping \subseteq ring3
    /\ op \in [Threads -> [kind : {"none", "spawn", "kill"}, pid : Threads]]
    /\ held \in BOOLEAN
    /\ mode \in {"run", "spin", "hlt", "lost"}

\* The table never shows two tasks running, nor one that is not CURRENT:
\* yield_now demotes the task it leaves, kill and exit overwrite the state of
\* the running task, and spawn reuses its slot, all without breaking this.
OnlyCurrentRuns == \A s \in Slots : state[s] = "Running" => s = CURRENT

\* Unless a program was run in the boot task's own context, the boot task is
\* waiting to be scheduled whenever another task runs, so that exit always
\* finds a task to switch to.
BootTaskReady ==
    /\ CURRENT # 0 => state[0] = "Ready"
    /\ CURRENT = 0 => state[0] = "Running"
KernelSchedulable == 0 \notin ring3 => BootTaskReady

\* No two slots carry the same pid, and none carries one that an unfinished
\* spawn still holds: kill(p) can mean only one task.
PidsUnique ==
    /\ \A s, r \in Slots : s # r /\ pid[s] = pid[r] => pid[s] = 0
    /\ \A s \in Slots, t \in Threads :
          op[t].kind = "spawn" => pid[s] # op[t].pid

\* The CPU runs the thread that CURRENT's slot names, and the context saved
\* in a slot that waits for the CPU is that of the slot's own thread:
\* yield_now stores rsp into the slot CURRENT names when it switches.
SlotOwnsContext ==
    /\ pid[CURRENT] = cpu
    /\ \A s \in Slots \ {CURRENT} : state[s] = "Ready" => rsp[s] = pid[s]

\* A thread that is off the CPU and that the table does not list as alive
\* (killed, or exited) never gets the CPU again.
DeadThreadsStayOff ==
    [][\A p \in Threads :
          p # cpu /\ (\A s \in Slots : ~Alive(s, p)) => p # cpu']_vars

\* A slot that is ready to run is switched to, unless its task is killed first
\* or the CPU resumed an overwritten context: the round-robin search of
\* yield_now starves no slot.
ReadyRuns ==
    \A s \in Slots : state[s] = "Ready" ~> (state[s] # "Ready" \/ mode = "lost")

\* SYS_SLEEP ends: its loop runs with interrupts disabled, so the tick counter
\* moves only if yield_now reaches a thread that can be interrupted.
SleepersWake ==
    \A t \in Threads : t \in sleeping ~> (t \notin sleeping \/ mode = "lost")

(***************************************************************************)
(* What the comments and documents of the repository say.                  *)
(***************************************************************************)

\* task.rs: "The timer interrupt also triggers a preemptive yield every time
\* slice": the handler reaches the end of timer_tick.
TimerTickReturns == mode # "spin"

\* task.rs: "The timer interrupt also triggers a preemptive yield every time
\* slice": a thread does not keep the CPU while another task is ready.
Preempted ==
    \A p \in Threads :
        (cpu = p /\ \E s \in Slots \ {CURRENT} : state[s] = "Ready") ~> cpu # p

\* task.rs, on context_switch: "new_rsp must point to a valid saved context".
ResumesSavedContext == mode # "lost"

\* task.rs, on _stack: "Keep the stack allocation alive": the thread the CPU
\* runs still has its slot, hence its stack.
StackKeptAlive == \E s \in Slots : pid[s] = cpu /\ state[s] # "Empty"

\* task.rs, on the hlt loop of exit: "Should not reach here".
ExitSwitchesAway == mode # "hlt"

\* syscall-reference.md: the call "sleep" with argument "ticks" returns 0.
SleepReturns == \A t \in Threads : t \in sleeping ~> t \notin sleeping
=============================================================================
