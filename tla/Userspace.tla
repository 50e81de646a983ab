------------------------------ MODULE Userspace ------------------------------
(***************************************************************************)
(* User processes: the process table of src/src/userspace.rs and the       *)
(* globals around it (CURRENT_PID, PENDING_USER_PID, KERNEL_CR3), the      *)
(* shell commands that start and kill processes, the system calls exit,    *)
(* exec, fork and clone, and the page fault handler.                       *)
(*                                                                         *)
(* A context is a slot of the task table; context 0 is the boot task, in   *)
(* which the shell waits.  The scheduler (module Task) may switch to any   *)
(* live context whenever the running one can be interrupted.  A page table *)
(* is named by the process it was made for, the kernel's is 0.  Of memory  *)
(* only the text pages are kept: whose program is mapped at TEXT_BASE.     *)
(***************************************************************************)
EXTENDS Integers, FiniteSets

CONSTANTS
    MAX_PROCESSES,  \* slots of the process table
    MaxContexts,    \* slots of the task table
    MaxPid,         \* bound: processes created before NEXT_PID passes it
    Calls           \* the commands and system calls in use

ASSUME UserLimits == MAX_PROCESSES \in Nat \ {0} /\ MaxContexts \in Nat \ {0}
ASSUME UserBounds == MaxPid \in Nat
ASSUME CallsAssumption ==
    Calls \subseteq {"run", "isolated", "spawn", "kill", "exec", "fork", "fault", "nomem"}

Slots    == 0 .. MAX_PROCESSES - 1
Contexts == 0 .. MaxContexts - 1
Pids     == 0 .. MaxPid
KernelPT == 0
NoCr3    == -1
Gone     == [phase |-> "none", pid |-> 0]

VARIABLES
    upid,              \* UserProcess.pid (0: the slot is None)
    ustate,            \* UserProcess.state
    exit_code,         \* UserProcess.exit_code
    page_table,        \* UserProcess.page_table_phys (0: none of its own)
    NEXT_PID,
    CURRENT_PID,
    PENDING_USER_PID,
    KERNEL_CR3,
    cr3,               \* the page table the CPU uses
    text,              \* per page table: whose program is at TEXT_BASE
    ctx,               \* what each context executes
    cpu,               \* the context on the CPU
    mode               \* "run", "hlt", or which panic was reached

procs   == <<upid, ustate, exit_code, page_table>>
globals == <<CURRENT_PID, KERNEL_CR3, cr3>>
vars    == <<upid, ustate, exit_code, page_table, NEXT_PID, CURRENT_PID,
             PENDING_USER_PID, KERNEL_CR3, cr3, text, ctx, cpu, mode>>

Init ==
    /\ upid             = [s \in Slots |-> 0]
    /\ ustate           = [s \in Slots |-> "Ready"]
    /\ exit_code        = [s \in Slots |-> "none"]
    /\ page_table       = [s \in Slots |-> 0]
    /\ NEXT_PID         = 1
    /\ CURRENT_PID      = 0
    /\ PENDING_USER_PID = 0
    /\ KERNEL_CR3       = NoCr3
    /\ cr3              = KernelPT
    /\ text             = [p \in Pids |-> 0]
    /\ ctx              = [t \in Contexts |->
                              IF t = 0 THEN [phase |-> "shell", pid |-> 0] ELSE Gone]
    /\ cpu              = 0
    /\ mode             = "run"

-----------------------------------------------------------------------------
(***************************************************************************)
(* The table.                                                              *)
(***************************************************************************)
Listed(p)   == p # 0 /\ \E s \in Slots : upid[s] = p
Full        == \A s \in Slots : upid[s] # 0
TableOf(p)  == page_table[CHOOSE s \in Slots : upid[s] = p]

\* find_slot and the insertion of a new descriptor; ended is {} or the slots of
\* the process that ends in the same step (exec).
insert(p, pt, st, ended) ==
    \E s \in Slots :
        /\ upid[s] = 0
        /\ \A r \in Slots : upid[r] = 0 => s <= r
        /\ upid'       = [upid EXCEPT ![s] = p]
        /\ page_table' = [page_table EXCEPT ![s] = pt]
        /\ ustate'     = [r \in Slots |-> IF r = s THEN st
                                          ELSE IF r \in ended THEN "Exited" ELSE ustate[r]]
        /\ exit_code'  = [r \in Slots |-> IF r \in ended THEN "exit" ELSE exit_code[r]]

SlotsOf(p) == {s \in Slots : p # 0 /\ upid[s] = p}

\* The state and the exit code of p, as exit_process and kill_process set them.
MarkExited(p, code) ==
    /\ ustate'    = [s \in Slots |-> IF s \in SlotsOf(p) THEN "Exited" ELSE ustate[s]]
    /\ exit_code' = [s \in Slots |-> IF s \in SlotsOf(p) THEN code ELSE exit_code[s]]
    /\ UNCHANGED <<upid, page_table>>

\* Every creation takes its pid first, and does not give it back if it fails.
TakePid == NEXT_PID <= MaxPid /\ NEXT_PID' = NEXT_PID + 1

-----------------------------------------------------------------------------
(***************************************************************************)
(* Entering and leaving ring 3, with interrupts disabled.                  *)
(***************************************************************************)

\* Variant: the legacy path only, without the switch of CR3.
enter_ring3_legacy(p, pt) ==
    /\ CURRENT_PID' = p
    /\ ctx' = [ctx EXCEPT ![cpu] = [phase |-> "user", pid |-> p]]
    /\ UNCHANGED <<KERNEL_CR3, cr3, cpu, mode>>

\* enter_userspace, for a process that the table lists: pt is its page table.
enter_ring3(p, pt) ==
    /\ CURRENT_PID' = p
    /\ KERNEL_CR3'  = IF pt # 0 THEN cr3 ELSE KERNEL_CR3
    /\ cr3'         = IF pt # 0 THEN pt ELSE cr3
    /\ ctx'         = [ctx EXCEPT ![cpu] = [phase |-> "user", pid |-> p]]
    /\ UNCHANGED <<cpu, mode>>

enter_userspace(p) ==
    IF Listed(p)
    THEN /\ ustate' = [s \in Slots |-> IF s \in SlotsOf(p) THEN "Running" ELSE ustate[s]]
         /\ enter_ring3(p, TableOf(p))
         /\ UNCHANGED <<upid, exit_code, page_table>>
    ELSE /\ mode' = "no_process"
         /\ UNCHANGED <<procs, globals, ctx, cpu>>

\* Variant: CURRENT_PID is left to the next process that enters.
return_to_kernel_keeps_pid ==
    /\ cr3'         = IF KERNEL_CR3 # NoCr3 THEN KERNEL_CR3 ELSE cr3
    /\ KERNEL_CR3'  = NoCr3
    /\ UNCHANGED CURRENT_PID

\* exit_process has already cleared CURRENT_PID when this is called.
return_to_kernel ==
    /\ CURRENT_PID' = 0
    /\ cr3'         = IF KERNEL_CR3 # NoCr3 THEN KERNEL_CR3 ELSE cr3
    /\ KERNEL_CR3'  = NoCr3

-----------------------------------------------------------------------------
(***************************************************************************)
(* Shell commands.  They run in the keyboard handler, on whatever context  *)
(* it interrupted; only "run-user" turns interrupts on while it works.     *)
(***************************************************************************)
Interruptible ==
    /\ mode = "run"
    /\ ctx[cpu].phase \in {"shell", "create", "user", "exited", "faulted"}

InRing3 == mode = "run" /\ ctx[cpu].phase = "user"

\* create_process maps the program into the page table in use and writes its
\* text there, over the text of any program already mapped at TEXT_BASE, then
\* looks for a slot.
load_text == text' = [text EXCEPT ![cr3] = NEXT_PID]

\* It fails when the table is full, with the text already written, or when the
\* frames run out, before or after that.
create_fails ==
    /\ \/ load_text /\ (Full \/ "nomem" \in Calls)
       \/ "nomem" \in Calls /\ UNCHANGED text
    /\ UNCHANGED procs

\* "run-user", up to the point where it calls enter_userspace.
RunUser ==
    /\ "run" \in Calls /\ Interruptible
    /\ TakePid
    /\ \/ /\ load_text
          /\ insert(NEXT_PID, 0, "Ready", {})
          /\ ctx' = [ctx EXCEPT ![cpu] = [phase |-> "create", pid |-> NEXT_PID]]
       \/ create_fails /\ UNCHANGED ctx
    /\ UNCHANGED <<globals, PENDING_USER_PID, cpu, mode>>

RunUserEnter ==
    /\ mode = "run"
    /\ ctx[cpu].phase = "create"
    /\ enter_userspace(ctx[cpu].pid)
    /\ UNCHANGED <<NEXT_PID, PENDING_USER_PID, text>>

\* "run-isolated": a page table of its own, with interrupts disabled until the
\* process is in ring 3.
RunIsolated ==
    /\ "isolated" \in Calls /\ Interruptible
    /\ TakePid
    /\ text' = [text EXCEPT ![NEXT_PID] = NEXT_PID]
    /\ \/ /\ insert(NEXT_PID, NEXT_PID, "Running", {})
          /\ enter_ring3(NEXT_PID, NEXT_PID)
       \/ /\ Full \/ "nomem" \in Calls
          /\ UNCHANGED <<procs, globals, ctx, cpu, mode>>
    /\ UNCHANGED PENDING_USER_PID

\* task::spawn: the first free slot of the task table, if there is one.
spawn ==
    \/ \E t \in Contexts :
          /\ t # 0 /\ ctx[t] = Gone
          /\ \A u \in Contexts \ {0} : ctx[u] = Gone => t <= u
          /\ ctx' = [ctx EXCEPT ![t] = [phase |-> "start", pid |-> 0]]
    \/ /\ \A t \in Contexts \ {0} : ctx[t] # Gone
       /\ UNCHANGED ctx

\* "spawn-user": spawn_user_task.
SpawnUser ==
    /\ "spawn" \in Calls /\ Interruptible
    /\ TakePid
    /\ \/ /\ load_text
          /\ insert(NEXT_PID, 0, "Ready", {})
          /\ PENDING_USER_PID' = NEXT_PID
          /\ spawn
       \/ create_fails /\ UNCHANGED <<PENDING_USER_PID, ctx>>
    /\ UNCHANGED <<globals, cpu, mode>>

\* user_task_entry: the first thing a spawned context does.
UserTaskEntry ==
    /\ mode = "run"
    /\ ctx[cpu].phase = "start"
    /\ enter_userspace(PENDING_USER_PID)
    /\ UNCHANGED <<NEXT_PID, PENDING_USER_PID, text>>

\* "user-kill p": kill_process.
KillUser(p) ==
    /\ "kill" \in Calls /\ Interruptible /\ Listed(p)
    /\ MarkExited(p, "killed")
    /\ UNCHANGED <<NEXT_PID, PENDING_USER_PID, globals, text, ctx, cpu, mode>>

-----------------------------------------------------------------------------
(***************************************************************************)
(* System calls.  They act on the process that CURRENT_PID names.          *)
(***************************************************************************)

\* task::exit of the running context, and the yield_now in it.
task_exit ==
    /\ ctx' = [ctx EXCEPT ![cpu] = Gone]
    /\ \/ \E t \in Contexts \ {cpu} :
             /\ ctx[t] # Gone
             /\ cpu' = t /\ mode' = mode
       \/ /\ \A t \in Contexts \ {cpu} : ctx[t] = Gone
          /\ mode' = "hlt" /\ UNCHANGED cpu

\* SYS_EXIT.  With a current process the call returns to ring 3, where the
\* program goes on in its final jmp.
SysExit ==
    /\ InRing3
    /\ \/ /\ CURRENT_PID # 0
          /\ MarkExited(CURRENT_PID, "exit")
          /\ return_to_kernel
          /\ ctx' = [ctx EXCEPT ![cpu].phase = "exited"]
          /\ UNCHANGED <<cpu, mode>>
       \/ /\ CURRENT_PID = 0
          /\ task_exit
          /\ UNCHANGED <<procs, globals>>
    /\ UNCHANGED <<NEXT_PID, PENDING_USER_PID, text>>

\* SYS_EXEC of a built-in program.
SysExec ==
    /\ "exec" \in Calls /\ InRing3
    /\ TakePid
    /\ \/ /\ load_text
          /\ insert(NEXT_PID, 0, "Running", SlotsOf(CURRENT_PID))
          /\ enter_ring3(NEXT_PID, 0)
       \/ create_fails /\ UNCHANGED <<globals, ctx, cpu, mode>>
    /\ UNCHANGED PENDING_USER_PID

\* Variant: NEXT_PID is read and not advanced.
SysFork_load ==
    /\ "fork" \in Calls /\ InRing3 /\ NEXT_PID <= MaxPid
    /\ Listed(CURRENT_PID)
    /\ \/ insert(NEXT_PID, TableOf(CURRENT_PID), "Ready", {})
       \/ Full /\ UNCHANGED procs
    /\ UNCHANGED <<NEXT_PID, PENDING_USER_PID, globals, text, ctx, cpu, mode>>

\* SYS_FORK and SYS_CLONE: a second descriptor with the parent's page table.
\* Nothing ever enters it.
SysFork ==
    /\ "fork" \in Calls /\ InRing3
    /\ Listed(CURRENT_PID)
    /\ TakePid
    /\ \/ insert(NEXT_PID, TableOf(CURRENT_PID), "Ready", {})
       \/ Full /\ UNCHANGED procs
    /\ UNCHANGED <<PENDING_USER_PID, globals, text, ctx, cpu, mode>>

\* A page fault of ring 3 that neither demand paging nor copy-on-write
\* resolves.  The handler returns to the instruction that faulted, which
\* faults again.
PageFault ==
    /\ "fault" \in Calls
    /\ mode = "run"
    /\ \/ ctx[cpu].phase \in {"user", "faulted"}
       \/ ctx[cpu].phase = "exited" /\ text[cr3] = 0
    /\ \/ /\ CURRENT_PID # 0
          /\ MarkExited(CURRENT_PID, "segv")
          /\ return_to_kernel
          /\ ctx' = [ctx EXCEPT ![cpu].phase = "faulted"]
          /\ UNCHANGED mode
       \/ /\ CURRENT_PID = 0
          /\ mode' = "fault"
          /\ UNCHANGED <<procs, globals, ctx>>
    /\ UNCHANGED <<NEXT_PID, PENDING_USER_PID, text, cpu>>

\* The timer handler switches to another context, if there is one.  Neither
\* CURRENT_PID nor CR3 is switched with it.
Timer ==
    /\ Interruptible
    /\ \/ \E t \in Contexts \ {cpu} : ctx[t] # Gone /\ cpu' = t
       \/ (\A t \in Contexts \ {cpu} : ctx[t] = Gone) /\ UNCHANGED cpu
    /\ UNCHANGED <<procs, NEXT_PID, PENDING_USER_PID, globals, text, ctx, mode>>

Stopped ==
    /\ mode # "run"
    /\ UNCHANGED vars

Next ==
    \/ RunUser \/ RunUserEnter \/ RunIsolated \/ SpawnUser \/ UserTaskEntry
    \/ \E p \in Pids : KillUser(p)
    \/ SysExit \/ SysExec \/ SysFork \/ PageFault \/ Timer \/ Stopped

Spec == Init /\ [][Next]_vars

\* The timer keeps firing and its round robin reaches every live context
\* (module Task, property ReadyRuns), and what runs with interrupts disabled
\* runs on.
SwitchTo(t) == Timer /\ cpu' = t
FairSpec ==
    /\ Spec
    /\ \A t \in Contexts : SF_vars(SwitchTo(t))
    /\ WF_vars(UserTaskEntry) /\ WF_vars(RunUserEnter)

-----------------------------------------------------------------------------
(***************************************************************************)
(* Properties.                                                             *)
(***************************************************************************)

Phases == {"none", "shell", "create", "start", "user", "exited", "faulted"}

\* The process table, the globals and the contexts have their types.
TypeOK ==
    /\ upid \in [Slots -> Pids]
    /\ ustate \in [Slots -> {"Ready", "Running", "Exited"}]
    /\ exit_code \in [Slots -> {"none", "exit", "killed", "segv"}]
    /\ page_table \in [Slots -> Pids]
    /\ NEXT_PID \in 1 .. MaxPid + 1
    /\ CURRENT_PID \in Pids
    /\ PENDING_USER_PID \in Pids
    /\ KERNEL_CR3 \in Pids \cup {NoCr3}
    /\ cr3 \in Pids
    /\ text \in [Pids -> Pids]
    /\ ctx \in [Contexts -> [phase : Phases, pid : Pids]]
    /\ cpu \in Contexts
    /\ mode \in {"run", "hlt", "no_process", "fault"}

\* find_by_pid can mean only one process, whatever creations failed between:
\* the pids of the table are distinct and NEXT_PID is ahead of all of them.
PidsUnique ==
    /\ \A s, r \in Slots : s # r /\ upid[s] = upid[r] => upid[s] = 0
    /\ \A s \in Slots : upid[s] < NEXT_PID

\* The process that CURRENT_PID or PENDING_USER_PID names, or that a context
\* is about to enter, is in the table when it is looked up: enter_userspace
\* never panics with "process not found", whatever was killed in between.
EnteredIsListed ==
    /\ mode # "no_process"
    /\ \A p \in {CURRENT_PID, PENDING_USER_PID} : p # 0 => Listed(p)

\* Until spawn-user is used, what current_process returns is the process that
\* the CPU was executing, through nested commands, exec and kills.
CurrentIsExecuting ==
    PENDING_USER_PID = 0 /\ CURRENT_PID # 0
                    => ctx[cpu] = [phase |-> "user", pid |-> CURRENT_PID]
                       \/ ctx[cpu].phase = "create"

\* Until spawn-user is used, a process that has a page table of its own
\* executes in it.
IsolatedInOwnTable ==
    \A s \in Slots :
        /\ PENDING_USER_PID = 0
        /\ upid[s] # 0 /\ page_table[s] = upid[s]
        /\ ctx[cpu] = [phase |-> "user", pid |-> upid[s]]
        => cr3 = page_table[s]

(***************************************************************************)
(* What the comments of the repository say.                                *)
(***************************************************************************)

\* userspace.rs, on current_process: "Get the currently running user process
\* PID, or None if none."
CurrentIsRunning ==
    ctx[cpu].phase = "user" => CURRENT_PID = ctx[cpu].pid

\* userspace.rs, on spawn_user_task: "The program runs preemptively alongside
\* other tasks": what a context in ring 3 executes is its own program.
RunsOwnProgram ==
    ctx[cpu].phase = "user" => text[cr3] = ctx[cpu].pid

\* userspace.rs, on spawn_user_task: "Spawn a user program as a background
\* kernel task": a spawned program starts, unless it is killed.
SpawnedStarts ==
    \A s \in Slots :
        (upid[s] # 0 /\ ustate[s] = "Ready") ~> (ustate[s] # "Ready" \/ mode # "run")

\* userspace.rs, on KERNEL_CR3: "Saved kernel CR3 for restoring after
\* userspace exit."
SavesKernelCr3 == KERNEL_CR3 \in {NoCr3, KernelPT}

\* interrupts.rs, in page_fault_handler: "If user process caused the fault,
\* kill it instead of panicking".
FaultKillsProcess == mode # "fault"

\* syscall.rs, on SYS_EXIT: "The iret will go back to user code's jmp$ loop".
ExitReturnsToLoop ==
    ctx[cpu].phase = "exited" => text[cr3] = ctx[cpu].pid

\* userspace.rs: MAX_PROCESSES is the "Maximum number of user processes": a
\* creation fails only if that many processes have not exited yet.
TableFullOfLive ==
    Full => \A s \in Slots : ustate[s] # "Exited"

\* userspace.rs: kill_process is "Kill a user process by PID": a process that
\* was killed does not run again.
KilledStaysKilled ==
    [][\A s \in Slots :
          ustate[s] = "Exited" /\ exit_code[s] = "killed" => ustate'[s] = "Exited"]_vars
=============================================================================
