----------------------------- MODULE TaskProofs -----------------------------
(***************************************************************************)
(* Proofs about the task table, for every table size, every number of      *)
(* spawns and, where the theorem names no condition, every use of the      *)
(* shell's commands.                                                       *)
(***************************************************************************)
EXTENDS Task, TLAPS

-----------------------------------------------------------------------------
(***************************************************************************)
(* Facts about the constants.                                              *)
(***************************************************************************)
LEMMA ConstantFacts ==
    /\ 0 \in Slots
    /\ 0 \in Threads
    /\ MaxPid \in Nat
    /\ \A s \in Slots : s \in Nat
    /\ NoOp \in [kind : {"none", "spawn", "kill"}, pid : Threads]
BY MaxTasksAssumption, MaxPidAssumption DEF Slots, Threads, NoOp

-----------------------------------------------------------------------------
(***************************************************************************)
(* Type correctness.                                                       *)
(***************************************************************************)
Column == [Slots -> {"Empty", "Ready", "Running", "Finished"}]

\* What yield_now does to the part of the state it touches.
LEMMA YieldNowType ==
    ASSUME TypeOK, NEW st \in Column, NEW stays \in {"run", "hlt"},
           yield_now(st, stays)
    PROVE  /\ state' \in Column
           /\ rsp' \in [Slots -> Threads]
           /\ CURRENT' \in Slots
           /\ cpu' \in Threads
           /\ mode' \in {"run", "spin", "hlt", "lost"}
BY DEF TypeOK, yield_now, context_switch, Column

\* The scan of spawn keeps the columns well typed.
LEMMA InsertType ==
    ASSUME TypeOK, NEW p \in Threads, insert(p)
    PROVE  /\ pid' \in [Slots -> Threads]
           /\ state' \in Column
           /\ rsp' \in [Slots -> Threads]
BY DEF TypeOK, insert, Column

\* Every step keeps the types.
LEMMA TypeStep == TypeOK /\ [Next]_vars => TypeOK'
<1> SUFFICES ASSUME TypeOK, [Next]_vars PROVE TypeOK'
  OBVIOUS
<1> USE ConstantFacts
<1>0. Entered \in Threads /\ state \in Column
  BY DEF TypeOK, Entered, Column
<1>1. CASE Yield
  BY <1>0, <1>1, YieldNowType DEF Yield, TypeOK, Column
<1>2. CASE Exit
  <2>1. [state EXCEPT ![CURRENT] = "Finished"] \in Column
    BY DEF TypeOK, Column
  <2>2. QED
    BY <1>0, <1>2, <2>1, YieldNowType DEF Exit, TypeOK, Column
<1>3. CASE EnterRing3
  BY <1>3 DEF EnterRing3, TypeOK, table
<1>4. CASE Sleep
  BY <1>4 DEF Sleep, Running, TypeOK, table
<1>5. CASE SleepLoop
  BY <1>0, <1>5, YieldNowType DEF SleepLoop, TypeOK, Column
<1>6. CASE Timer
  <2>1. CASE held
    BY <1>0, <1>6, <2>1 DEF Timer, SpinOnTasks, TypeOK, table
  <2>2. CASE ~held
    <3>1. CASE yield_now(state, "run")
      BY <1>0, <1>6, <2>2, <3>1, YieldNowType DEF Timer, TypeOK, Column
    <3>2. CASE UNCHANGED <<state, rsp, CURRENT, cpu, mode>>
      BY <1>0, <1>6, <2>2, <3>2 DEF Timer, TypeOK
    <3>3. QED
      BY <1>6, <2>2, <3>1, <3>2 DEF Timer, timer_tick
  <2>3. QED
    BY <2>1, <2>2
<1>7. CASE SpawnCommand
  <2>1. CASE held
    BY <1>0, <1>7, <2>1 DEF SpawnCommand, SpinOnTasks, TypeOK, table
  <2>2. CASE ~held
    <3>1. NEXT_PID \in Threads /\ NEXT_PID + 1 \in 1 .. MaxPid + 1
      BY <1>7 DEF SpawnCommand, TypeOK, Threads
    <3>2. QED
      BY <1>0, <1>7, <2>2, <3>1, InsertType DEF SpawnCommand, TypeOK, Column
  <2>3. QED
    BY <2>1, <2>2
<1>8. ASSUME NEW p \in Threads, KillCommand(p) PROVE TypeOK'
  <2>1. CASE held
    BY <1>0, <1>8, <2>1 DEF KillCommand, SpinOnTasks, TypeOK, table
  <2>2. CASE ~held
    BY <1>0, <1>8, <2>2 DEF KillCommand, finish, TypeOK
  <2>3. QED
    BY <2>1, <2>2
<1>9. CASE BeginSpawn
  <2>1. NEXT_PID \in Threads /\ NEXT_PID + 1 \in 1 .. MaxPid + 1
    BY <1>9 DEF BeginSpawn, TypeOK, Threads
  <2>2. QED
    BY <1>9, <2>1 DEF BeginSpawn, TypeOK, table
<1>10. ASSUME NEW p \in Threads, BeginKill(p) PROVE TypeOK'
  BY <1>10 DEF BeginKill, TypeOK, table
<1>11. CASE LockTasks
  BY <1>11 DEF LockTasks, TypeOK, table
<1>12. CASE UnlockTasks
  <2>1. op[cpu].pid \in Threads /\ op' \in [Threads -> [kind : {"none", "spawn", "kill"}, pid : Threads]]
    BY <1>12 DEF UnlockTasks, TypeOK
  <2>2. CASE insert(op[cpu].pid)
    BY <1>12, <2>1, <2>2, InsertType DEF UnlockTasks, TypeOK, Column
  <2>3. CASE finish(op[cpu].pid)
    BY <1>12, <2>1, <2>3 DEF UnlockTasks, finish, TypeOK
  <2>4. QED
    BY <1>12, <2>2, <2>3 DEF UnlockTasks
<1>13. CASE UNCHANGED vars
  BY <1>13 DEF TypeOK, vars
<1>14. QED
  BY <1>1, <1>2, <1>3, <1>4, <1>5, <1>6, <1>7, <1>8, <1>9, <1>10, <1>11,
     <1>12, <1>13 DEF Next, Stuck

\* The state of the task table and of the CPU stays well typed.
THEOREM TypeCorrect == Spec => []TypeOK
<1>1. Init => TypeOK
  <2> SUFFICES ASSUME Init PROVE TypeOK
    OBVIOUS
  <2>1. state \in [Slots -> {"Empty", "Ready", "Running", "Finished"}]
    BY DEF Init
  <2>2. pid \in [Slots -> Threads] /\ rsp \in [Slots -> Threads]
    BY ConstantFacts DEF Init
  <2>3. op \in [Threads -> [kind : {"none", "spawn", "kill"}, pid : Threads]]
    BY ConstantFacts DEF Init
  <2>4. NEXT_PID \in 1 .. MaxPid + 1
    BY MaxPidAssumption DEF Init
  <2>5. QED
    BY ConstantFacts, <2>1, <2>2, <2>3, <2>4 DEF Init, TypeOK
<1>2. QED
  BY <1>1, TypeStep, PTL DEF Spec
-----------------------------------------------------------------------------
(***************************************************************************)
(* At most the current task is marked Running.  Inductive together with    *)
(* the types: no step but yield_now writes "Running", and yield_now writes *)
(* it in the slot it makes CURRENT, after demoting the one it leaves.      *)
(***************************************************************************)
LEMMA YieldNowRuns ==
    ASSUME TypeOK, NEW st \in Column, NEW stays, yield_now(st, stays),
           \A s \in Slots : st[s] = "Running" => s = CURRENT
    PROVE  OnlyCurrentRuns'
BY DEF TypeOK, yield_now, context_switch, Column, OnlyCurrentRuns

\* spawn puts a Ready task into its slot.
LEMMA InsertRuns ==
    ASSUME TypeOK, OnlyCurrentRuns, NEW p, insert(p), UNCHANGED CURRENT
    PROVE  OnlyCurrentRuns'
BY DEF TypeOK, insert, OnlyCurrentRuns

\* A task that finishes is Finished, not Running.
LEMMA FinishRuns ==
    ASSUME TypeOK, OnlyCurrentRuns, NEW p, finish(p), UNCHANGED CURRENT
    PROVE  OnlyCurrentRuns'
BY DEF TypeOK, finish, OnlyCurrentRuns

\* No step leaves a slot Running that is not CURRENT.
LEMMA OnlyCurrentRunsStep ==
    TypeOK /\ OnlyCurrentRuns /\ [Next]_vars => OnlyCurrentRuns'
<1> SUFFICES ASSUME TypeOK, OnlyCurrentRuns, [Next]_vars
             PROVE  OnlyCurrentRuns'
  OBVIOUS
<1>0. /\ state \in Column
      /\ \A s \in Slots : state[s] = "Running" => s = CURRENT
  BY DEF TypeOK, OnlyCurrentRuns, Column
<1>1. CASE Yield
  BY <1>0, <1>1, YieldNowRuns DEF Yield
<1>2. CASE Exit
  <2>1. /\ [state EXCEPT ![CURRENT] = "Finished"] \in Column
        /\ \A s \in Slots : [state EXCEPT ![CURRENT] = "Finished"][s] = "Running"
                              => s = CURRENT
    BY <1>0 DEF TypeOK, Column
  <2>2. QED
    BY <1>2, <2>1, YieldNowRuns DEF Exit
<1>3. CASE SleepLoop
  BY <1>0, <1>3, YieldNowRuns DEF SleepLoop
<1>4. CASE Timer
  <2>1. CASE held
    BY <1>4, <2>1 DEF Timer, SpinOnTasks, OnlyCurrentRuns, table
  <2>2. CASE ~held /\ yield_now(state, "run")
    BY <1>0, <2>2, YieldNowRuns
  <2>3. CASE UNCHANGED <<state, rsp, CURRENT, cpu, mode>>
    BY <2>3 DEF OnlyCurrentRuns
  <2>4. QED
    BY <1>4, <2>1, <2>2, <2>3 DEF Timer, timer_tick
<1>5. CASE SpawnCommand
  BY <1>5, InsertRuns DEF SpawnCommand, SpinOnTasks, OnlyCurrentRuns, table
<1>6. ASSUME NEW p \in Threads, KillCommand(p) PROVE OnlyCurrentRuns'
  BY <1>6, FinishRuns DEF KillCommand, SpinOnTasks, OnlyCurrentRuns, table
<1>7. CASE UnlockTasks
  BY <1>7, InsertRuns, FinishRuns DEF UnlockTasks
<1>8. ASSUME UNCHANGED <<state, CURRENT>> PROVE OnlyCurrentRuns'
  BY <1>8 DEF OnlyCurrentRuns
<1>9. QED
  BY <1>1, <1>2, <1>3, <1>4, <1>5, <1>6, <1>7, <1>8
     DEF Next, Stuck, EnterRing3, Sleep, BeginSpawn, BeginKill, LockTasks,
         vars, table

\* Whatever commands are in use, the table shows no running task but CURRENT.
THEOREM OneRunningTask == Spec => []OnlyCurrentRuns
<1>1. Init => OnlyCurrentRuns
  BY DEF Init, OnlyCurrentRuns
<1>2. QED
  BY <1>1, TypeCorrect, OnlyCurrentRunsStep, PTL DEF Spec

-----------------------------------------------------------------------------
(***************************************************************************)
(* The boot task is always schedulable, as long as no user program runs in *)
(* the shell's own context.  The strengthening says that slot 0 is the     *)
(* boot thread's: its pid is 0, which kill refuses, its saved context is   *)
(* thread 0's, and thread 0 does not exit unless it has entered ring 3,    *)
(* which it does not undo: no step removes a thread from ring3.            *)
(***************************************************************************)
KernelInv ==
    /\ BootTaskReady
    /\ 0 \notin ring3
    /\ pid[0] = 0
    /\ CURRENT # 0 => rsp[0] = 0
    /\ CURRENT = 0 => cpu = 0
    /\ \A t \in Threads : op[t].kind = "kill" => op[t].pid # 0

\* yield_now leaves the boot task Running or Ready and saves its context in slot 0.
LEMMA YieldNowKernel ==
    ASSUME TypeOK, KernelInv, NEW st \in Column, NEW stays,
           yield_now(st, stays),
           CURRENT # 0 => st[0] = "Ready",
           CURRENT = 0 => st[0] = "Running",
           UNCHANGED <<pid, ring3, op>>
    PROVE  KernelInv'
BY ConstantFacts
   DEF TypeOK, yield_now, context_switch, Column, KernelInv, BootTaskReady

\* spawn does not take slot 0.
LEMMA InsertKernel ==
    ASSUME TypeOK, KernelInv, NEW p, insert(p), UNCHANGED <<CURRENT, cpu>>
    PROVE  /\ BootTaskReady'
           /\ pid'[0] = 0
           /\ CURRENT' # 0 => rsp'[0] = 0
BY ConstantFacts DEF TypeOK, insert, Free, KernelInv, BootTaskReady

\* Finishing another pid does not touch slot 0.
LEMMA FinishKernel ==
    ASSUME TypeOK, KernelInv, NEW p, p # 0, finish(p), UNCHANGED <<CURRENT, cpu>>
    PROVE  /\ BootTaskReady'
           /\ pid'[0] = 0
           /\ CURRENT' # 0 => rsp'[0] = 0
BY ConstantFacts DEF TypeOK, finish, Alive, KernelInv, BootTaskReady

\* While thread 0 stays out of ring 3, every step keeps the boot task schedulable.
LEMMA KernelStep ==
    ASSUME TypeOK, KernelInv, [Next]_vars, 0 \notin ring3'
    PROVE  KernelInv'
<1> USE ConstantFacts
<1>0. /\ state \in Column
      /\ CURRENT # 0 => state[0] = "Ready"
      /\ CURRENT = 0 => state[0] = "Running"
  BY DEF TypeOK, KernelInv, BootTaskReady, Column
<1>1. CASE Yield
  BY <1>0, <1>1, YieldNowKernel DEF Yield
<1>2. CASE Exit
  <2>1. CURRENT # 0
    BY <1>2 DEF Exit, KernelInv
  <2>2. /\ [state EXCEPT ![CURRENT] = "Finished"] \in Column
        /\ [state EXCEPT ![CURRENT] = "Finished"][0] = "Ready"
    BY <1>0, <2>1 DEF TypeOK, Column
  <2>3. QED
    BY <1>2, <2>1, <2>2, YieldNowKernel DEF Exit
<1>3. CASE SleepLoop
  BY <1>0, <1>3, YieldNowKernel DEF SleepLoop
<1>4. CASE Timer
  <2>1. CASE held
    BY <1>4, <2>1 DEF Timer, SpinOnTasks, KernelInv, BootTaskReady, table
  <2>2. CASE ~held /\ yield_now(state, "run")
    BY <1>0, <1>4, <2>2, YieldNowKernel DEF Timer
  <2>3. CASE ~held /\ UNCHANGED <<state, rsp, CURRENT, cpu, mode>>
    BY <1>4, <2>3 DEF Timer, KernelInv, BootTaskReady
  <2>4. QED
    BY <1>4, <2>1, <2>2, <2>3 DEF Timer, timer_tick
<1>5. CASE SpawnCommand
  <2>1. CASE held
    BY <1>5, <2>1 DEF SpawnCommand, SpinOnTasks, KernelInv, BootTaskReady, table
  <2>2. CASE ~held
    BY <1>5, <2>2, InsertKernel DEF SpawnCommand, KernelInv
  <2>3. QED
    BY <2>1, <2>2
<1>6. ASSUME NEW p \in Threads, KillCommand(p) PROVE KernelInv'
  <2>1. CASE held
    BY <1>6, <2>1 DEF KillCommand, SpinOnTasks, KernelInv, BootTaskReady, table
  <2>2. CASE ~held
    BY <1>6, <2>2, FinishKernel DEF KillCommand, KernelInv
  <2>3. QED
    BY <2>1, <2>2
<1>7. CASE UnlockTasks
  <2>1. \A t \in Threads : op'[t].kind = "kill" => op'[t].pid # 0
    BY <1>7 DEF UnlockTasks, KernelInv, TypeOK, NoOp
  <2>2. CASE insert(op[cpu].pid)
    BY <1>7, <2>1, <2>2, InsertKernel DEF UnlockTasks, KernelInv
  <2>3. CASE op[cpu].kind = "kill" /\ finish(op[cpu].pid)
    <3>1. op[cpu].pid # 0
      BY <2>3 DEF KernelInv, TypeOK
    <3>2. QED
      BY <1>7, <2>1, <2>3, <3>1, FinishKernel DEF UnlockTasks, KernelInv
  <2>4. QED
    BY <1>7, <2>2, <2>3 DEF UnlockTasks
<1>8. CASE EnterRing3
  BY <1>8 DEF EnterRing3, KernelInv, BootTaskReady, table, TypeOK
<1>9. CASE BeginSpawn
  BY <1>9 DEF BeginSpawn, KernelInv, BootTaskReady, table, TypeOK
<1>10. ASSUME NEW p \in Threads, BeginKill(p) PROVE KernelInv'
  BY <1>10 DEF BeginKill, KernelInv, BootTaskReady, table, TypeOK
<1>11. ASSUME UNCHANGED <<table, cpu, ring3, op>> PROVE KernelInv'
  BY <1>11 DEF KernelInv, BootTaskReady, table
<1>12. QED
  BY <1>1, <1>2, <1>3, <1>4, <1>5, <1>6, <1>7, <1>8, <1>9, <1>10, <1>11
     DEF Next, Stuck, Sleep, LockTasks, vars, table

\* The boot task runs in slot 0 from the start.
LEMMA KernelInit == Init => KernelInv
BY ConstantFacts DEF Init, KernelInv, BootTaskReady, NoOp

\* No step takes a thread out of ring3.
LEMMA Ring3Grows ==
    ASSUME [Next]_vars
    PROVE  ring3 \subseteq ring3'
BY DEF Next, Yield, Exit, EnterRing3, Sleep, SleepLoop, Timer, SpinOnTasks,
       SpawnCommand, BeginSpawn, LockTasks, UnlockTasks, KillCommand, BeginKill,
       Stuck, vars

\* Whatever commands are in use, the boot task is running or ready in every
\* state in which no program has run in its context, background programs and
\* killed tasks included.
THEOREM KernelAlwaysSchedulable == Spec => []KernelSchedulable
<1> DEFINE Inv == 0 \notin ring3 => KernelInv
<1>1. Init => Inv
  BY KernelInit
<1>2. TypeOK /\ Inv /\ [Next]_vars => Inv'
  BY KernelStep, Ring3Grows
<1>3. Inv => KernelSchedulable
  BY DEF KernelInv, KernelSchedulable
<1> HIDE DEF Inv
<1>4. QED
  BY <1>1, <1>2, <1>3, TypeCorrect, PTL DEF Spec
-----------------------------------------------------------------------------
(***************************************************************************)
(* No two slots share a pid.  The strengthening: every pid in the table or *)
(* in an unfinished spawn is below NEXT_PID, and unfinished spawns hold    *)
(* different pids.                                                         *)
(***************************************************************************)
Spawning(t) == op[t].kind = "spawn"

PidInv ==
    /\ PidsUnique
    /\ \A s \in Slots : pid[s] < NEXT_PID
    /\ \A t \in Threads : Spawning(t) => op[t].pid \in 1 .. NEXT_PID - 1
    /\ \A t, u \in Threads :
          t # u /\ Spawning(t) /\ Spawning(u) => op[t].pid # op[u].pid

\* A spawn takes a pid that no slot and no unfinished spawn has.
LEMMA PidStep == TypeOK /\ PidInv /\ [Next]_vars => PidInv'
<1> SUFFICES ASSUME TypeOK, PidInv, [Next]_vars PROVE PidInv'
  OBVIOUS
<1> USE ConstantFacts
<1>0. /\ NEXT_PID \in Nat \ {0}
      /\ \A s \in Slots : pid[s] \in Nat /\ pid[s] < NEXT_PID
  <2>1. NEXT_PID \in 1 .. MaxPid + 1 /\ pid \in [Slots -> Threads]
    BY Zenon DEF TypeOK
  <2>2. \A s \in Slots : pid[s] < NEXT_PID
    BY Zenon DEF PidInv
  <2>3. QED
    BY <2>1, <2>2 DEF Threads
<1>1. CASE SpawnCommand
  <2>1. CASE held
    <3>1. pid' = pid /\ NEXT_PID' = NEXT_PID /\ op' = op
      BY <1>1, <2>1 DEF SpawnCommand, SpinOnTasks, table
    <3>2. QED
      BY <3>1, Zenon DEF PidInv, PidsUnique, Spawning
  <2>2. CASE ~held
    <3>1. NEXT_PID' = NEXT_PID + 1 /\ op' = op /\ insert(NEXT_PID)
      BY <1>1, <2>2 DEF SpawnCommand
    <3>2. CASE pid' = pid
      BY <1>0, <3>1, <3>2 DEF PidInv, PidsUnique, Spawning
    <3>3. ASSUME NEW z \in Slots, pid' = [pid EXCEPT ![z] = NEXT_PID]
          PROVE  PidInv'
      <4>1. \A s \in Slots : pid'[s] = (IF s = z THEN NEXT_PID ELSE pid[s])
        BY <3>3 DEF TypeOK
      <4>2. \A s, r \in Slots : s # r /\ pid'[s] = pid'[r] => pid'[s] = 0
        BY <1>0, <4>1 DEF PidInv, PidsUnique
      <4>3. \A s \in Slots : pid'[s] < NEXT_PID'
        BY <1>0, <3>1, <4>1
      <4>4. \A t \in Threads : Spawning(t) => op[t].pid < NEXT_PID
        BY <1>0 DEF PidInv
      <4>5. \A s \in Slots, t \in Threads : Spawning(t) => pid'[s] # op[t].pid
        BY <1>0, <4>1, <4>4 DEF PidInv, PidsUnique, Spawning
      <4>6. QED
        BY <1>0, <3>1, <4>2, <4>3, <4>5 DEF PidInv, PidsUnique, Spawning
    <3>4. QED
      BY <3>1, <3>2, <3>3 DEF insert
  <2>3. QED
    BY <2>1, <2>2
<1>2. ASSUME NEW p \in Threads, KillCommand(p) PROVE PidInv'
  <2>1. pid' = pid /\ NEXT_PID' = NEXT_PID /\ op' = op
    BY <1>2 DEF KillCommand, SpinOnTasks, finish, table
  <2>2. QED
    BY <2>1, Zenon DEF PidInv, PidsUnique, Spawning
<1>3. CASE BeginSpawn
  <2>1. /\ NEXT_PID' = NEXT_PID + 1 /\ pid' = pid /\ cpu \in Threads
        /\ \A t \in Threads : op'[t] = (IF t = cpu
                                        THEN [kind |-> "spawn", pid |-> NEXT_PID]
                                        ELSE op[t])
    BY <1>3 DEF BeginSpawn, TypeOK, table
  <2>2. \A t \in Threads : Spawning(t)' =>
            \/ t = cpu /\ op'[t].pid = NEXT_PID
            \/ t # cpu /\ Spawning(t) /\ op'[t].pid = op[t].pid
    BY <2>1 DEF Spawning
  <2>3. \A t \in Threads : Spawning(t) => op[t].pid \in Nat /\ op[t].pid # 0
                                          /\ op[t].pid < NEXT_PID
    BY <1>0 DEF PidInv
  <2>4. \A t \in Threads : Spawning(t)' => op'[t].pid \in 1 .. NEXT_PID' - 1
    BY <1>0, <2>1, <2>2, <2>3
  <2>5. \A t, u \in Threads :
            t # u /\ Spawning(t)' /\ Spawning(u)' => op'[t].pid # op'[u].pid
    BY <1>0, <2>2, <2>3 DEF PidInv
  <2>6. PidsUnique'
    BY <1>0, <2>1, <2>2 DEF PidInv, PidsUnique, Spawning
  <2>7. \A s \in Slots : pid'[s] < NEXT_PID'
    BY <1>0, <2>1
  <2>8. QED
    BY <2>4, <2>5, <2>6, <2>7, Zenon DEF PidInv
<1>4. ASSUME NEW p \in Threads, BeginKill(p) PROVE PidInv'
  BY <1>4 DEF BeginKill, PidInv, PidsUnique, Spawning, TypeOK, table
<1>5. CASE UnlockTasks
  <2>1. /\ cpu \in Threads /\ NEXT_PID' = NEXT_PID /\ NEXT_PID \in Nat
        /\ op' = [op EXCEPT ![cpu] = NoOp]
    BY <1>5 DEF UnlockTasks, TypeOK
  <2>2. \A t \in Threads : op'[t] = (IF t = cpu THEN NoOp ELSE op[t])
    BY <2>1 DEF TypeOK
  <2>3. CASE op[cpu].kind = "spawn" /\ insert(op[cpu].pid)
    <3>1. op[cpu].pid \in 1 .. NEXT_PID - 1
      BY <2>1, <2>3 DEF PidInv, Spawning
    <3>2. \A s \in Slots : pid'[s] = pid[s] \/ pid'[s] = op[cpu].pid
      BY <2>3 DEF insert, TypeOK
    <3>3. \A s, r \in Slots : s # r /\ pid'[s] = pid'[r] => pid'[s] = 0
      BY <2>1, <2>3 DEF insert, TypeOK, PidInv, PidsUnique
    <3>4. QED
      BY <2>1, <2>2, <2>3, <3>1, <3>2, <3>3
         DEF PidInv, PidsUnique, Spawning, NoOp
  <2>4. CASE finish(op[cpu].pid)
    BY <2>1, <2>2, <2>4 DEF finish, PidInv, PidsUnique, Spawning, NoOp
  <2>5. QED
    BY <1>5, <2>3, <2>4 DEF UnlockTasks
<1>6. ASSUME UNCHANGED <<pid, op, NEXT_PID>> PROVE PidInv'
  BY <1>6 DEF PidInv, PidsUnique, Spawning
<1>7. QED
  BY <1>1, <1>2, <1>3, <1>4, <1>5, <1>6
     DEF Next, Yield, Exit, EnterRing3, Sleep, SleepLoop, Timer, SpinOnTasks,
         LockTasks, Stuck, vars, table

\* A pid names at most one slot, even when spawns overlap.
THEOREM PidsAreUnique == Spec => []PidsUnique
<1>1. Init => PidInv
  BY ConstantFacts DEF Init, PidInv, PidsUnique, Spawning, NoOp
<1>2. PidInv => PidsUnique
  BY DEF PidInv
<1>3. QED
  BY <1>1, <1>2, PidStep, TypeCorrect, PTL DEF Spec

-----------------------------------------------------------------------------
(***************************************************************************)
(* Without user programs only thread 0 is interruptible, so a command can  *)
(* neither kill the thread it runs on nor take its slot.  Then the CPU     *)
(* always runs CURRENT's own thread and slots keep their own contexts.     *)
(***************************************************************************)
KernelThreadsOnly == "bg" \notin Commands /\ "run" \notin Commands

SlotInv ==
    /\ SlotOwnsContext
    /\ ring3 = {} /\ sleeping = {}
    /\ state[CURRENT] = "Running"
    /\ \A s \in Slots \ {0} : state[s] # "Empty" => pid[s] # 0
    /\ held => op[cpu] # NoOp
    /\ \A t \in Threads : op[t] # NoOp => t = 0
    /\ \A t \in Threads : Spawning(t) => op[t].pid # 0

\* The thread yield_now switches to is alive in the table, and the thread it
\* leaves is saved in its own slot.
LEMMA YieldNowSlots ==
    ASSUME TypeOK, KernelInv, SlotInv, NEW st \in Column, NEW stays,
           yield_now(st, stays),
           \A s \in Slots \ {CURRENT} : st[s] = state[s],
           st[CURRENT] \in {"Running", "Finished"},
           st[CURRENT] = "Finished" => CURRENT # 0,
           UNCHANGED pid
    PROVE  /\ SlotOwnsContext'
           /\ state'[CURRENT'] = "Running"
           /\ \A s \in Slots \ {0} : state'[s] # "Empty" => pid'[s] # 0
           /\ cpu' # cpu => \E s \in Slots : Alive(s, cpu')
<1> USE ConstantFacts DEF TypeOK, Column
<1>1. CASE \E n \in Slots \ {CURRENT} :
              /\ IsNext(st, n)
              /\ state' = [st EXCEPT
                              ![CURRENT] = IF @ = "Running" THEN "Ready" ELSE @,
                              ![n] = "Running"]
              /\ context_switch(n)
  <2>1. PICK n \in Slots \ {CURRENT} :
              /\ st[n] = "Ready"
              /\ state' = [st EXCEPT
                              ![CURRENT] = IF @ = "Running" THEN "Ready" ELSE @,
                              ![n] = "Running"]
              /\ rsp' = [rsp EXCEPT ![CURRENT] = cpu]
              /\ CURRENT' = n
              /\ cpu' = rsp[n]
    BY <1>1 DEF IsNext, context_switch
  <2>2. rsp[n] = pid[n] /\ state[n] = "Ready"
    BY <2>1 DEF SlotInv, SlotOwnsContext
  <2>3. SlotOwnsContext'
    BY <2>1, <2>2 DEF SlotInv, SlotOwnsContext
  <2>4. QED
    BY <2>1, <2>2, <2>3 DEF SlotInv, Alive
<1>2. CASE /\ \A n \in Slots \ {CURRENT} : st[n] # "Ready"
           /\ state' = st
           /\ UNCHANGED <<rsp, CURRENT, cpu>>
  <2>1. st[CURRENT] = "Running"
    BY <1>2 DEF KernelInv, BootTaskReady
  <2>2. QED
    BY <1>2, <2>1 DEF SlotInv, SlotOwnsContext
<1>3. QED
  BY <1>1, <1>2 DEF yield_now

\* spawn and kill, as thread 0 runs them.
LEMMA TableOpSlots ==
    ASSUME TypeOK, KernelInv, SlotInv, NEW p \in Threads \ {0},
           insert(p) \/ finish(p), cpu = 0, UNCHANGED <<CURRENT, cpu>>
    PROVE  /\ SlotOwnsContext'
           /\ state'[CURRENT'] = "Running"
           /\ \A s \in Slots \ {0} : state'[s] # "Empty" => pid'[s] # 0
<1> USE ConstantFacts DEF TypeOK
<1>1. CURRENT = 0
  BY DEF SlotInv, SlotOwnsContext
<1>2. CASE insert(p)
  BY <1>1, <1>2 DEF insert, Free, SlotInv, SlotOwnsContext
<1>3. CASE finish(p)
  BY <1>1, <1>3 DEF finish, Alive, SlotInv, SlotOwnsContext, KernelInv
<1>4. QED
  BY <1>2, <1>3

\* With kernel threads only, slots keep their own contexts, and a switch goes to a thread
\* that is alive.
LEMMA SlotStep ==
    ASSUME KernelThreadsOnly, TypeOK, KernelInv, SlotInv, [Next]_vars
    PROVE  /\ SlotInv'
           /\ cpu' # cpu => \E s \in Slots : Alive(s, cpu')
<1> USE ConstantFacts
<1>0. /\ state \in Column
      /\ Interruptible => cpu = 0
      /\ Running => ~held
      /\ cpu \in Threads
  BY DEF TypeOK, SlotInv, Interruptible, Running, Column
<1>1. CASE Yield
  BY <1>0, <1>1, YieldNowSlots DEF Yield, SlotInv, Spawning
<1>2. CASE Exit
  <2>1. CURRENT # 0
    BY <1>2 DEF Exit, KernelInv
  <2> DEFINE st == [state EXCEPT ![CURRENT] = "Finished"]
  <2>2. /\ st \in Column
        /\ \A s \in Slots \ {CURRENT} : st[s] = state[s]
        /\ st[CURRENT] = "Finished"
    BY <1>0 DEF TypeOK, Column
  <2> HIDE DEF st
  <2>3. yield_now(st, "hlt")
    BY <1>2 DEF Exit, st
  <2>4. QED
    BY <1>0, <1>2, <2>1, <2>2, <2>3, YieldNowSlots DEF Exit, SlotInv, Spawning
<1>3. CASE SleepLoop
  BY <1>3 DEF SleepLoop, SlotInv
<1>4. CASE Timer
  <2>1. CASE held
    BY <1>4, <2>1 DEF Timer, SpinOnTasks, SlotInv, SlotOwnsContext, Spawning, table
  <2>2. CASE ~held /\ yield_now(state, "run")
    BY <1>0, <1>4, <2>2, YieldNowSlots DEF Timer, SlotInv, Spawning
  <2>3. CASE ~held /\ UNCHANGED <<state, rsp, CURRENT, cpu, mode>>
    BY <1>4, <2>3 DEF Timer, SlotInv, SlotOwnsContext, Spawning
  <2>4. QED
    BY <1>4, <2>1, <2>2, <2>3 DEF Timer, timer_tick
<1>5. CASE SpawnCommand
  <2>1. CASE held
    BY <1>5, <2>1 DEF SpawnCommand, SpinOnTasks, SlotInv, SlotOwnsContext, Spawning, table
  <2>2. CASE ~held
    <3>1. NEXT_PID \in Threads \ {0} /\ insert(NEXT_PID) /\ cpu = 0
      BY <1>0, <1>5, <2>2 DEF SpawnCommand, TypeOK, Threads
    <3>2. QED
      BY <1>5, <2>2, <3>1, TableOpSlots DEF SpawnCommand, SlotInv, Spawning
  <2>3. QED
    BY <2>1, <2>2
<1>6. ASSUME NEW p \in Threads, KillCommand(p)
      PROVE  SlotInv' /\ cpu' = cpu
  <2>1. CASE held
    BY <1>6, <2>1 DEF KillCommand, SpinOnTasks, SlotInv, SlotOwnsContext, Spawning, table
  <2>2. CASE ~held
    <3>1. p \in Threads \ {0} /\ finish(p) /\ cpu = 0
      BY <1>0, <1>6, <2>2 DEF KillCommand
    <3>2. QED
      BY <1>6, <2>2, <3>1, TableOpSlots DEF KillCommand, SlotInv, Spawning
  <2>3. QED
    BY <2>1, <2>2
<1>7. CASE UnlockTasks
  <2>1. cpu = 0 /\ op[cpu].pid \in Threads \ {0}
    BY <1>0, <1>7 DEF UnlockTasks, SlotInv, KernelInv, Spawning, TypeOK
  <2>2. insert(op[cpu].pid) \/ finish(op[cpu].pid)
    BY <1>7 DEF UnlockTasks
  <2>3. /\ \A t \in Threads : op'[t] # NoOp => t = 0
        /\ \A t \in Threads : op'[t].kind = "spawn" => op'[t].pid # 0
    BY <1>7 DEF UnlockTasks, SlotInv, Spawning, TypeOK, NoOp
  <2>4. QED
    BY <1>7, <2>1, <2>2, <2>3, TableOpSlots DEF UnlockTasks, SlotInv, Spawning
<1>8. CASE EnterRing3
  BY <1>8 DEF EnterRing3, KernelThreadsOnly
<1>9. CASE Sleep
  BY <1>9 DEF Sleep, SlotInv
<1>10. CASE BeginSpawn
  <2>1. cpu = 0 /\ NEXT_PID # 0
    BY <1>0, <1>10 DEF BeginSpawn, Chained, TypeOK
  <2>2. QED
    BY <1>10, <2>1 DEF BeginSpawn, Chained, SlotInv, SlotOwnsContext, Spawning, TypeOK, table
<1>11. ASSUME NEW p \in Threads, BeginKill(p)
       PROVE  SlotInv' /\ cpu' = cpu
  <2>1. cpu = 0
    BY <1>0, <1>11 DEF BeginKill, Chained
  <2>2. QED
    BY <1>11, <2>1 DEF BeginKill, Chained, SlotInv, SlotOwnsContext, Spawning, TypeOK, table
<1>12. CASE LockTasks
  BY <1>12 DEF LockTasks, SlotInv, SlotOwnsContext, Spawning, table
<1>13. CASE UNCHANGED vars
  BY <1>13 DEF vars, SlotInv, SlotOwnsContext, Spawning
<1>14. QED
  BY <1>1, <1>2, <1>3, <1>4, <1>5, <1>6, <1>7, <1>8, <1>9, <1>10, <1>11,
     <1>12, <1>13 DEF Next, Stuck

\* At the start slot 0 holds the boot task, which runs.
LEMMA SlotInit == Init => SlotInv
BY ConstantFacts DEF Init, SlotInv, SlotOwnsContext, Spawning, NoOp

\* While only kernel threads run, each slot keeps its own thread's context and
\* the CPU runs the thread that CURRENT names.
THEOREM SlotsOwnTheirContexts ==
    ASSUME KernelThreadsOnly
    PROVE  Spec => []SlotOwnsContext
<1>1. TypeOK /\ KernelInv /\ SlotInv /\ [Next]_vars => KernelInv'
  BY KernelStep, SlotStep DEF SlotInv
<1>2. TypeOK /\ KernelInv /\ SlotInv /\ [Next]_vars => SlotInv'
  BY SlotStep
<1>3. SlotInv => SlotOwnsContext
  BY DEF SlotInv
<1>4. QED
  BY <1>1, <1>2, <1>3, KernelInit, SlotInit, TypeCorrect, PTL DEF Spec

\* While only kernel threads run, a killed or exited thread that is off the
\* CPU never gets it back.
THEOREM DeadThreadsNeverReturn ==
    ASSUME KernelThreadsOnly
    PROVE  Spec => DeadThreadsStayOff
<1>1. TypeOK /\ KernelInv /\ SlotInv /\ [Next]_vars => KernelInv'
  BY KernelStep, SlotStep DEF SlotInv
<1>2. TypeOK /\ KernelInv /\ SlotInv /\ [Next]_vars => SlotInv'
  BY SlotStep
<1>3. TypeOK /\ KernelInv /\ SlotInv /\ [Next]_vars
        => [\A p \in Threads :
               p # cpu /\ (\A s \in Slots : ~Alive(s, p)) => p # cpu']_vars
  BY SlotStep
<1>4. QED
  BY <1>1, <1>2, <1>3, KernelInit, SlotInit, TypeCorrect, PTL
     DEF Spec, DeadThreadsStayOff
=============================================================================
