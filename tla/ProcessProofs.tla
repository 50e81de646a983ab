--------------------------- MODULE ProcessProofs ----------------------------
(***************************************************************************)
(* The process table of userspace.rs, for any number of slots, contexts    *)
(* and processes: pids are unique, enter_userspace finds the process it is *)
(* asked to enter, and until spawn-user is used CURRENT_PID and CR3 belong *)
(* to the process that executes.                                           *)
(*                                                                         *)
(* No slot is ever given up (kill and exit only mark it), so what is       *)
(* listed once stays listed; that carries EnteredIsListed from the moment  *)
(* a pid is stored in a context or a global to the moment it is looked up. *)
(* Without spawn-user there is one context, so the switches that leave     *)
(* CURRENT_PID and CR3 behind do not happen.                               *)
(*                                                                         *)
(* For any sizes of the tables, and with or without the calls that         *)
(* sighandler.rs asks for, a process has one slot of the handler table,    *)
(* and a signal ends the task it was sent to and never the kernel task.    *)
(*                                                                         *)
(* The first needs that slot_for returns one slot, and a free one only if  *)
(* the process has none; the second that slot 0 stays with pid 0, which    *)
(* the signals do not act on.                                              *)
(***************************************************************************)
EXTENDS Userspace, Signals, TLAPS

\* Pids that were stored before the process is entered.
Announced ==
    \A t \in Contexts :
        /\ ctx[t].phase = "create" => Listed(ctx[t].pid)
        /\ ctx[t].phase = "start" => PENDING_USER_PID # 0

TablesBelow == \A s \in Slots : page_table[s] < NEXT_PID

OneContext ==
    PENDING_USER_PID = 0 => cpu = 0 /\ \A t \in Contexts \ {0} : ctx[t] = Gone

TableInv ==
    /\ upid \in [Slots -> Pids]
    /\ ustate \in [Slots -> {"Ready", "Running", "Exited"}]
    /\ exit_code \in [Slots -> {"none", "exit", "killed", "segv"}]
    /\ page_table \in [Slots -> Pids]
    /\ NEXT_PID \in 1 .. MaxPid + 1
    /\ PidsUnique /\ TablesBelow

\* The types of the globals and of the contexts.
RestOK ==
    /\ CURRENT_PID \in Pids
    /\ PENDING_USER_PID \in Pids
    /\ KERNEL_CR3 \in Pids \cup {NoCr3}
    /\ cr3 \in Pids
    /\ text \in [Pids -> Pids]
    /\ ctx \in [Contexts -> [phase : Phases, pid : Pids]]
    /\ cpu \in Contexts
    /\ mode \in {"run", "hlt", "no_process", "fault"}

UserInv ==
    /\ TableInv /\ RestOK /\ EnteredIsListed /\ Announced
    /\ OneContext /\ CurrentIsExecuting /\ IsolatedInOwnTable

-----------------------------------------------------------------------------
\* The state as the table lemmas see it.
LEMMA PidRange ==
    ASSUME TableInv, TakePid
    PROVE  /\ NEXT_PID \in Pids /\ NEXT_PID # 0 /\ NEXT_PID \in Nat
           /\ NEXT_PID' = NEXT_PID + 1 /\ NEXT_PID' \in 1 .. MaxPid + 1
  BY UserBounds DEF TableInv, TakePid, Pids

\* A pid is given to a free slot and to no other.
LEMMA InsertKeeps ==
    ASSUME TableInv, TakePid, NEW pt \in Pids, pt <= NEXT_PID,
           NEW st \in {"Ready", "Running", "Exited"}, NEW ended \in SUBSET Slots,
           insert(NEXT_PID, pt, st, ended)
    PROVE  /\ TableInv'
           /\ \A p : p = NEXT_PID \/ Listed(p) => Listed(p)'
           /\ \E s \in Slots :
                /\ upid' = [upid EXCEPT ![s] = NEXT_PID]
                /\ page_table' = [page_table EXCEPT ![s] = pt]
  <1>1. PICK s \in Slots :
          /\ upid[s] = 0
          /\ upid'       = [upid EXCEPT ![s] = NEXT_PID]
          /\ page_table' = [page_table EXCEPT ![s] = pt]
          /\ ustate'     = [r \in Slots |-> IF r = s THEN st
                                            ELSE IF r \in ended THEN "Exited" ELSE ustate[r]]
          /\ exit_code'  = [r \in Slots |-> IF r \in ended THEN "exit" ELSE exit_code[r]]
    BY DEF insert
  <1>2. /\ upid \in [Slots -> Pids] /\ page_table \in [Slots -> Pids]
        /\ ustate \in [Slots -> {"Ready", "Running", "Exited"}]
        /\ exit_code \in [Slots -> {"none", "exit", "killed", "segv"}]
    BY DEF TableInv
  <1>3. NEXT_PID \in Pids /\ NEXT_PID # 0 /\ NEXT_PID \in Nat /\ NEXT_PID' = NEXT_PID + 1
    BY PidRange
  <1>4. upid' \in [Slots -> Pids] /\ page_table' \in [Slots -> Pids]
    BY <1>1, <1>2, <1>3
  <1>5. /\ ustate' \in [Slots -> {"Ready", "Running", "Exited"}]
        /\ exit_code' \in [Slots -> {"none", "exit", "killed", "segv"}]
    BY <1>1, <1>2
  <1>6. \A r \in Slots : upid[r] \in Nat /\ upid[r] < NEXT_PID
    BY <1>2 DEF Pids, TableInv, PidsUnique
  <1>7. PidsUnique'
    <2>1. \A r, q \in Slots : r # q /\ upid'[r] = upid'[q] => upid'[r] = 0
      BY <1>1, <1>2, <1>3, <1>6 DEF TableInv, PidsUnique
    <2>2. \A r \in Slots : upid'[r] < NEXT_PID'
      BY <1>1, <1>2, <1>3, <1>6
    <2> QED BY <2>1, <2>2 DEF PidsUnique
  <1>8. TablesBelow'
    <2>1. pt \in Nat /\ \A r \in Slots : page_table[r] \in Nat /\ page_table[r] < NEXT_PID
      BY <1>2 DEF Pids, TableInv, TablesBelow
    <2> QED BY <1>1, <1>2, <1>3, <2>1 DEF TablesBelow
  <1>9. \A p : p = NEXT_PID \/ Listed(p) => Listed(p)'
    BY <1>1, <1>2, <1>3 DEF Listed
  <1>10. TableInv'
    BY <1>4, <1>5, <1>7, <1>8, PidRange DEF TableInv
  <1> QED BY <1>1, <1>9, <1>10

\* A creation that fails after it took a pid, and a step that leaves the table.
LEMMA TableKept ==
    ASSUME TableInv, UNCHANGED procs, TakePid \/ UNCHANGED NEXT_PID
    PROVE  TableInv' /\ \A p : Listed(p) => Listed(p)'
  <1>1. UNCHANGED <<upid, ustate, exit_code, page_table>>
    BY DEF procs
  <1>2. NEXT_PID \in Nat /\ NEXT_PID' \in 1 .. MaxPid + 1 /\ NEXT_PID <= NEXT_PID'
    BY PidRange DEF TableInv
  <1>3. \A s \in Slots : upid[s] \in Nat /\ page_table[s] \in Nat
    BY DEF TableInv, Pids
  <1>4. PidsUnique' /\ TablesBelow'
    BY <1>1, <1>2, <1>3 DEF TableInv, PidsUnique, TablesBelow
  <1> QED BY <1>1, <1>2, <1>4 DEF TableInv, Listed

\* exit, kill and a fault mark a process and leave it in the table.
LEMMA MarkKeeps ==
    ASSUME TableInv, UNCHANGED NEXT_PID, NEW p, NEW code \in {"exit", "killed", "segv"},
           MarkExited(p, code)
    PROVE  TableInv' /\ (\A q : Listed(q) => Listed(q)') /\ UNCHANGED <<upid, page_table>>
  <1>1. UNCHANGED <<upid, page_table>>
    BY DEF MarkExited
  <1>2. /\ ustate' \in [Slots -> {"Ready", "Running", "Exited"}]
        /\ exit_code' \in [Slots -> {"none", "exit", "killed", "segv"}]
    BY DEF MarkExited, TableInv
  <1> QED BY <1>1, <1>2 DEF TableInv, PidsUnique, TablesBelow, Listed

\* The slot that TableOf looks up is the one that lists the process.
LEMMA TableOfListed ==
    ASSUME TableInv, NEW p, Listed(p)
    PROVE  /\ TableOf(p) \in Pids /\ TableOf(p) < NEXT_PID
           /\ \A s \in Slots : upid[s] = p => page_table[s] = TableOf(p)
  <1>1. PICK s \in Slots : p # 0 /\ upid[s] = p
    BY DEF Listed
  <1>2. \A r \in Slots : upid[r] = p => r = s
    BY <1>1 DEF TableInv, PidsUnique
  <1>3. (CHOOSE r \in Slots : upid[r] = p) = s
    BY <1>1, <1>2
  <1> QED BY <1>1, <1>2, <1>3 DEF TableOf, TableInv, TablesBelow

-----------------------------------------------------------------------------
\* Entering ring 3.
LEMMA EnterKeeps ==
    ASSUME UserInv, TableInv', \A q : Listed(q) => Listed(q)',
           NEW p \in Pids, Listed(p)', NEW pt \in Pids,
           \A s \in Slots : upid'[s] = p => page_table'[s] = pt,
           enter_ring3(p, pt), UNCHANGED PENDING_USER_PID, text' \in [Pids -> Pids]
    PROVE  UserInv'
  <1> USE DEF UserInv
  <1>1. /\ CURRENT_PID' = p /\ UNCHANGED <<cpu, mode>>
        /\ KERNEL_CR3' = (IF pt # 0 THEN cr3 ELSE KERNEL_CR3)
        /\ cr3' = (IF pt # 0 THEN pt ELSE cr3)
        /\ ctx' = [ctx EXCEPT ![cpu] = [phase |-> "user", pid |-> p]]
    BY DEF enter_ring3
  <1>2. p # 0
    BY DEF Listed
  <1>3. /\ cpu \in Contexts /\ ctx'[cpu] = [phase |-> "user", pid |-> p]
        /\ \A t \in Contexts \ {cpu} : ctx'[t] = ctx[t]
        /\ ctx' \in [Contexts -> [phase : Phases, pid : Pids]]
    BY <1>1 DEF RestOK, Phases
  <1>4. RestOK'
    BY <1>1, <1>3 DEF RestOK
  <1>5. EnteredIsListed'
    BY <1>1 DEF EnteredIsListed
  <1>6. Announced'
    BY <1>1, <1>3 DEF Announced
  <1>7. OneContext'
    BY <1>1, <1>3 DEF OneContext
  <1>8. CurrentIsExecuting'
    BY <1>1, <1>3 DEF CurrentIsExecuting
  <1>9. IsolatedInOwnTable'
    BY <1>1, <1>2, <1>3 DEF IsolatedInOwnTable
  <1> QED BY <1>4, <1>5, <1>6, <1>7, <1>8, <1>9

\* Leaving it, with an exit or a fault.
LEMMA ReturnKeeps ==
    ASSUME UserInv, TableInv', \A q : Listed(q) => Listed(q)',
           NEW ph \in {"exited", "faulted"}, return_to_kernel,
           ctx' = [ctx EXCEPT ![cpu].phase = ph],
           UNCHANGED <<PENDING_USER_PID, text, cpu, mode>>
    PROVE  UserInv'
  <1> USE DEF UserInv
  <1>1. /\ CURRENT_PID' = 0 /\ KERNEL_CR3' = NoCr3
        /\ cr3' = (IF KERNEL_CR3 # NoCr3 THEN KERNEL_CR3 ELSE cr3)
    BY DEF return_to_kernel
  <1>2. /\ cpu \in Contexts /\ ctx'[cpu].phase = ph
        /\ \A t \in Contexts \ {cpu} : ctx'[t] = ctx[t]
        /\ ctx' \in [Contexts -> [phase : Phases, pid : Pids]]
    BY DEF RestOK, Phases
  <1>3. RestOK'
    BY <1>1, <1>2, UserBounds DEF RestOK, Pids
  <1>4. EnteredIsListed'
    BY <1>1 DEF EnteredIsListed
  <1>5. Announced'
    BY <1>2 DEF Announced
  <1>6. OneContext'
    BY <1>2 DEF OneContext
  <1>7. CurrentIsExecuting' /\ IsolatedInOwnTable'
    BY <1>1, <1>2 DEF CurrentIsExecuting, IsolatedInOwnTable
  <1> QED BY <1>3, <1>4, <1>5, <1>6, <1>7

\* A step that changes the table, or the text pages, and enters nothing.
LEMMA QuietKeeps ==
    ASSUME UserInv, TableInv', \A q : Listed(q) => Listed(q)',
           \A s \in Slots : upid'[s] # 0 /\ page_table'[s] = upid'[s] =>
                              upid[s] = upid'[s] /\ page_table[s] = upid[s],
           UNCHANGED <<globals, PENDING_USER_PID, ctx, cpu, mode>>, text' \in [Pids -> Pids]
    PROVE  UserInv'
  <1> USE DEF UserInv, globals
  <1>1. RestOK' /\ OneContext' /\ CurrentIsExecuting'
    BY DEF RestOK, OneContext, CurrentIsExecuting
  <1>2. EnteredIsListed' /\ Announced'
    BY DEF EnteredIsListed, Announced
  <1>3. IsolatedInOwnTable'
    BY DEF IsolatedInOwnTable
  <1> QED BY <1>1, <1>2, <1>3

-----------------------------------------------------------------------------
\* Loading a program, or failing to, changes only what is mapped at TEXT_BASE.
LEMMA TextTypes ==
    ASSUME TableInv, RestOK, TakePid
    PROVE  /\ load_text => text' \in [Pids -> Pids]
           /\ create_fails => text' \in [Pids -> Pids] /\ UNCHANGED procs
  BY PidRange DEF RestOK, load_text, create_fails

\* The creations that fail.
LEMMA FailKeeps ==
    ASSUME UserInv, TakePid, UNCHANGED procs, text' \in [Pids -> Pids],
           UNCHANGED <<globals, PENDING_USER_PID, ctx, cpu, mode>>
    PROVE  UserInv'
  <1>1. TableInv' /\ \A q : Listed(q) => Listed(q)'
    BY TableKept DEF UserInv
  <1>2. UNCHANGED <<upid, page_table>>
    BY DEF procs
  <1> QED BY <1>1, <1>2, QuietKeeps

\* What insert does for a page table that is not the new pid.
LEMMA InsertOther ==
    ASSUME UserInv, TakePid, NEW pt \in Pids, pt < NEXT_PID,
           NEW st \in {"Ready", "Running"}, NEW ended \in SUBSET Slots,
           insert(NEXT_PID, pt, st, ended)
    PROVE  /\ TableInv' /\ \A q : q = NEXT_PID \/ Listed(q) => Listed(q)'
           /\ \A s \in Slots : upid'[s] # 0 /\ page_table'[s] = upid'[s] =>
                                 upid[s] = upid'[s] /\ page_table[s] = upid[s]
           /\ \A s \in Slots : upid'[s] = NEXT_PID => page_table'[s] = pt
  <1>1. pt \in Nat /\ NEXT_PID \in Nat /\ pt <= NEXT_PID /\ pt # NEXT_PID
    BY DEF UserInv, TableInv, Pids
  <1>2. /\ TableInv' /\ \A q : q = NEXT_PID \/ Listed(q) => Listed(q)'
        /\ \E s \in Slots :
                /\ upid' = [upid EXCEPT ![s] = NEXT_PID]
                /\ page_table' = [page_table EXCEPT ![s] = pt]
    BY <1>1, InsertKeeps DEF UserInv
  <1>3. PICK s \in Slots : /\ upid' = [upid EXCEPT ![s] = NEXT_PID]
                           /\ page_table' = [page_table EXCEPT ![s] = pt]
    BY <1>2
  <1>4. /\ upid'[s] = NEXT_PID /\ page_table'[s] = pt
        /\ \A r \in Slots \ {s} : upid'[r] = upid[r] /\ page_table'[r] = page_table[r]
    BY <1>3 DEF UserInv, TableInv
  <1>5. \A r \in Slots : upid[r] # NEXT_PID
    BY <1>1 DEF UserInv, TableInv, PidsUnique, Pids
  <1> QED BY <1>1, <1>2, <1>4, <1>5

\* run-user lists its process and is about to enter it.
LEMMA RunUserKeeps == UserInv /\ RunUser => UserInv'
  <1> SUFFICES ASSUME UserInv, RunUser PROVE UserInv'
    OBVIOUS
  <1> USE DEF UserInv
  <1>1. TakePid /\ UNCHANGED <<globals, PENDING_USER_PID, cpu, mode>>
    BY DEF RunUser
  <1>2. CASE create_fails /\ UNCHANGED ctx
    BY <1>1, <1>2, TextTypes, FailKeeps
  <1>3. CASE /\ load_text
             /\ insert(NEXT_PID, 0, "Ready", {})
             /\ ctx' = [ctx EXCEPT ![cpu] = [phase |-> "create", pid |-> NEXT_PID]]
    <2>1. 0 \in Pids /\ 0 < NEXT_PID /\ NEXT_PID \in Pids
      BY <1>1, PidRange, UserBounds DEF Pids
    <2>2. TableInv' /\ \A q : q = NEXT_PID \/ Listed(q) => Listed(q)'
      BY <1>1, <1>3, <2>1, InsertOther
    <2>3. PICK n \in Pids : n = NEXT_PID
      BY <2>1
    <2>4. Listed(n)' /\ \A q : Listed(q) => Listed(q)'
      BY <2>2, <2>3
    <2>5. /\ cpu \in Contexts /\ ctx'[cpu] = [phase |-> "create", pid |-> n]
          /\ \A t \in Contexts \ {cpu} : ctx'[t] = ctx[t]
          /\ ctx' \in [Contexts -> [phase : Phases, pid : Pids]]
      BY <1>3, <2>3 DEF RestOK, Phases
    <2>6. RestOK'
      BY <1>1, <1>3, <2>5, TextTypes DEF RestOK, globals
    <2>7. EnteredIsListed'
      BY <1>1, <2>4 DEF EnteredIsListed, globals
    <2>8. Announced'
      BY <1>1, <2>4, <2>5 DEF Announced
    <2>9. OneContext' /\ CurrentIsExecuting' /\ IsolatedInOwnTable'
      BY <1>1, <2>5 DEF OneContext, CurrentIsExecuting, IsolatedInOwnTable
    <2> QED BY <2>2, <2>6, <2>7, <2>8, <2>9
  <1> QED BY <1>2, <1>3 DEF RunUser

\* enter_userspace of a process that is listed.
LEMMA EnterUserspaceKeeps ==
    ASSUME UserInv, NEW p \in Pids, Listed(p), enter_userspace(p),
           UNCHANGED <<NEXT_PID, PENDING_USER_PID, text>>
    PROVE  UserInv'
  <1> USE DEF UserInv
  <1>1. /\ ustate' = [s \in Slots |-> IF s \in SlotsOf(p) THEN "Running" ELSE ustate[s]]
        /\ enter_ring3(p, TableOf(p))
        /\ UNCHANGED <<upid, exit_code, page_table>>
    BY DEF enter_userspace
  <1>2. TableInv'
    BY <1>1 DEF TableInv, PidsUnique, TablesBelow
  <1>3. \A q : Listed(q) => Listed(q)'
    BY <1>1 DEF Listed
  <1>4. PICK pt \in Pids : pt = TableOf(p)
    BY TableOfListed
  <1>5. \A s \in Slots : upid'[s] = p => page_table'[s] = pt
    BY <1>1, <1>4, TableOfListed
  <1>6. text' \in [Pids -> Pids]
    BY DEF RestOK
  <1> QED BY <1>1, <1>2, <1>3, <1>4, <1>5, <1>6, EnterKeeps

\* enter_userspace makes the process it is given the current one.
LEMMA RunUserEnterKeeps == UserInv /\ RunUserEnter => UserInv'
  <1> SUFFICES ASSUME UserInv, RunUserEnter PROVE UserInv'
    OBVIOUS
  <1>1. ctx[cpu].pid \in Pids /\ Listed(ctx[cpu].pid)
    BY DEF RunUserEnter, UserInv, RestOK, Announced
  <1>2. PICK p \in Pids : p = ctx[cpu].pid
    BY <1>1
  <1> QED BY <1>1, <1>2, EnterUserspaceKeeps DEF RunUserEnter

\* A spawned context enters the process that PENDING_USER_PID names, which is listed.
LEMMA UserTaskEntryKeeps == UserInv /\ UserTaskEntry => UserInv'
  <1> SUFFICES ASSUME UserInv, UserTaskEntry PROVE UserInv'
    OBVIOUS
  <1>1. PENDING_USER_PID \in Pids /\ Listed(PENDING_USER_PID)
    BY DEF UserTaskEntry, UserInv, RestOK, Announced, EnteredIsListed
  <1>2. PICK p \in Pids : p = PENDING_USER_PID
    BY <1>1
  <1> QED BY <1>1, <1>2, EnterUserspaceKeeps DEF UserTaskEntry

\* run-isolated lists its process, switches to its page table and enters it.
LEMMA RunIsolatedKeeps == UserInv /\ RunIsolated => UserInv'
  <1> SUFFICES ASSUME UserInv, RunIsolated PROVE UserInv'
    OBVIOUS
  <1> USE DEF UserInv
  <1>1. /\ TakePid /\ UNCHANGED PENDING_USER_PID
        /\ text' = [text EXCEPT ![NEXT_PID] = NEXT_PID]
    BY DEF RunIsolated
  <1>2. NEXT_PID \in Pids /\ NEXT_PID \in Nat
    BY <1>1, PidRange
  <1>3. text' \in [Pids -> Pids]
    BY <1>1, <1>2 DEF RestOK
  <1>4. CASE insert(NEXT_PID, NEXT_PID, "Running", {}) /\ enter_ring3(NEXT_PID, NEXT_PID)
    <2>1. PICK n \in Pids : n = NEXT_PID
      BY <1>2
    <2>2. /\ TableInv' /\ \A q : q = NEXT_PID \/ Listed(q) => Listed(q)'
          /\ \E s \in Slots : /\ upid' = [upid EXCEPT ![s] = NEXT_PID]
                              /\ page_table' = [page_table EXCEPT ![s] = NEXT_PID]
      BY <1>1, <1>2, <1>4, InsertKeeps
    <2>3. Listed(n)' /\ \A q : Listed(q) => Listed(q)'
      BY <2>1, <2>2
    <2>4. \A s \in Slots : upid'[s] = n => page_table'[s] = n
      <3>1. \A r \in Slots : upid[r] # n
        BY <1>2, <2>1 DEF TableInv, PidsUnique, Pids
      <3> QED BY <2>1, <2>2, <3>1 DEF TableInv
    <2>5. enter_ring3(n, n)
      BY <1>4, <2>1
    <2> QED BY <1>1, <1>3, <2>2, <2>3, <2>4, <2>5, EnterKeeps
  <1>5. CASE UNCHANGED <<procs, globals, ctx, cpu, mode>>
    BY <1>1, <1>3, <1>5, FailKeeps
  <1> QED BY <1>4, <1>5 DEF RunIsolated

\* spawn-user lists a process and makes a context for it.
LEMMA SpawnUserKeeps == UserInv /\ SpawnUser => UserInv'
  <1> SUFFICES ASSUME UserInv, SpawnUser PROVE UserInv'
    OBVIOUS
  <1> USE DEF UserInv
  <1>1. TakePid /\ UNCHANGED <<globals, cpu, mode>>
    BY DEF SpawnUser
  <1>2. CASE create_fails /\ UNCHANGED <<PENDING_USER_PID, ctx>>
    BY <1>1, <1>2, TextTypes, FailKeeps
  <1>3. CASE /\ load_text
             /\ insert(NEXT_PID, 0, "Ready", {})
             /\ PENDING_USER_PID' = NEXT_PID
             /\ spawn
    <2>1. 0 \in Pids /\ 0 < NEXT_PID /\ NEXT_PID \in Pids /\ NEXT_PID # 0
      BY <1>1, PidRange, UserBounds DEF Pids
    <2>2. TableInv' /\ \A q : q = NEXT_PID \/ Listed(q) => Listed(q)'
      BY <1>1, <1>3, <2>1, InsertOther
    <2>3. PICK n \in Pids : n = NEXT_PID
      BY <2>1
    <2>4. n # 0 /\ PENDING_USER_PID' = n /\ Listed(n)' /\ \A q : Listed(q) => Listed(q)'
      BY <1>3, <2>1, <2>2, <2>3
    <2>5. /\ ctx' \in [Contexts -> [phase : Phases, pid : Pids]]
          /\ \A t \in Contexts : ctx'[t] = ctx[t] \/ ctx'[t].phase = "start"
      <3>1. CASE UNCHANGED ctx
        BY <3>1 DEF RestOK
      <3>2. ASSUME NEW t \in Contexts, ctx' = [ctx EXCEPT ![t] = [phase |-> "start", pid |-> 0]]
            PROVE  <2>5!1 /\ <2>5!2
        BY <2>1, <3>2 DEF RestOK, Phases
      <3> QED BY <1>3, <3>1, <3>2 DEF spawn
    <2>6. RestOK'
      BY <1>1, <1>3, <2>4, <2>5, TextTypes DEF RestOK, globals
    <2>7. EnteredIsListed'
      BY <1>1, <2>4 DEF EnteredIsListed, globals
    <2>8. Announced'
      BY <2>4, <2>5 DEF Announced
    <2>9. OneContext' /\ CurrentIsExecuting' /\ IsolatedInOwnTable'
      BY <2>4 DEF OneContext, CurrentIsExecuting, IsolatedInOwnTable
    <2> QED BY <2>2, <2>6, <2>7, <2>8, <2>9
  <1> QED BY <1>2, <1>3 DEF SpawnUser

\* kill marks a process and keeps its slot.
LEMMA KillUserKeeps == ASSUME UserInv, NEW p \in Pids, KillUser(p) PROVE UserInv'
  <1>1. /\ MarkExited(p, "killed")
        /\ UNCHANGED <<NEXT_PID, PENDING_USER_PID, globals, text, ctx, cpu, mode>>
    BY DEF KillUser
  <1>2. TableInv' /\ (\A q : Listed(q) => Listed(q)') /\ UNCHANGED <<upid, page_table>>
    BY <1>1, MarkKeeps DEF UserInv
  <1>3. text' \in [Pids -> Pids]
    BY <1>1 DEF UserInv, RestOK
  <1> QED BY <1>1, <1>2, <1>3, QuietKeeps

\* fork lists the child under a fresh pid.
LEMMA SysForkKeeps == UserInv /\ SysFork => UserInv'
  <1> SUFFICES ASSUME UserInv, SysFork PROVE UserInv'
    OBVIOUS
  <1>1. /\ TakePid /\ Listed(CURRENT_PID)
        /\ UNCHANGED <<PENDING_USER_PID, globals, text, ctx, cpu, mode>>
    BY DEF SysFork
  <1>2. text' \in [Pids -> Pids]
    BY <1>1 DEF UserInv, RestOK
  <1>3. CASE UNCHANGED procs
    BY <1>1, <1>2, <1>3, FailKeeps
  <1>4. CASE insert(NEXT_PID, TableOf(CURRENT_PID), "Ready", {})
    <2>1. PICK pt \in Pids : pt = TableOf(CURRENT_PID) /\ pt < NEXT_PID
      BY <1>1, TableOfListed DEF UserInv
    <2>2. insert(NEXT_PID, pt, "Ready", {})
      BY <1>4, <2>1
    <2>3. /\ TableInv' /\ \A q : Listed(q) => Listed(q)'
          /\ \A s \in Slots : upid'[s] # 0 /\ page_table'[s] = upid'[s] =>
                                upid[s] = upid'[s] /\ page_table[s] = upid[s]
      BY <1>1, <2>1, <2>2, InsertOther
    <2> QED BY <1>1, <1>2, <2>3, QuietKeeps
  <1> QED BY <1>3, <1>4 DEF SysFork

\* exec enters a new process under a fresh pid; the old one is marked.
LEMMA SysExecKeeps == UserInv /\ SysExec => UserInv'
  <1> SUFFICES ASSUME UserInv, SysExec PROVE UserInv'
    OBVIOUS
  <1> USE DEF UserInv
  <1>1. TakePid /\ UNCHANGED PENDING_USER_PID
    BY DEF SysExec
  <1>2. CASE create_fails /\ UNCHANGED <<globals, ctx, cpu, mode>>
    BY <1>1, <1>2, TextTypes, FailKeeps
  <1>3. CASE /\ load_text
             /\ insert(NEXT_PID, 0, "Running", SlotsOf(CURRENT_PID))
             /\ enter_ring3(NEXT_PID, 0)
    <2>1. 0 \in Pids /\ 0 < NEXT_PID /\ NEXT_PID \in Pids
      BY <1>1, PidRange, UserBounds DEF Pids
    <2>2. SlotsOf(CURRENT_PID) \in SUBSET Slots
      BY DEF SlotsOf
    <2>3. /\ TableInv' /\ \A q : q = NEXT_PID \/ Listed(q) => Listed(q)'
          /\ \A s \in Slots : upid'[s] = NEXT_PID => page_table'[s] = 0
      BY <1>1, <1>3, <2>1, <2>2, InsertOther
    <2>4. PICK n \in Pids : n = NEXT_PID
      BY <2>1
    <2>5. /\ enter_ring3(n, 0) /\ Listed(n)' /\ \A q : Listed(q) => Listed(q)'
          /\ \A s \in Slots : upid'[s] = n => page_table'[s] = 0
      BY <1>3, <2>3, <2>4
    <2>6. text' \in [Pids -> Pids]
      BY <1>1, <1>3, TextTypes
    <2> QED BY <1>1, <2>1, <2>3, <2>5, <2>6, EnterKeeps
  <1> QED BY <1>2, <1>3 DEF SysExec

\* exit marks the process and restores the kernel's CURRENT_PID and page table.
LEMMA SysExitKeeps == UserInv /\ SysExit => UserInv'
  <1> SUFFICES ASSUME UserInv, SysExit PROVE UserInv'
    OBVIOUS
  <1>1. UNCHANGED <<NEXT_PID, PENDING_USER_PID, text>>
    BY DEF SysExit
  <1>2. CASE /\ MarkExited(CURRENT_PID, "exit")
             /\ return_to_kernel
             /\ ctx' = [ctx EXCEPT ![cpu].phase = "exited"]
             /\ UNCHANGED <<cpu, mode>>
    <2>1. TableInv' /\ \A q : Listed(q) => Listed(q)'
      BY <1>1, <1>2, MarkKeeps DEF UserInv
    <2> QED BY <1>1, <1>2, <2>1, ReturnKeeps
  <1>3. CASE CURRENT_PID = 0 /\ task_exit /\ UNCHANGED <<procs, globals>>
    <2> USE DEF UserInv
    <2>1. TableInv' /\ \A q : Listed(q) => Listed(q)'
      BY <1>1, <1>3, TableKept
    <2>2. /\ cpu \in Contexts /\ ctx'[cpu] = Gone
          /\ \A t \in Contexts \ {cpu} : ctx'[t] = ctx[t]
          /\ ctx' \in [Contexts -> [phase : Phases, pid : Pids]]
      BY <1>3, UserBounds DEF task_exit, RestOK, Phases, Gone, Pids
    <2>3. /\ cpu' \in Contexts /\ mode' \in {mode, "hlt"}
          /\ cpu' # cpu => ctx[cpu'] # Gone
      BY <1>3, <2>2 DEF task_exit
    <2>4. RestOK'
      BY <1>1, <1>3, <2>2, <2>3 DEF RestOK, globals
    <2>5. EnteredIsListed'
      BY <1>1, <1>3, <2>1, <2>3 DEF EnteredIsListed, globals
    <2>6. Announced'
      BY <1>1, <2>1, <2>2 DEF Announced, Gone
    <2>7. OneContext'
      BY <1>1, <2>2, <2>3 DEF OneContext
    <2>8. CurrentIsExecuting'
      BY <1>3 DEF CurrentIsExecuting, globals
    <2>9. IsolatedInOwnTable'
      <3> SUFFICES ASSUME PENDING_USER_PID' = 0, ctx'[cpu'].phase = "user" PROVE FALSE
        BY DEF IsolatedInOwnTable
      <3>1. cpu = 0 /\ cpu' = 0
        BY <1>1, <2>3 DEF OneContext
      <3> QED BY <2>2, <3>1 DEF Gone
    <2> QED BY <2>1, <2>4, <2>5, <2>6, <2>7, <2>8, <2>9
  <1> QED BY <1>2, <1>3 DEF SysExit

\* A page fault marks the process and, like exit, keeps its slot.
LEMMA PageFaultKeeps == UserInv /\ PageFault => UserInv'
  <1> SUFFICES ASSUME UserInv, PageFault PROVE UserInv'
    OBVIOUS
  <1>1. UNCHANGED <<NEXT_PID, PENDING_USER_PID, text, cpu>>
    BY DEF PageFault
  <1>2. CASE /\ MarkExited(CURRENT_PID, "segv")
             /\ return_to_kernel
             /\ ctx' = [ctx EXCEPT ![cpu].phase = "faulted"]
             /\ UNCHANGED mode
    <2>1. TableInv' /\ \A q : Listed(q) => Listed(q)'
      BY <1>1, <1>2, MarkKeeps DEF UserInv
    <2> QED BY <1>1, <1>2, <2>1, ReturnKeeps
  <1>3. CASE mode' = "fault" /\ UNCHANGED <<procs, globals, ctx>>
    <2> USE DEF UserInv
    <2>1. TableInv' /\ \A q : Listed(q) => Listed(q)'
      BY <1>1, <1>3, TableKept
    <2>2. RestOK'
      BY <1>1, <1>3 DEF RestOK, globals
    <2>3. EnteredIsListed' /\ Announced'
      BY <1>1, <1>3, <2>1 DEF EnteredIsListed, Announced, globals
    <2>4. OneContext' /\ CurrentIsExecuting' /\ IsolatedInOwnTable'
      BY <1>1, <1>3 DEF OneContext, CurrentIsExecuting, IsolatedInOwnTable, globals, procs
    <2> QED BY <2>1, <2>2, <2>3, <2>4
  <1> QED BY <1>2, <1>3 DEF PageFault

\* A timer tick may switch contexts, if there are several.
LEMMA TimerKeeps == UserInv /\ Timer => UserInv'
  <1> SUFFICES ASSUME UserInv, Timer PROVE UserInv'
    OBVIOUS
  <1> USE DEF UserInv
  <1>1. /\ UNCHANGED <<procs, NEXT_PID, PENDING_USER_PID, globals, text, ctx, mode>>
        /\ cpu' \in Contexts /\ (cpu' # cpu => ctx[cpu'] # Gone)
    BY DEF Timer, RestOK
  <1>2. TableInv' /\ \A q : Listed(q) => Listed(q)'
    BY <1>1, TableKept
  <1>3. RestOK'
    BY <1>1 DEF RestOK, globals
  <1>4. EnteredIsListed' /\ Announced'
    BY <1>1, <1>2 DEF EnteredIsListed, Announced, globals
  <1>5. PENDING_USER_PID = 0 => cpu' = cpu
    BY <1>1 DEF OneContext
  <1>6. OneContext' /\ CurrentIsExecuting' /\ IsolatedInOwnTable'
    BY <1>1, <1>5 DEF OneContext, CurrentIsExecuting, IsolatedInOwnTable, globals, procs
  <1> QED BY <1>2, <1>3, <1>4, <1>6

-----------------------------------------------------------------------------
\* The inductive invariant holds in every reachable state.
THEOREM UserInvariant == Spec => []UserInv
  <1>1. Init => UserInv
    <2> SUFFICES ASSUME Init PROVE UserInv
      OBVIOUS
    <2>1. 0 \in Pids /\ 0 \in Contexts /\ 1 \in 1 .. MaxPid + 1
      BY UserLimits, UserBounds DEF Pids, Contexts
    <2>2. TableInv
      BY <2>1 DEF Init, TableInv, PidsUnique, TablesBelow
    <2>3. RestOK
      BY <2>1 DEF Init, RestOK, Phases, Gone, KernelPT
    <2>4. EnteredIsListed /\ CurrentIsExecuting
      BY DEF Init, EnteredIsListed, CurrentIsExecuting
    <2>5. Announced
      BY DEF Init, Announced, Gone
    <2>6. OneContext
      BY DEF Init, OneContext
    <2>7. IsolatedInOwnTable
      BY DEF Init, IsolatedInOwnTable
    <2> QED BY <2>2, <2>3, <2>4, <2>5, <2>6, <2>7 DEF UserInv
  <1>2. UserInv /\ UNCHANGED vars => UserInv'
    <2> SUFFICES ASSUME UserInv, UNCHANGED vars PROVE UserInv'
      OBVIOUS
    <2>1. /\ UNCHANGED <<procs, NEXT_PID, globals, PENDING_USER_PID, ctx, cpu, mode, text>>
          /\ UNCHANGED <<upid, page_table>>
      BY DEF vars, procs, globals
    <2>2. TableInv' /\ \A q : Listed(q) => Listed(q)'
      BY <2>1, TableKept DEF UserInv
    <2>3. text' \in [Pids -> Pids]
      BY <2>1 DEF UserInv, RestOK
    <2> QED BY <2>1, <2>2, <2>3, QuietKeeps
  <1>3. UserInv /\ [Next]_vars => UserInv'
    BY <1>2, RunUserKeeps, RunUserEnterKeeps, RunIsolatedKeeps, SpawnUserKeeps,
       UserTaskEntryKeeps, KillUserKeeps, SysExitKeeps, SysExecKeeps, SysForkKeeps,
       PageFaultKeeps, TimerKeeps
    DEF Next, Stopped
  <1> QED BY <1>1, <1>3, PTL DEF Spec

\* userspace.rs: find_by_pid can mean only one process.
THEOREM PidsAreUnique == Spec => []PidsUnique
  <1>1. UserInv => PidsUnique
    BY DEF UserInv, TableInv
  <1> QED BY <1>1, UserInvariant, PTL

\* userspace.rs: enter_userspace never panics with "process not found", and the
\* process that a global names is in the table.
THEOREM EntryFindsProcess == Spec => []EnteredIsListed
  <1>1. UserInv => EnteredIsListed
    BY DEF UserInv
  <1> QED BY <1>1, UserInvariant, PTL

\* userspace.rs: until spawn-user is used, current_process is the process that
\* executes, through nested commands, exec, kills and faults.
THEOREM CurrentExecutes == Spec => []CurrentIsExecuting
  <1>1. UserInv => CurrentIsExecuting
    BY DEF UserInv
  <1> QED BY <1>1, UserInvariant, PTL

\* userspace.rs: until spawn-user is used, an isolated process executes in its
\* own page table.
THEOREM IsolatedExecutes == Spec => []IsolatedInOwnTable
  <1>1. UserInv => IsolatedInOwnTable
    BY DEF UserInv
  <1> QED BY <1>1, UserInvariant, PTL

-----------------------------------------------------------------------------
\* Signals

\* slot_for searches the table before it takes a free slot, and takes one.
LEMMA SlotFor ==
    ASSUME TrackedOnce, NEW p
    PROVE  \A i \in slot_for(p) :
              /\ i \in PSlots /\ slot_for(p) = {i}
              /\ spid[i] = p \/ \A j \in PSlots : spid[j] # p
  BY DEF slot_for, PSlots

\* Putting p in the slot that slot_for found gives it no second one.
LEMMA SlotTaken ==
    ASSUME TrackedOnce, NEW p,
           spid' = [k \in PSlots |-> IF k \in slot_for(p) THEN p ELSE spid[k]]
    PROVE  TrackedOnce'
  <1> SUFFICES ASSUME NEW i \in PSlots, NEW j \in PSlots, i # j, spid'[i] = spid'[j]
               PROVE  spid'[i] = 0
    BY DEF TrackedOnce
  <1>1. CASE i \notin slot_for(p) /\ j \notin slot_for(p)
    BY <1>1 DEF TrackedOnce
  <1>2. CASE i \in slot_for(p)
    <2>1. j \notin slot_for(p) /\ spid'[i] = p /\ spid'[j] = spid[j]
      BY <1>2, SlotFor
    <2>2. spid[j] = p
      BY <2>1
    <2>3. spid[i] = p
      BY <1>2, <2>2, SlotFor
    <2> QED BY <2>1, <2>2, <2>3 DEF TrackedOnce
  <1>3. CASE j \in slot_for(p)
    <2>1. i \notin slot_for(p) /\ spid'[j] = p /\ spid'[i] = spid[i]
      BY <1>3, SlotFor
    <2>2. spid[i] = p
      BY <2>1
    <2>3. spid[j] = p
      BY <1>3, <2>2, SlotFor
    <2> QED BY <2>1, <2>2, <2>3 DEF TrackedOnce
  <1> QED BY <1>1, <1>2, <1>3

\* cleanup frees slots and fills none.
LEMMA CleanupKeeps ==
    ASSUME TrackedOnce, NEW p, cleanup(p)
    PROVE  TrackedOnce'
  BY DEF TrackedOnce, cleanup

\* No step gives a process a second handler slot.
LEMMA TrackedStep == TrackedOnce /\ [SignalsNext]_sgvars => TrackedOnce'
  <1> SUFFICES ASSUME TrackedOnce, [SignalsNext]_sgvars PROVE TrackedOnce'
    OBVIOUS
  <1>1. ASSUME spid' = spid PROVE TrackedOnce'
    BY <1>1 DEF TrackedOnce
  <1>2. CASE Spawn
    BY <1>1, <1>2 DEF Spawn, state
  <1>3. ASSUME NEW p \in TaskIds, Exit(p) PROVE TrackedOnce'
    BY <1>3, CleanupKeeps DEF Exit
  <1>4. ASSUME NEW p \in TaskIds, check_pending_signals(p) PROVE TrackedOnce'
    BY <1>1, <1>4, CleanupKeeps DEF check_pending_signals
  <1>5. ASSUME NEW p \in TaskIds, NEW g \in Sigs, send_signal(p, g) PROVE TrackedOnce'
    <2>1. cleanup(p) \/ spid' = spid
      BY <1>5 DEF send_signal, state
    <2> QED BY <1>1, <2>1, CleanupKeeps
  <1>6. ASSUME NEW p \in TaskIds, NEW g \in Sigs, deliver_signal(p, g) PROVE TrackedOnce'
    <2>1. CASE cleanup(p)
      BY <2>1, CleanupKeeps
    <2>2. CASE ~(InRange(g) /\ (g = "KILL" \/ slot_for(p) # {})) \/ g = "KILL"
      <3>1. cleanup(p) \/ \A k \in PSlots : spid'[k] = spid[k]
        BY <1>6, <2>2 DEF deliver_signal
      <3> QED BY <3>1, CleanupKeeps DEF TrackedOnce
    <2>3. CASE InRange(g) /\ slot_for(p) # {} /\ g # "KILL"
      <3>1. spid' = [k \in PSlots |-> IF k \in slot_for(p) THEN p ELSE spid[k]]
        BY <1>6, <2>3 DEF deliver_signal
      <3> QED BY <3>1, SlotTaken
    <2> QED BY <2>1, <2>2, <2>3
  <1>7. ASSUME NEW p \in TaskIds, NEW g \in Queued, NEW h \in {"Default", "Ignore"},
               register_handler(p, g, h)
        PROVE  TrackedOnce'
    <2>1. spid' = [k \in PSlots |-> IF k \in slot_for(p) THEN p ELSE spid[k]]
      BY <1>7 DEF register_handler
    <2> QED BY <2>1, SlotTaken
  <1>8. CASE UNCHANGED sgvars
    BY <1>1, <1>8 DEF sgvars
  <1> QED BY <1>2, <1>3, <1>4, <1>5, <1>6, <1>7, <1>8 DEF SignalsNext

\* sighandler.rs: a process never has two slots of the handler table.
THEOREM OneSlotPerProcess == SignalsSpec => []TrackedOnce
  <1>1. SignalsInit => TrackedOnce
    BY DEF SignalsInit, TrackedOnce
  <1> QED BY <1>1, TrackedStep, PTL DEF SignalsSpec

-----------------------------------------------------------------------------
\* Slot 0 is that of the kernel task.
KernelSlot ==
    /\ 0 \in TSlots /\ tpid = [s \in TSlots |-> tpid[s]]
    /\ 0 \in alive /\ tpid[0] = 0

\* What a step may take out of `alive` is what KillTask names.
LEMMA OnlyKilled ==
    ASSUME [SignalsNext]_sgvars, UNCHANGED sgvars \/ ~Spawn
    PROVE  /\ tpid' = tpid
           /\ alive' = alive \/ \E p \in TaskIds : alive' = alive \ KillTask(p) /\ last'.pid = p
  <1>1. ASSUME NEW p \in TaskIds, Exit(p)
        PROVE  tpid' = tpid /\ alive' = alive \ KillTask(p) /\ last'.pid = p
    BY <1>1 DEF Exit
  <1>2. ASSUME NEW p \in TaskIds, check_pending_signals(p)
        PROVE  /\ tpid' = tpid /\ last'.pid = p
               /\ alive' = alive \/ alive' = alive \ KillTask(p)
    BY <1>2 DEF check_pending_signals
  <1>3. ASSUME NEW p \in TaskIds, NEW g \in Sigs, send_signal(p, g)
        PROVE  /\ tpid' = tpid /\ last'.pid = p
               /\ alive' = alive \/ alive' = alive \ KillTask(p)
    BY <1>3 DEF send_signal
  <1>4. ASSUME NEW p \in TaskIds, NEW g \in Sigs, deliver_signal(p, g)
        PROVE  /\ tpid' = tpid /\ last'.pid = p
               /\ alive' = alive \/ alive' = alive \ KillTask(p)
    BY <1>4 DEF deliver_signal
  <1>5. ASSUME NEW p \in TaskIds, NEW g \in Queued, NEW h \in {"Default", "Ignore"},
               register_handler(p, g, h)
        PROVE  tpid' = tpid /\ alive' = alive
    BY <1>5 DEF register_handler, tasks
  <1>6. CASE UNCHANGED sgvars
    BY <1>6 DEF sgvars
  <1> QED BY <1>1, <1>2, <1>3, <1>4, <1>5, <1>6 DEF SignalsNext

\* A spawn adds a task and leaves slot 0 alone.
LEMMA SpawnAdds ==
    ASSUME Spawn
    PROVE  /\ alive \subseteq alive'
           /\ KernelSlot => KernelSlot'
  <1>1. alive \subseteq alive'
    BY DEF Spawn
  <1>2. ASSUME KernelSlot PROVE KernelSlot'
    <2>1. CASE tpid' = tpid
      BY <1>1, <1>2, <2>1 DEF KernelSlot
    <2>2. ASSUME NEW s \in TSlots \ alive, tpid' = [tpid EXCEPT ![s] = next_pid]
          PROVE  KernelSlot'
      <3>1. s # 0
        BY <1>2 DEF KernelSlot
      <3> QED BY <1>1, <1>2, <2>2, <3>1 DEF KernelSlot
    <2> QED BY <2>1, <2>2 DEF Spawn
  <1> QED BY <1>1, <1>2

\* Slot 0 of the handler table stays with pid 0.
LEMMA KernelStep == KernelSlot /\ [SignalsNext]_sgvars => KernelSlot'
  <1> SUFFICES ASSUME KernelSlot, [SignalsNext]_sgvars PROVE KernelSlot'
    OBVIOUS
  <1>1. CASE Spawn
    BY <1>1, SpawnAdds DEF KernelSlot
  <1>2. CASE UNCHANGED sgvars \/ ~Spawn
    <2>1. \A p : 0 \notin KillTask(p)
      BY DEF KernelSlot, KillTask
    <2> QED BY <1>2, <2>1, OnlyKilled DEF KernelSlot
  <1> QED BY <1>1, <1>2

\* signal.rs and sighandler.rs: whatever the tables hold, a step ends no task
\* but the one it was asked to end, and never the kernel task.
THEOREM OnlyTheTarget ==
    ASSUME MAX_TASKS \in Nat \ {0}
    PROVE  SignalsSpec => OnlyTargetDies
  <1>1. SignalsInit => KernelSlot
    BY DEF SignalsInit, KernelSlot, TSlots
  <1>2. KernelSlot /\ [SignalsNext]_sgvars =>
            [\A s \in alive : s \notin alive' => tpid[s] = last'.pid /\ s # 0]_sgvars
    <2> SUFFICES ASSUME KernelSlot, [SignalsNext]_sgvars, NEW s \in alive, s \notin alive'
                 PROVE  tpid[s] = last'.pid /\ s # 0
      BY DEF sgvars
    <2>1. ~Spawn
      BY SpawnAdds
    <2>2. PICK p \in TaskIds : alive' = alive \ KillTask(p) /\ last'.pid = p
      BY <2>1, OnlyKilled
    <2>3. s \in KillTask(p)
      BY <2>2
    <2> QED BY <2>2, <2>3 DEF KillTask, KernelSlot
  <1> QED BY <1>1, <1>2, KernelStep, PTL DEF SignalsSpec, OnlyTargetDies
=============================================================================
