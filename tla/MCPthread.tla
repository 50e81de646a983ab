----------------------------- MODULE MCPthread -----------------------------
(***************************************************************************)
(* The three facilities of src/src/pthread.rs, one at a time: `facility`   *)
(* says which one the threads of a behaviour use.                          *)
(* Threads are interchangeable: the specifications treat them alike.       *)
(***************************************************************************)
EXTENDS Pthread, Futex, RwLock, TLC

VARIABLE facility

allvars == <<facility, vars, fvars, rwvars>>

MCInit ==
    /\ facility \in {"mutex", "futex", "rwlock"}
    /\ Init /\ FutexInit /\ RwInit

MCNext ==
    /\ UNCHANGED facility
    /\ \/ facility = "mutex" /\ Next /\ UNCHANGED <<fvars, rwvars>>
       \/ facility = "futex" /\ FutexNext /\ UNCHANGED <<vars, rwvars>>
       \/ facility = "rwlock" /\ RwNext /\ UNCHANGED <<vars, fvars>>

MCSpec == MCInit /\ [][MCNext]_allvars

ThreadSymmetry == Permutations(Threads)
=============================================================================
