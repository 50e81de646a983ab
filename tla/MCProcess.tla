----------------------------- MODULE MCProcess -----------------------------
(***************************************************************************)
(* User processes and signals, one at a time: `part` says which one a      *)
(* behaviour exercises.  "user": the process table and the way to ring 3   *)
(* and back.  "signals": signals from the shell and from system calls, in  *)
(* the kernel as it is (Wired = FALSE).                                    *)
(***************************************************************************)
EXTENDS Userspace, Signals

VARIABLE part

MCInit == part \in {"user", "signals"} /\ Init /\ SignalsInit

MCNext ==
    /\ UNCHANGED part
    /\ \/ part = "user" /\ Next /\ UNCHANGED sgvars
       \/ part = "signals" /\ SignalsNext /\ UNCHANGED vars

MCSpec == MCInit /\ [][MCNext]_<<part, vars, sgvars>>
=============================================================================
