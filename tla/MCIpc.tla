------------------------------- MODULE MCIpc -------------------------------
(***************************************************************************)
(* The two means by which tasks share data, one at a time: `means` says    *)
(* which one a behaviour exercises.                                        *)
(*                                                                         *)
(* Two channels of three bytes and a two-letter alphabet: enough to fill,  *)
(* drain and wrap a ring, to run out of slots, and to reuse a slot while   *)
(* the other is in use.  Three processes on a table of two shared memory   *)
(* regions: enough to run out of slots and of frames, and to reuse a slot  *)
(* while a process still holds the old address.                            *)
(***************************************************************************)
EXTENDS Ipc, Shmem

VARIABLE means

TwoBytes == {0, 1}

MCInit == means \in {"channels", "regions"} /\ Init /\ ShmemInit

MCNext ==
    /\ UNCHANGED means
    /\ \/ means = "channels" /\ Next /\ UNCHANGED shvars
       \/ means = "regions" /\ ShmemNext /\ UNCHANGED vars

MCSpec == MCInit /\ [][MCNext]_<<means, vars, shvars>>
=============================================================================
