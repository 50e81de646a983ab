------------------------------- MODULE MCTcp -------------------------------
(***************************************************************************)
(* Tcp on small instances.  Ports are interchangeable: alloc_ephemeral_port*)
(* is a free choice, and sockets compare ports for equality only.          *)
(***************************************************************************)
EXTENDS Tcp, TLC

\* Sequence numbers of both hosts wrap during the first connection.
MCOpenTick == [client |-> [n \in 0 .. MaxOpens - 1 |-> 3 + n],
               server |-> [n \in 0 .. MaxOpens - 1 |-> 6 + n]]

PortSymmetry == Permutations(ClientPorts)
=============================================================================
