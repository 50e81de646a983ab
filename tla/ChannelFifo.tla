---------------------------- MODULE ChannelFifo ----------------------------
(***************************************************************************)
(* What the kernel's byte channels promise (the interface of               *)
(* src/src/ipc.rs): a fixed number of channels, each, while active, a      *)
(* bounded first-in first-out queue; a full channel refuses a byte, an     *)
(* empty or inactive one yields none, and no byte survives destroy.        *)
(***************************************************************************)
EXTENDS Naturals, Sequences

CONSTANTS
    MAX_CHANNELS,
    CHANNEL_BUF_SIZE,
    Bytes            \* the values a byte takes

Ids == 0 .. MAX_CHANNELS - 1

VARIABLES
    active,   \* the channels that exist
    queue,    \* the bytes in each channel
    ret       \* what the last call returned

avars == <<active, queue, ret>>

AInit ==
    /\ active = {}
    /\ queue  = [i \in Ids |-> <<>>]
    /\ ret    = [call |-> "none"]

ACreate ==
    \/ \E i \in Ids \ active :
          /\ \A j \in Ids \ active : i <= j
          /\ active' = active \cup {i}
          /\ queue'  = [queue EXCEPT ![i] = <<>>]
          /\ ret'    = [call |-> "create", some |-> TRUE, id |-> i]
    \/ /\ active = Ids
       /\ ret' = [call |-> "create", some |-> FALSE]
       /\ UNCHANGED <<active, queue>>

ADestroy(id) ==
    /\ active' = active \ {id}
    /\ queue'  = [i \in Ids |-> IF i = id THEN <<>> ELSE queue[i]]
    /\ ret'    = [call |-> "destroy", id |-> id]

ASend(id, b) ==
    \/ /\ id \in active
       /\ Len(queue[id]) < CHANNEL_BUF_SIZE
       /\ queue' = [queue EXCEPT ![id] = Append(@, b)]
       /\ ret'   = [call |-> "send", id |-> id, ok |-> TRUE]
       /\ UNCHANGED active
    \/ /\ id \in active => Len(queue[id]) = CHANNEL_BUF_SIZE
       /\ ret' = [call |-> "send", id |-> id, ok |-> FALSE]
       /\ UNCHANGED <<active, queue>>

ARecv(id) ==
    \/ /\ id \in active
       /\ queue[id] # <<>>
       /\ queue' = [queue EXCEPT ![id] = Tail(@)]
       /\ ret'   = [call |-> "recv", id |-> id, some |-> TRUE, byte |-> Head(queue[id])]
       /\ UNCHANGED active
    \/ /\ id \in active => queue[id] = <<>>
       /\ ret' = [call |-> "recv", id |-> id, some |-> FALSE]
       /\ UNCHANGED <<active, queue>>

ANext ==
    \/ ACreate
    \/ \E id \in 0 .. MAX_CHANNELS :
          \/ ADestroy(id)
          \/ ARecv(id)
          \/ \E b \in Bytes : ASend(id, b)

ASpec == AInit /\ [][ANext]_avars
=============================================================================
