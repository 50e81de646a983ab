-------------------------------- MODULE Ipc --------------------------------
(***************************************************************************)
(* The byte channels of src/src/ipc.rs: a table of MAX_CHANNELS slots, an  *)
(* active slot holding a ring buffer (buf, read_pos, write_pos, count).    *)
(* Every call runs under the CHANNELS lock, one critical section per byte, *)
(* so calls of different tasks interleave byte by byte: send_str and       *)
(* recv_all are loops over Send and Recv.  A channel is named by its slot  *)
(* index, which callers keep after the channel is destroyed; MAX_CHANNELS  *)
(* itself stands for the indices that are out of range.                    *)
(***************************************************************************)
EXTENDS Integers, Sequences

CONSTANTS MAX_CHANNELS, CHANNEL_BUF_SIZE, Bytes, ZeroByte

ASSUME SizesAssumption == /\ MAX_CHANNELS \in Nat \ {0}
                          /\ CHANNEL_BUF_SIZE \in Nat \ {0}
ASSUME BytesAssumption == ZeroByte \in Bytes

Ids       == 0 .. MAX_CHANNELS - 1
Positions == 0 .. CHANNEL_BUF_SIZE - 1

VARIABLES
    slot,        \* "Free" or "Active"
    buf, read_pos, write_pos, count,
    ret          \* what the last call returned

ring == <<buf, read_pos, write_pos, count>>
vars == <<slot, buf, read_pos, write_pos, count, ret>>

\* All slots free; the ring fields of a free slot do not exist in the code
\* and create sets every one of them.
Init ==
    /\ slot      = [i \in Ids |-> "Free"]
    /\ buf       = [i \in Ids |-> [p \in Positions |-> ZeroByte]]
    /\ read_pos  = [i \in Ids |-> 0]
    /\ write_pos = [i \in Ids |-> 0]
    /\ count     = [i \in Ids |-> 0]
    /\ ret       = [call |-> "none"]

\* Variant: create marks the slot active and keeps the old ring.
Create_keeps_ring ==
    \/ \E i \in Ids :
          /\ slot[i] = "Free"
          /\ \A j \in Ids : slot[j] = "Free" => i <= j
          /\ slot' = [slot EXCEPT ![i] = "Active"]
          /\ ret'  = [call |-> "create", some |-> TRUE, id |-> i]
          /\ UNCHANGED ring
    \/ /\ \A i \in Ids : slot[i] # "Free"
       /\ ret' = [call |-> "create", some |-> FALSE]
       /\ UNCHANGED <<slot, ring>>

\* create: the first free slot gets Channel::new().
Create ==
    \/ \E i \in Ids :
          /\ slot[i] = "Free"
          /\ \A j \in Ids : slot[j] = "Free" => i <= j
          /\ slot'      = [slot EXCEPT ![i] = "Active"]
          /\ buf'       = [buf EXCEPT ![i] = [p \in Positions |-> ZeroByte]]
          /\ read_pos'  = [read_pos EXCEPT ![i] = 0]
          /\ write_pos' = [write_pos EXCEPT ![i] = 0]
          /\ count'     = [count EXCEPT ![i] = 0]
          /\ ret'       = [call |-> "create", some |-> TRUE, id |-> i]
    \/ /\ \A i \in Ids : slot[i] # "Free"
       /\ ret' = [call |-> "create", some |-> FALSE]
       /\ UNCHANGED <<slot, ring>>

\* destroy: whatever the slot holds is dropped.
Destroy(id) ==
    /\ slot' = [i \in Ids |-> IF i = id THEN "Free" ELSE slot[i]]
    /\ ret'  = [call |-> "destroy", id |-> id]
    /\ UNCHANGED ring

Open(id) == id \in Ids /\ slot[id] = "Active"

\* send and Channel::send.
Send(id, b) ==
    \/ /\ Open(id)
       /\ count[id] < CHANNEL_BUF_SIZE
       /\ buf'       = [buf EXCEPT ![id][write_pos[id]] = b]
       /\ write_pos' = [write_pos EXCEPT ![id] = (@ + 1) % CHANNEL_BUF_SIZE]
       /\ count'     = [count EXCEPT ![id] = @ + 1]
       /\ ret'       = [call |-> "send", id |-> id, ok |-> TRUE]
       /\ UNCHANGED <<slot, read_pos>>
    \/ /\ Open(id) => count[id] >= CHANNEL_BUF_SIZE
       /\ ret' = [call |-> "send", id |-> id, ok |-> FALSE]
       /\ UNCHANGED <<slot, ring>>

\* recv and Channel::recv.
Recv(id) ==
    \/ /\ Open(id)
       /\ count[id] # 0
       /\ read_pos' = [read_pos EXCEPT ![id] = (@ + 1) % CHANNEL_BUF_SIZE]
       /\ count'    = [count EXCEPT ![id] = @ - 1]
       /\ ret'      = [call |-> "recv", id |-> id, some |-> TRUE,
                       byte |-> buf[id][read_pos[id]]]
       /\ UNCHANGED <<slot, buf, write_pos>>
    \/ /\ Open(id) => count[id] = 0
       /\ ret' = [call |-> "recv", id |-> id, some |-> FALSE]
       /\ UNCHANGED <<slot, ring>>

Next ==
    \/ Create
    \/ \E id \in 0 .. MAX_CHANNELS :
          \/ Destroy(id)
          \/ Recv(id)
          \/ \E b \in Bytes : Send(id, b)

Spec == Init /\ [][Next]_vars

-----------------------------------------------------------------------------
\* The slots of CHANNELS, their positions and counts stay within their bounds.
TypeOK ==
    /\ slot \in [Ids -> {"Free", "Active"}]
    /\ buf \in [Ids -> [Positions -> Bytes]]
    /\ read_pos \in [Ids -> Positions]
    /\ write_pos \in [Ids -> Positions]
    /\ count \in [Ids -> 0 .. CHANNEL_BUF_SIZE]

\* The three indices of a ring agree: the next write goes count places after
\* the next read, so that no unread byte is overwritten and no slot is read
\* twice, however often the positions wrap.
RingConsistent ==
    \A i \in Ids :
        slot[i] = "Active"
            => write_pos[i] = (read_pos[i] + count[i]) % CHANNEL_BUF_SIZE

\* The bytes waiting in a channel, oldest first.
Contents(i) ==
    [k \in 1 .. count[i] |->
        buf[i][(read_pos[i] + k - 1) % CHANNEL_BUF_SIZE]]

ActiveIds == {i \in Ids : slot[i] = "Active"}

Queues == [i \in Ids |-> IF slot[i] = "Active" THEN Contents(i) ELSE <<>>]

Fifo == INSTANCE ChannelFifo WITH active <- ActiveIds, queue <- Queues

\* The ring buffers implement bounded queues: same results, byte for byte.
ImplementsFifo == Fifo!ASpec
=============================================================================
