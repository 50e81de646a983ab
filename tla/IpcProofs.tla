----------------------------- MODULE IpcProofs ------------------------------
(***************************************************************************)
(* The ring buffers of src/src/ipc.rs are correct for every number of      *)
(* channels, every buffer size and every byte alphabet.                    *)
(*                                                                         *)
(* For any number of processes, table slots and frames, the reference      *)
(* count of a shared memory region is the number of processes attached,    *)
(* and a process finds its region at the address it was given.             *)
(*                                                                         *)
(* Neither is inductive alone.  A process keeps its slot while another     *)
(* detaches because the count is exact (a count of at least two does not   *)
(* free the slot), and because ids name one slot (the region that is       *)
(* detached from is the one in the slot the process was given).  Ids are   *)
(* unique because every id in use is below next_id.                        *)
(***************************************************************************)
EXTENDS Ipc, Shmem, FiniteSetTheorems, SequenceTheorems, TLAPS

\* Stepping a position by one wraps at the end of the buffer and stays in it.
LEMMA StepPosition ==
    ASSUME NEW p \in Positions
    PROVE  /\ (p + 1) % CHANNEL_BUF_SIZE \in Positions
           /\ (p + 1) % CHANNEL_BUF_SIZE = IF p + 1 = CHANNEL_BUF_SIZE THEN 0 ELSE p + 1
  <1>1. CASE p + 1 = CHANNEL_BUF_SIZE
    BY <1>1, SizesAssumption, Z3 DEF Positions
  <1>2. CASE p + 1 < CHANNEL_BUF_SIZE
    BY <1>2, SizesAssumption, Z3 DEF Positions
  <1> QED BY <1>1, <1>2, SizesAssumption DEF Positions

\* An index less than two laps ahead wraps by one subtraction.
LEMMA WrapOnce ==
    ASSUME NEW x \in 0 .. 2 * CHANNEL_BUF_SIZE - 1
    PROVE  /\ x % CHANNEL_BUF_SIZE \in Positions
           /\ x % CHANNEL_BUF_SIZE = IF x < CHANNEL_BUF_SIZE THEN x ELSE x - CHANNEL_BUF_SIZE
  <1>1. CASE x < CHANNEL_BUF_SIZE
    BY <1>1, SizesAssumption, Z3 DEF Positions
  <1>2. CASE x >= CHANNEL_BUF_SIZE
    BY <1>2, SizesAssumption, Z3 DEF Positions
  <1> QED BY <1>1, <1>2, SizesAssumption DEF Positions

\* Reading a byte moves the read position towards the write position, which
\* stays where it was.
LEMMA ReadIndex ==
    ASSUME NEW r \in Positions, NEW c \in 1 .. CHANNEL_BUF_SIZE
    PROVE  (((r + 1) % CHANNEL_BUF_SIZE) + (c - 1)) % CHANNEL_BUF_SIZE
             = (r + c) % CHANNEL_BUF_SIZE
  <1> DEFINE n == (r + 1) % CHANNEL_BUF_SIZE
  <1>1. n \in Positions /\ n = IF r + 1 = CHANNEL_BUF_SIZE THEN 0 ELSE r + 1
    BY StepPosition
  <1> HIDE DEF n
  <1>2. /\ r + c \in 0 .. 2 * CHANNEL_BUF_SIZE - 1
        /\ n + (c - 1) \in 0 .. 2 * CHANNEL_BUF_SIZE - 1
    BY <1>1, SizesAssumption DEF Positions
  <1>3. (n + (c - 1)) % CHANNEL_BUF_SIZE = (r + c) % CHANNEL_BUF_SIZE
    <2>1. CASE r + 1 = CHANNEL_BUF_SIZE
      <3>1. /\ n + (c - 1) = c - 1 /\ c - 1 < CHANNEL_BUF_SIZE
            /\ r + c = CHANNEL_BUF_SIZE + (c - 1)
        BY <1>1, <2>1, SizesAssumption DEF Positions
      <3>2. (n + (c - 1)) % CHANNEL_BUF_SIZE = c - 1
        BY <1>2, <3>1, WrapOnce
      <3>3. (r + c) % CHANNEL_BUF_SIZE = (r + c) - CHANNEL_BUF_SIZE
        BY <1>2, <3>1, SizesAssumption, WrapOnce DEF Positions
      <3> QED BY <3>1, <3>2, <3>3, SizesAssumption DEF Positions
    <2>2. CASE r + 1 # CHANNEL_BUF_SIZE
      <3>1. n + (c - 1) = r + c
        BY <1>1, <2>2, SizesAssumption DEF Positions
      <3> QED BY <3>1
    <2> QED BY <2>1, <2>2
  <1> QED BY <1>3 DEF n

\* Writing a byte moves the write position one place further from the read
\* position.
LEMMA WriteIndex ==
    ASSUME NEW r \in Positions, NEW c \in 0 .. CHANNEL_BUF_SIZE - 1
    PROVE  (((r + c) % CHANNEL_BUF_SIZE) + 1) % CHANNEL_BUF_SIZE
             = (r + (c + 1)) % CHANNEL_BUF_SIZE
  <1> DEFINE w == (r + c) % CHANNEL_BUF_SIZE
  <1>1. /\ r + c \in 0 .. 2 * CHANNEL_BUF_SIZE - 1
        /\ r + (c + 1) \in 0 .. 2 * CHANNEL_BUF_SIZE - 1
    BY SizesAssumption DEF Positions
  <1>2. /\ w \in Positions
        /\ w = IF r + c < CHANNEL_BUF_SIZE THEN r + c ELSE (r + c) - CHANNEL_BUF_SIZE
    BY <1>1, WrapOnce
  <1> HIDE DEF w
  <1>3. (w + 1) % CHANNEL_BUF_SIZE = IF w + 1 = CHANNEL_BUF_SIZE THEN 0 ELSE w + 1
    BY <1>2, StepPosition
  <1>4. (r + (c + 1)) % CHANNEL_BUF_SIZE
          = IF r + (c + 1) < CHANNEL_BUF_SIZE THEN r + (c + 1)
            ELSE (r + (c + 1)) - CHANNEL_BUF_SIZE
    BY <1>1, WrapOnce
  <1>5. (w + 1) % CHANNEL_BUF_SIZE = (r + (c + 1)) % CHANNEL_BUF_SIZE
    BY <1>2, <1>3, <1>4, SizesAssumption DEF Positions
  <1> QED BY <1>5 DEF w

\* Every call leaves the slots and rings of the table well typed.
THEOREM TypeCorrect == Spec => []TypeOK
  <1>1. Init => TypeOK
    BY SizesAssumption, BytesAssumption DEF Init, TypeOK, Ids, Positions
  <1>2. TypeOK /\ [Next]_vars => TypeOK'
    <2> SUFFICES ASSUME TypeOK, [Next]_vars PROVE TypeOK'
      OBVIOUS
    <2> USE SizesAssumption, BytesAssumption DEF TypeOK, ring
    <2>1. CASE Create
      <3>1. 0 \in Positions /\ 0 \in 0 .. CHANNEL_BUF_SIZE
        BY DEF Positions
      <3>2. CASE UNCHANGED <<slot, ring>>
        BY <3>2
      <3>3. ASSUME NEW i \in Ids,
                   slot'      = [slot EXCEPT ![i] = "Active"],
                   buf'       = [buf EXCEPT ![i] = [p \in Positions |-> ZeroByte]],
                   read_pos'  = [read_pos EXCEPT ![i] = 0],
                   write_pos' = [write_pos EXCEPT ![i] = 0],
                   count'     = [count EXCEPT ![i] = 0]
            PROVE  TypeOK'
        <4>1. [p \in Positions |-> ZeroByte] \in [Positions -> Bytes]
          OBVIOUS
        <4>2. buf' \in [Ids -> [Positions -> Bytes]]
          BY <3>3, <4>1
        <4> QED BY <3>1, <3>3, <4>2
      <3> QED BY <2>1, <3>2, <3>3 DEF Create
    <2>2. ASSUME NEW c \in 0 .. MAX_CHANNELS, Destroy(c) PROVE TypeOK'
      BY <2>2 DEF Destroy
    <2>3. ASSUME NEW c \in 0 .. MAX_CHANNELS, Recv(c) PROVE TypeOK'
      <3>1. CASE Open(c) /\ count[c] # 0
        <4>1. (read_pos[c] + 1) % CHANNEL_BUF_SIZE \in Positions
          BY <3>1, StepPosition DEF Open
        <4>2. count[c] - 1 \in 0 .. CHANNEL_BUF_SIZE
          BY <3>1 DEF Open
        <4> QED BY <2>3, <3>1, <4>1, <4>2 DEF Recv, Open
      <3>2. CASE ~(Open(c) /\ count[c] # 0)
        BY <2>3, <3>2 DEF Recv
      <3> QED BY <3>1, <3>2
    <2>4. ASSUME NEW c \in 0 .. MAX_CHANNELS, NEW b \in Bytes, Send(c, b) PROVE TypeOK'
      <3>1. CASE Open(c) /\ count[c] < CHANNEL_BUF_SIZE
        <4>1. (write_pos[c] + 1) % CHANNEL_BUF_SIZE \in Positions
          BY <3>1, StepPosition DEF Open
        <4>2. count[c] + 1 \in 0 .. CHANNEL_BUF_SIZE
          BY <3>1 DEF Open
        <4>3. buf' = [buf EXCEPT ![c][write_pos[c]] = b]
          BY <2>4, <3>1 DEF Send, Open
        <4>4. buf' \in [Ids -> [Positions -> Bytes]]
          BY <4>3, <3>1 DEF Open
        <4> QED BY <2>4, <3>1, <4>1, <4>2, <4>4 DEF Send, Open
      <3>2. CASE ~(Open(c) /\ count[c] < CHANNEL_BUF_SIZE)
        BY <2>4, <3>2 DEF Send
      <3> QED BY <3>1, <3>2
    <2>5. CASE UNCHANGED vars
      BY <2>5 DEF vars
    <2> QED BY <2>1, <2>2, <2>3, <2>4, <2>5 DEF Next
  <1> QED BY <1>1, <1>2, PTL DEF Spec

\* One call keeps the three indices of every ring in agreement.
LEMMA RingStep ==
    ASSUME TypeOK, RingConsistent, [Next]_vars
    PROVE  RingConsistent'
  <1> USE SizesAssumption DEF TypeOK, RingConsistent, ring
  <1>1. CASE Create
    <2>1. (0 + 0) % CHANNEL_BUF_SIZE = 0
      BY WrapOnce
    <2> QED BY <1>1, <2>1 DEF Create
  <1>2. ASSUME NEW c \in 0 .. MAX_CHANNELS, Destroy(c) PROVE RingConsistent'
    BY <1>2 DEF Destroy
  <1>3. ASSUME NEW c \in 0 .. MAX_CHANNELS, Recv(c) PROVE RingConsistent'
    <2>1. CASE Open(c) /\ count[c] # 0
      <3>1. /\ read_pos' = [read_pos EXCEPT ![c] = (@ + 1) % CHANNEL_BUF_SIZE]
            /\ count'    = [count EXCEPT ![c] = @ - 1]
            /\ UNCHANGED <<slot, write_pos>>
        BY <1>3, <2>1 DEF Recv
      <3>2. (read_pos'[c] + count'[c]) % CHANNEL_BUF_SIZE
              = (read_pos[c] + count[c]) % CHANNEL_BUF_SIZE
        <4>1. read_pos[c] \in Positions /\ count[c] \in 1 .. CHANNEL_BUF_SIZE
          BY <2>1 DEF Open
        <4>2. /\ read_pos'[c] = (read_pos[c] + 1) % CHANNEL_BUF_SIZE
              /\ count'[c] = count[c] - 1
          BY <3>1, <2>1 DEF Open
        <4> QED BY <4>1, <4>2, ReadIndex
      <3> QED BY <3>1, <3>2, <2>1 DEF Open
    <2>2. CASE ~(Open(c) /\ count[c] # 0)
      BY <1>3, <2>2 DEF Recv
    <2> QED BY <2>1, <2>2
  <1>4. ASSUME NEW c \in 0 .. MAX_CHANNELS, NEW b \in Bytes, Send(c, b)
        PROVE  RingConsistent'
    <2>1. CASE Open(c) /\ count[c] < CHANNEL_BUF_SIZE
      <3>1. /\ write_pos' = [write_pos EXCEPT ![c] = (@ + 1) % CHANNEL_BUF_SIZE]
            /\ count'     = [count EXCEPT ![c] = @ + 1]
            /\ UNCHANGED <<slot, read_pos>>
        BY <1>4, <2>1 DEF Send, Open
      <3>2. slot[c] = "Active" =>
              write_pos'[c] = (read_pos[c] + count'[c]) % CHANNEL_BUF_SIZE
        <4>1. read_pos[c] \in Positions /\ count[c] \in 0 .. CHANNEL_BUF_SIZE - 1
          BY <2>1 DEF Open
        <4>2. /\ count'[c] = count[c] + 1
              /\ write_pos'[c] = (write_pos[c] + 1) % CHANNEL_BUF_SIZE
          BY <3>1, <2>1 DEF Open
        <4>3. write_pos[c] = (read_pos[c] + count[c]) % CHANNEL_BUF_SIZE
          BY <2>1 DEF Open
        <4> QED BY <4>1, <4>2, <4>3, WriteIndex
      <3> QED BY <3>1, <3>2, <2>1 DEF Open
    <2>2. CASE ~(Open(c) /\ count[c] < CHANNEL_BUF_SIZE)
      BY <1>4, <2>2 DEF Send
    <2> QED BY <2>1, <2>2
  <1>5. CASE UNCHANGED vars
    BY <1>5 DEF vars
  <1> QED BY <1>1, <1>2, <1>3, <1>4, <1>5 DEF Next

\* In every reachable state the write position of an active channel lies
\* count places after its read position, modulo the buffer size.
THEOREM RingsConsistent == Spec => []RingConsistent
  <1>1. Init => RingConsistent
    <2>1. (0 + 0) % CHANNEL_BUF_SIZE = 0
      BY SizesAssumption, WrapOnce
    <2> QED BY <2>1 DEF Init, RingConsistent
  <1>2. TypeOK /\ RingConsistent /\ [Next]_vars => RingConsistent'
    BY RingStep
  <1> QED BY <1>1, <1>2, TypeCorrect, PTL DEF Spec

\* Two places of a ring less than a lap apart are different places.
LEMMA DistinctPlaces ==
    ASSUME NEW r \in Positions, NEW a \in Positions, NEW b \in Positions, a # b
    PROVE  (r + a) % CHANNEL_BUF_SIZE # (r + b) % CHANNEL_BUF_SIZE
  <1>1. /\ r + a \in 0 .. 2 * CHANNEL_BUF_SIZE - 1
        /\ r + b \in 0 .. 2 * CHANNEL_BUF_SIZE - 1
    BY SizesAssumption DEF Positions
  <1>2. (r + a) % CHANNEL_BUF_SIZE
          = IF r + a < CHANNEL_BUF_SIZE THEN r + a ELSE (r + a) - CHANNEL_BUF_SIZE
    BY <1>1, WrapOnce
  <1>3. (r + b) % CHANNEL_BUF_SIZE
          = IF r + b < CHANNEL_BUF_SIZE THEN r + b ELSE (r + b) - CHANNEL_BUF_SIZE
    BY <1>1, WrapOnce
  <1> QED BY <1>2, <1>3, SizesAssumption DEF Positions

\* What makes a sequence the extension of another by one element.
LEMMA IsAppend ==
    ASSUME NEW S, NEW s \in Seq(S), NEW t \in Seq(S), NEW b \in S,
           Len(t) = Len(s) + 1, t[Len(s) + 1] = b,
           \A k \in 1 .. Len(s) : t[k] = s[k]
    PROVE  t = Append(s, b)
  <1>1. Append(s, b) \in Seq(S) /\ Len(Append(s, b)) = Len(s) + 1
    OBVIOUS
  <1>2. \A k \in 1 .. Len(t) : t[k] = Append(s, b)[k]
    OBVIOUS
  <1> QED BY <1>1, <1>2, SeqEqual

\* What makes a sequence the rest of another after its head.
LEMMA IsTail ==
    ASSUME NEW S, NEW s \in Seq(S), NEW t \in Seq(S),
           s # <<>>, Len(t) = Len(s) - 1,
           \A k \in 1 .. Len(t) : t[k] = s[k + 1]
    PROVE  t = Tail(s)
  <1>1. Tail(s) \in Seq(S) /\ Len(Tail(s)) = Len(s) - 1
    OBVIOUS
  <1>2. \A k \in 1 .. Len(t) : t[k] = Tail(s)[k]
    OBVIOUS
  <1> QED BY <1>1, <1>2, SeqEqual

\* Reading a ring from a position on gives a sequence of bytes.
LEMMA RingContents ==
    ASSUME NEW b \in [Positions -> Bytes], NEW r \in Positions,
           NEW c \in 0 .. CHANNEL_BUF_SIZE,
           NEW s, s = [k \in 1 .. c |-> b[(r + k - 1) % CHANNEL_BUF_SIZE]]
    PROVE  /\ s \in Seq(Bytes)
           /\ Len(s) = c
           /\ \A k \in 1 .. c : s[k] = b[(r + k - 1) % CHANNEL_BUF_SIZE]
  <1>1. ASSUME NEW k \in 1 .. c PROVE (r + k - 1) % CHANNEL_BUF_SIZE \in Positions
    <2>1. r + k - 1 \in 0 .. 2 * CHANNEL_BUF_SIZE - 1
      BY SizesAssumption DEF Positions
    <2> QED BY <2>1, WrapOnce
  <1> QED BY <1>1, SizesAssumption

\* The contents of a channel are a sequence of count bytes.
LEMMA ContentsType ==
    ASSUME TypeOK, NEW i \in Ids
    PROVE  /\ Contents(i) \in Seq(Bytes)
           /\ Len(Contents(i)) = count[i]
           /\ \A k \in 1 .. count[i] :
                 Contents(i)[k] = buf[i][(read_pos[i] + k - 1) % CHANNEL_BUF_SIZE]
  <1>1. /\ buf[i] \in [Positions -> Bytes] /\ read_pos[i] \in Positions
        /\ count[i] \in 0 .. CHANNEL_BUF_SIZE
    BY DEF TypeOK
  <1>2. Contents(i) = [k \in 1 .. count[i] |->
                         buf[i][(read_pos[i] + k - 1) % CHANNEL_BUF_SIZE]]
    BY DEF Contents
  <1> QED BY <1>1, <1>2, RingContents

\* The same after a step.
LEMMA ContentsTypeNext ==
    ASSUME TypeOK', NEW i \in Ids
    PROVE  /\ Contents(i)' \in Seq(Bytes)
           /\ Len(Contents(i)') = count'[i]
           /\ \A k \in 1 .. count'[i] :
                 Contents(i)'[k] = buf'[i][(read_pos'[i] + k - 1) % CHANNEL_BUF_SIZE]
  <1>1. /\ buf'[i] \in [Positions -> Bytes] /\ read_pos'[i] \in Positions
        /\ count'[i] \in 0 .. CHANNEL_BUF_SIZE
    BY DEF TypeOK
  <1>2. Contents(i)' = [k \in 1 .. count'[i] |->
                          buf'[i][(read_pos'[i] + k - 1) % CHANNEL_BUF_SIZE]]
    BY DEF Contents
  <1> QED BY <1>1, <1>2, RingContents

\* A ring whose fields a step leaves alone has the same contents after it.
LEMMA SameContents ==
    ASSUME NEW i \in Ids, buf'[i] = buf[i], read_pos'[i] = read_pos[i], count'[i] = count[i]
    PROVE  Contents(i)' = Contents(i)
  BY DEF Contents

\* A step that leaves the table alone leaves the abstract queues alone.
LEMMA SameQueues ==
    ASSUME UNCHANGED <<slot, ring>>
    PROVE  ActiveIds' = ActiveIds /\ Queues' = Queues
  BY SameContents DEF ring, ActiveIds, Queues

\* create on the table is create on the queues.
LEMMA CreateRefines ==
    ASSUME TypeOK, TypeOK', Create
    PROVE  Fifo!ACreate
  <1>1. CASE /\ \A i \in Ids : slot[i] # "Free"
             /\ ret' = [call |-> "create", some |-> FALSE]
             /\ UNCHANGED <<slot, ring>>
    <2>1. ActiveIds = Ids
      BY <1>1 DEF TypeOK, ActiveIds
    <2> QED BY <1>1, <2>1, SameQueues DEF Fifo!ACreate, Fifo!Ids, Ids
  <1>2. ASSUME NEW i \in Ids, slot[i] = "Free",
               \A j \in Ids : slot[j] = "Free" => i <= j,
               slot'      = [slot EXCEPT ![i] = "Active"],
               buf'       = [buf EXCEPT ![i] = [p \in Positions |-> ZeroByte]],
               read_pos'  = [read_pos EXCEPT ![i] = 0],
               count'     = [count EXCEPT ![i] = 0],
               ret'       = [call |-> "create", some |-> TRUE, id |-> i]
        PROVE  Fifo!ACreate
    <2>1. i \in Ids \ ActiveIds /\ \A j \in Ids \ ActiveIds : i <= j
      BY <1>2 DEF TypeOK, ActiveIds
    <2>2. ActiveIds' = ActiveIds \cup {i}
      BY <1>2 DEF TypeOK, ActiveIds
    <2>3. count'[i] = 0 /\ slot'[i] = "Active"
      BY <1>2 DEF TypeOK
    <2>4. Contents(i)' = <<>>
      BY <2>3, ContentsTypeNext, EmptySeq
    <2>5. \A j \in Ids : j # i => Queues'[j] = Queues[j]
      BY <1>2, SameContents DEF TypeOK, Queues
    <2>6. Queues' = [Queues EXCEPT ![i] = <<>>]
      BY <2>3, <2>4, <2>5 DEF Queues
    <2> QED BY <1>2, <2>1, <2>2, <2>6 DEF Fifo!ACreate, Fifo!Ids, Ids
  <1> QED BY <1>1, <1>2 DEF Create

\* destroy on the table is destroy on the queues.
LEMMA DestroyRefines ==
    ASSUME TypeOK, NEW c \in 0 .. MAX_CHANNELS, Destroy(c)
    PROVE  Fifo!ADestroy(c)
  <1>1. ActiveIds' = ActiveIds \ {c}
    BY DEF Destroy, ActiveIds
  <1>2. \A i \in Ids : Contents(i)' = Contents(i)
    BY SameContents DEF Destroy, ring
  <1>3. Queues' = [i \in Ids |-> IF i = c THEN <<>> ELSE Queues[i]]
    BY <1>2 DEF Destroy, Queues
  <1> QED BY <1>1, <1>3 DEF Destroy, Fifo!ADestroy, Fifo!Ids, Ids

\* recv on the table is recv on the queues.
LEMMA RecvRefines ==
    ASSUME TypeOK, TypeOK', NEW c \in 0 .. MAX_CHANNELS, Recv(c)
    PROVE  Fifo!ARecv(c)
  <1>1. CASE Open(c) /\ count[c] # 0
    <2>1. /\ read_pos' = [read_pos EXCEPT ![c] = (@ + 1) % CHANNEL_BUF_SIZE]
          /\ count'    = [count EXCEPT ![c] = @ - 1]
          /\ ret'      = [call |-> "recv", id |-> c, some |-> TRUE,
                          byte |-> buf[c][read_pos[c]]]
          /\ UNCHANGED <<slot, buf>>
      BY <1>1 DEF Recv
    <2>2. /\ c \in Ids /\ c \in ActiveIds /\ ActiveIds' = ActiveIds
          /\ Queues[c] = Contents(c) /\ Queues'[c] = Contents(c)'
      BY <1>1, <2>1 DEF Open, ActiveIds, Queues
    <2>3. /\ count[c] \in 1 .. CHANNEL_BUF_SIZE /\ count'[c] = count[c] - 1
          /\ read_pos[c] \in Positions
          /\ read_pos'[c] = (read_pos[c] + 1) % CHANNEL_BUF_SIZE
          /\ buf'[c] = buf[c]
      BY <1>1, <2>1, <2>2, SizesAssumption DEF TypeOK
    <2> DEFINE s == Contents(c)  t == Contents(c)'
    <2>4. /\ s \in Seq(Bytes) /\ Len(s) = count[c]
          /\ \A k \in 1 .. count[c] :
                s[k] = buf[c][(read_pos[c] + k - 1) % CHANNEL_BUF_SIZE]
      BY <2>2, ContentsType
    <2>5. /\ t \in Seq(Bytes) /\ Len(t) = count'[c]
          /\ \A k \in 1 .. count'[c] :
                t[k] = buf'[c][(read_pos'[c] + k - 1) % CHANNEL_BUF_SIZE]
      BY <2>2, ContentsTypeNext
    <2> HIDE DEF s, t
    <2>6. ASSUME NEW k \in 1 .. Len(t) PROVE t[k] = s[k + 1]
      <3>1. /\ k + 1 \in 1 .. count[c] /\ k \in 1 .. count'[c]
            /\ k \in 1 .. CHANNEL_BUF_SIZE
        BY <2>3, <2>5, SizesAssumption
      <3>2. (((read_pos[c] + 1) % CHANNEL_BUF_SIZE) + (k - 1)) % CHANNEL_BUF_SIZE
              = (read_pos[c] + k) % CHANNEL_BUF_SIZE
        BY <2>3, <3>1, ReadIndex
      <3>3. /\ t[k] = buf[c][(read_pos'[c] + k - 1) % CHANNEL_BUF_SIZE]
            /\ s[k + 1] = buf[c][(read_pos[c] + (k + 1) - 1) % CHANNEL_BUF_SIZE]
        BY <3>1, <2>3, <2>4, <2>5
      <3>4. read_pos'[c] \in Positions
        BY <2>3, StepPosition
      <3>5. /\ read_pos'[c] + k - 1 = read_pos'[c] + (k - 1)
            /\ read_pos[c] + (k + 1) - 1 = read_pos[c] + k
        BY <2>3, <3>1, <3>4, SizesAssumption DEF Positions
      <3> QED BY <3>2, <3>3, <3>5, <2>3
    <2>7. s # <<>> /\ Len(t) = Len(s) - 1
      BY <2>3, <2>4, <2>5, SizesAssumption
    <2>8. t = Tail(s)
      BY <2>4, <2>5, <2>6, <2>7, IsTail
    <2>9. Head(s) = buf[c][read_pos[c]]
      <3>1. /\ read_pos[c] + 1 - 1 = read_pos[c]
            /\ read_pos[c] \in 0 .. 2 * CHANNEL_BUF_SIZE - 1
            /\ read_pos[c] < CHANNEL_BUF_SIZE
        BY <2>3, SizesAssumption DEF Positions
      <3>2. read_pos[c] % CHANNEL_BUF_SIZE = read_pos[c]
        BY <3>1, WrapOnce
      <3>3. Head(s) = s[1] /\ 1 \in 1 .. count[c]
        BY <2>3, <2>4, <2>7, SizesAssumption
      <3> QED BY <2>4, <3>1, <3>2, <3>3
    <2>10. \A j \in Ids : j # c => Queues'[j] = Queues[j]
      BY <2>1, SameContents DEF TypeOK, Queues
    <2>11. Queues' = [Queues EXCEPT ![c] = Tail(@)]
      BY <2>2, <2>8, <2>10 DEF Queues, s, t
    <2> QED BY <2>1, <2>2, <2>7, <2>9, <2>11 DEF Fifo!ARecv, s
  <1>2. CASE ~(Open(c) /\ count[c] # 0)
    <2>1. /\ UNCHANGED <<slot, ring>> /\ ret' = [call |-> "recv", id |-> c, some |-> FALSE]
          /\ (Open(c) => count[c] = 0)
      BY <1>2 DEF Recv
    <2>2. c \in ActiveIds => Queues[c] = <<>>
      BY <2>1, ContentsType, EmptySeq DEF Open, ActiveIds, Queues
    <2> QED BY <2>1, <2>2, SameQueues DEF Fifo!ARecv
  <1> QED BY <1>1, <1>2

\* Where the k-th byte of a queue lies, before the index wraps.
LEMMA PlaceOfByte ==
    ASSUME NEW r \in Positions, NEW c \in 0 .. CHANNEL_BUF_SIZE - 1,
           NEW k \in 1 .. CHANNEL_BUF_SIZE - 1
    PROVE  /\ k - 1 \in Positions /\ c \in Positions
           /\ r + k - 1 = r + (k - 1)
           /\ r + (k - 1) \in 0 .. 2 * CHANNEL_BUF_SIZE - 1
  BY SizesAssumption DEF Positions

\* send on the table is send on the queues: the byte lands behind the others,
\* in a place none of them occupies.
LEMMA SendRefines ==
    ASSUME TypeOK, TypeOK', RingConsistent, NEW c \in 0 .. MAX_CHANNELS,
           NEW b \in Bytes, Send(c, b)
    PROVE  Fifo!ASend(c, b)
  <1>1. CASE Open(c) /\ count[c] < CHANNEL_BUF_SIZE
    <2>1. /\ buf'   = [buf EXCEPT ![c][write_pos[c]] = b]
          /\ count' = [count EXCEPT ![c] = @ + 1]
          /\ ret'   = [call |-> "send", id |-> c, ok |-> TRUE]
          /\ UNCHANGED <<slot, read_pos>>
      BY <1>1, SizesAssumption DEF Send, TypeOK, Open
    <2>2. /\ c \in Ids /\ c \in ActiveIds /\ ActiveIds' = ActiveIds
          /\ Queues[c] = Contents(c) /\ Queues'[c] = Contents(c)'
      BY <1>1, <2>1 DEF Open, ActiveIds, Queues
    <2>3. /\ count[c] \in 0 .. CHANNEL_BUF_SIZE - 1 /\ count'[c] = count[c] + 1
          /\ read_pos[c] \in Positions /\ read_pos'[c] = read_pos[c]
          /\ write_pos[c] \in Positions
          /\ write_pos[c] = (read_pos[c] + count[c]) % CHANNEL_BUF_SIZE
      BY <1>1, <2>1, <2>2, SizesAssumption DEF TypeOK, RingConsistent, Open
    <2>4. /\ buf'[c][write_pos[c]] = b
          /\ \A p \in Positions : p # write_pos[c] => buf'[c][p] = buf[c][p]
      BY <2>1, <2>2, <2>3 DEF TypeOK
    <2> DEFINE s == Contents(c)  t == Contents(c)'
    <2>5. /\ s \in Seq(Bytes) /\ Len(s) = count[c]
          /\ \A k \in 1 .. count[c] :
                s[k] = buf[c][(read_pos[c] + k - 1) % CHANNEL_BUF_SIZE]
      BY <2>2, ContentsType
    <2>6. /\ t \in Seq(Bytes) /\ Len(t) = count'[c]
          /\ \A k \in 1 .. count'[c] :
                t[k] = buf'[c][(read_pos'[c] + k - 1) % CHANNEL_BUF_SIZE]
      BY <2>2, ContentsTypeNext
    <2> HIDE DEF s, t
    <2>7. ASSUME NEW k \in 1 .. Len(s) PROVE t[k] = s[k]
      <3>0. /\ k \in 1 .. count[c] /\ k \in 1 .. count'[c] /\ k - 1 # count[c]
            /\ k \in 1 .. CHANNEL_BUF_SIZE - 1
        BY <2>3, <2>5, SizesAssumption
      <3>1. /\ k - 1 \in Positions /\ count[c] \in Positions
            /\ read_pos[c] + k - 1 = read_pos[c] + (k - 1)
            /\ read_pos[c] + (k - 1) \in 0 .. 2 * CHANNEL_BUF_SIZE - 1
        BY <2>3, <3>0, PlaceOfByte
      <3> DEFINE p == (read_pos[c] + (k - 1)) % CHANNEL_BUF_SIZE
      <3>2. p \in Positions /\ p # write_pos[c]
        BY <3>0, <3>1, <2>3, DistinctPlaces, WrapOnce
      <3>3. t[k] = buf'[c][p] /\ s[k] = buf[c][p]
        BY <3>0, <3>1, <2>3, <2>5, <2>6
      <3> QED BY <3>2, <3>3, <2>4
    <2>8. Len(t) = Len(s) + 1 /\ t[Len(s) + 1] = b
      <3>1. /\ count[c] + 1 \in 1 .. count'[c]
            /\ read_pos[c] + (count[c] + 1) - 1 = read_pos[c] + count[c]
        BY <2>3, SizesAssumption DEF Positions
      <3> QED BY <3>1, <2>3, <2>4, <2>5, <2>6
    <2>9. t = Append(s, b)
      BY <2>5, <2>6, <2>7, <2>8, IsAppend
    <2>10. \A j \in Ids : j # c => Queues'[j] = Queues[j]
      BY <2>1, SameContents DEF TypeOK, Queues
    <2>11. Queues' = [Queues EXCEPT ![c] = Append(@, b)]
      BY <2>2, <2>9, <2>10 DEF Queues, s, t
    <2>12. Len(Queues[c]) < CHANNEL_BUF_SIZE
      BY <2>2, <2>3, <2>5, SizesAssumption DEF s
    <2> QED BY <2>1, <2>2, <2>11, <2>12 DEF Fifo!ASend
  <1>2. CASE ~(Open(c) /\ count[c] < CHANNEL_BUF_SIZE)
    <2>1. /\ UNCHANGED <<slot, ring>> /\ ret' = [call |-> "send", id |-> c, ok |-> FALSE]
          /\ (Open(c) => count[c] >= CHANNEL_BUF_SIZE)
      BY <1>2 DEF Send
    <2>2. c \in ActiveIds => Len(Queues[c]) = CHANNEL_BUF_SIZE
      BY <2>1, ContentsType, SizesAssumption DEF Open, ActiveIds, Queues, TypeOK
    <2> QED BY <2>1, <2>2, SameQueues DEF Fifo!ASend
  <1> QED BY <1>1, <1>2

\* The ring-buffer channels of ipc.rs implement bounded first-in first-out
\* queues: every call changes the abstract queues, and returns, what the same
\* call on ChannelFifo does, for any number of channels and any buffer size.
THEOREM RingsImplementFifo == Spec => ImplementsFifo
  <1>1. Init => Fifo!AInit
    <2> SUFFICES ASSUME Init PROVE Fifo!AInit
      OBVIOUS
    <2>1. ActiveIds = {}
      BY DEF Init, ActiveIds
    <2>2. Queues = [i \in Ids |-> <<>>]
      BY DEF Init, Queues
    <2> QED BY <2>1, <2>2 DEF Init, Fifo!AInit, Fifo!Ids, Ids
  <1>2. TypeOK /\ TypeOK' /\ RingConsistent /\ [Next]_vars => [Fifo!ANext]_(Fifo!avars)
    <2> SUFFICES ASSUME TypeOK, TypeOK', RingConsistent, [Next]_vars
                 PROVE  [Fifo!ANext]_(Fifo!avars)
      OBVIOUS
    <2>1. CASE Create
      BY <2>1, CreateRefines DEF Fifo!ANext
    <2>2. ASSUME NEW c \in 0 .. MAX_CHANNELS, Destroy(c) PROVE Fifo!ANext
      BY <2>2, DestroyRefines DEF Fifo!ANext
    <2>3. ASSUME NEW c \in 0 .. MAX_CHANNELS, Recv(c) PROVE Fifo!ANext
      BY <2>3, RecvRefines DEF Fifo!ANext
    <2>4. ASSUME NEW c \in 0 .. MAX_CHANNELS, NEW b \in Bytes, Send(c, b) PROVE Fifo!ANext
      BY <2>4, SendRefines DEF Fifo!ANext
    <2>5. CASE UNCHANGED vars
      BY <2>5, SameQueues DEF vars, ring, Fifo!avars
    <2> QED BY <2>1, <2>2, <2>3, <2>4, <2>5 DEF Next
  <1> QED BY <1>1, <1>2, TypeCorrect, RingsConsistent, PTL DEF Spec, ImplementsFifo, Fifo!ASpec

-----------------------------------------------------------------------------
\* Shared memory

FiniteLists == \A s \in Slots : IsFiniteSet(attached[s])

IdsBelowNext == \A s \in active : id[s] < next_id

ShmemInv ==
    /\ ShmemTypeOK
    /\ FiniteLists
    /\ IdsBelowNext
    /\ IdsUnique
    /\ RefCountsAttached
    /\ AddressStable

\* Creating a region in a free slot touches no region in use, and its id is new.
LEMMA CreateKeeps ==
    ASSUME ShmemInv, NEW pages, create_shmem(pages)
    PROVE  ShmemInv'
  <1>1. CASE pages <= free_frames /\ active # Slots
    <2>1. PICK s \in Slots \ active :
            /\ active' = active \cup {s}
            /\ id' = [id EXCEPT ![s] = next_id]
            /\ ref_count' = [ref_count EXCEPT ![s] = 0]
            /\ attached' = [attached EXCEPT ![s] = {}]
            /\ next_id' = next_id + 1
      BY <1>1 DEF create_shmem
    <2>2. running' = running /\ told' = told
      BY DEF create_shmem
    <2>3. ShmemTypeOK'
      BY <2>1, <2>2 DEF ShmemInv, ShmemTypeOK
    <2>4. FiniteLists'
      BY <2>1, FS_EmptySet DEF ShmemInv, ShmemTypeOK, FiniteLists
    <2>5. IdsBelowNext'
      BY <2>1 DEF ShmemInv, ShmemTypeOK, IdsBelowNext
    <2>6. IdsUnique'
      BY <2>1 DEF ShmemInv, ShmemTypeOK, IdsBelowNext, IdsUnique
    <2>7. RefCountsAttached'
      BY <2>1, FS_EmptySet DEF ShmemInv, ShmemTypeOK, RefCountsAttached
    <2>8. AddressStable'
      BY <2>1, <2>2 DEF ShmemInv, ShmemTypeOK, AddressStable
    <2> QED BY <2>3, <2>4, <2>5, <2>6, <2>7, <2>8 DEF ShmemInv
  <1>2. CASE ~(pages <= free_frames /\ active # Slots)
    <2>1. UNCHANGED <<active, id, ref_count, attached, next_id, running, told>>
      BY <1>2 DEF create_shmem
    <2> QED
      BY <2>1 DEF ShmemInv, ShmemTypeOK, FiniteLists, IdsBelowNext, IdsUnique, RefCountsAttached,
                  AddressStable
  <1> QED BY <1>1, <1>2

\* Attaching adds a process to the list and one to the count, or changes neither.
LEMMA AttachKeeps ==
    ASSUME ShmemInv, NEW p \in Pids, shmat(p)
    PROVE  ShmemInv'
  <1>1. PICK i \in RegionIds : \E s \in With(i) :
          attach_shmem(i, p, s) /\ told' = told \cup {<<p, i, s>>}
    BY DEF shmat
  <1>2. PICK s \in With(i) : attach_shmem(i, p, s) /\ told' = told \cup {<<p, i, s>>}
    BY <1>1
  <1>3. UNCHANGED <<active, id, next_id, running>>
    BY DEF shmat
  <1>4. s \in active /\ s \in Slots /\ id[s] = i
    BY <1>2 DEF With, ShmemInv, ShmemTypeOK
  <1>5. /\ IsFiniteSet(attached[s])
        /\ ref_count[s] = Cardinality(attached[s])
        /\ ref_count[s] \in Nat
        /\ attached[s] \subseteq Pids
    BY <1>4 DEF ShmemInv, ShmemTypeOK, FiniteLists, RefCountsAttached
  <1>6. /\ attached' = [attached EXCEPT ![s] = attached[s] \cup {p}]
        /\ ref_count' = [ref_count EXCEPT ![s] = Cardinality(attached[s] \cup {p})]
    <2>1. CASE p \in attached[s]
      <3>1. attached' = attached /\ ref_count' = ref_count /\ attached[s] \cup {p} = attached[s]
        BY <1>2, <2>1 DEF attach_shmem
      <3> QED BY <3>1, <1>4, <1>5 DEF ShmemInv, ShmemTypeOK
    <2>2. CASE p \notin attached[s]
      <3>1. Cardinality(attached[s] \cup {p}) = Cardinality(attached[s]) + 1
        BY <2>2, <1>5, FS_AddElement
      <3> QED BY <1>2, <2>2, <3>1, <1>5, <1>4 DEF attach_shmem, ShmemInv, ShmemTypeOK
    <2> QED BY <2>1, <2>2
  <1>7. IsFiniteSet(attached[s] \cup {p}) /\ Cardinality(attached[s] \cup {p}) \in Nat
    BY <1>5, FS_AddElement, FS_CardinalityType
  <1>8. ShmemTypeOK'
    <2>1. /\ active' \subseteq Slots /\ id' \in [Slots -> Nat] /\ next_id' \in Nat
          /\ running' \subseteq Pids
      BY <1>3 DEF ShmemInv, ShmemTypeOK
    <2>2. ref_count' \in [Slots -> Nat]
      BY <1>6, <1>7, <1>4 DEF ShmemInv, ShmemTypeOK
    <2>3. attached' \in [Slots -> SUBSET Pids]
      BY <1>6, <1>5, <1>4 DEF ShmemInv, ShmemTypeOK
    <2>4. told' \subseteq Pids \X RegionIds \X Slots
      BY <1>2, <1>4 DEF ShmemInv, ShmemTypeOK
    <2> QED BY <2>1, <2>2, <2>3, <2>4 DEF ShmemTypeOK
  <1>9. FiniteLists'
    BY <1>6, <1>7 DEF ShmemInv, ShmemTypeOK, FiniteLists
  <1>10. IdsBelowNext' /\ IdsUnique'
    BY <1>3 DEF ShmemInv, IdsBelowNext, IdsUnique
  <1>11. RefCountsAttached'
    BY <1>3, <1>6 DEF ShmemInv, ShmemTypeOK, RefCountsAttached
  <1>12. AddressStable'
    <2> SUFFICES ASSUME NEW t \in told'
                 PROVE  t[3] \in active' /\ id'[t[3]] = t[2] /\ t[1] \in attached'[t[3]]
      BY DEF AddressStable
    <2>1. CASE t \in told
      <3>1. t[3] \in active /\ id[t[3]] = t[2] /\ t[1] \in attached[t[3]]
        BY <2>1 DEF ShmemInv, AddressStable
      <3>2. t[3] \in Slots
        BY <3>1 DEF ShmemInv, ShmemTypeOK
      <3> QED BY <3>1, <3>2, <1>3, <1>6 DEF ShmemInv, ShmemTypeOK
    <2>2. CASE t = <<p, i, s>>
      BY <2>2, <1>3, <1>4, <1>6 DEF ShmemInv, ShmemTypeOK
    <2> QED BY <2>1, <2>2, <1>2
  <1> QED BY <1>8, <1>9, <1>10, <1>11, <1>12 DEF ShmemInv

\* Detaching takes one process off the list and one off the count; the slot is
\* freed only when nobody is left on the list.
LEMMA DetachKeeps ==
    ASSUME ShmemInv, NEW p \in Pids, shmdt(p)
    PROVE  ShmemInv'
  <1>1. PICK i \in RegionIds : \E s \in With(i) :
          detach_shmem(i, p, s) /\ told' = {t \in told : ~(t[1] = p /\ t[2] = i)}
    BY DEF shmdt
  <1>2. PICK s \in With(i) :
          detach_shmem(i, p, s) /\ told' = {t \in told : ~(t[1] = p /\ t[2] = i)}
    BY <1>1
  <1>3. UNCHANGED <<id, next_id, running>>
    BY DEF shmdt
  <1>4. s \in active /\ s \in Slots /\ id[s] = i
    BY <1>2 DEF With, ShmemInv, ShmemTypeOK
  <1>5. /\ IsFiniteSet(attached[s])
        /\ ref_count[s] = Cardinality(attached[s])
        /\ ref_count[s] \in Nat
        /\ attached[s] \subseteq Pids
    BY <1>4 DEF ShmemInv, ShmemTypeOK, FiniteLists, RefCountsAttached
  <1>6. CASE p \notin attached[s]
    <2>1. UNCHANGED <<active, attached, ref_count>> /\ told' \subseteq told
      BY <1>2, <1>6 DEF detach_shmem
    <2> QED
      BY <2>1, <1>3 DEF ShmemInv, ShmemTypeOK, FiniteLists, IdsBelowNext, IdsUnique,
                        RefCountsAttached, AddressStable
  <1>7. CASE p \in attached[s]
    <2> DEFINE rest == attached[s] \ {p}
    <2>0. IsFiniteSet(rest) /\ Cardinality(rest) = Cardinality(attached[s]) - 1
      BY <1>5, <1>7, FS_RemoveElement
    <2>1. IsFiniteSet(rest) /\ Cardinality(rest) = ref_count[s] - 1 /\ Cardinality(rest) \in Nat
      BY <1>5, <2>0, FS_CardinalityType
    <2>2. attached' = [attached EXCEPT ![s] = rest]
      BY <1>2, <1>7 DEF detach_shmem
    <2>3. ref_count' = [ref_count EXCEPT ![s] = Cardinality(rest)]
      <3>1. ref_count[s] # 0
        BY <2>1, <1>5
      <3> QED BY <1>2, <1>7, <2>1, <3>1 DEF detach_shmem
    <2>4. active' = IF ref_count[s] <= 1 THEN active \ {s} ELSE active
      BY <1>2, <1>7 DEF detach_shmem
    <2>5. ShmemTypeOK'
      <3>1. ref_count' \in [Slots -> Nat]
        BY <2>3, <2>1, <1>4 DEF ShmemInv, ShmemTypeOK
      <3>2. attached' \in [Slots -> SUBSET Pids]
        BY <2>2, <1>5, <1>4 DEF ShmemInv, ShmemTypeOK
      <3>3. told' \subseteq Pids \X RegionIds \X Slots
        BY <1>2 DEF ShmemInv, ShmemTypeOK
      <3> QED BY <3>1, <3>2, <3>3, <2>4, <1>3 DEF ShmemInv, ShmemTypeOK
    <2>6. FiniteLists'
      BY <2>2, <2>1 DEF ShmemInv, ShmemTypeOK, FiniteLists
    <2>7. IdsBelowNext' /\ IdsUnique'
      BY <2>4, <1>3 DEF ShmemInv, IdsBelowNext, IdsUnique
    <2>8. RefCountsAttached'
      <3> SUFFICES ASSUME NEW r \in active' PROVE ref_count'[r] = Cardinality(attached'[r])
        BY DEF RefCountsAttached
      <3>1. r \in active /\ r \in Slots
        BY <2>4 DEF ShmemInv, ShmemTypeOK
      <3>2. CASE r = s
        BY <3>2, <2>2, <2>3, <1>4 DEF ShmemInv, ShmemTypeOK
      <3>3. CASE r # s
        BY <3>3, <3>1, <2>2, <2>3 DEF ShmemInv, ShmemTypeOK, RefCountsAttached
      <3> QED BY <3>2, <3>3
    <2>9. AddressStable'
      <3> SUFFICES ASSUME NEW t \in told'
                   PROVE  t[3] \in active' /\ id'[t[3]] = t[2] /\ t[1] \in attached'[t[3]]
        BY DEF AddressStable
      <3>1. t \in told /\ ~(t[1] = p /\ t[2] = i)
        BY <1>2
      <3>2. t[3] \in active /\ id[t[3]] = t[2] /\ t[1] \in attached[t[3]]
        BY <3>1 DEF ShmemInv, AddressStable
      <3>3. CASE t[3] # s
        BY <3>2, <3>3, <2>2, <2>4, <1>3 DEF ShmemInv, ShmemTypeOK
      <3>4. CASE t[3] = s
        <4>1. t[1] # p
          BY <3>1, <3>2, <3>4, <1>4
        <4>2. t[1] \in rest
          BY <4>1, <3>2, <3>4
        <4>3. Cardinality(rest) # 0
          BY <4>2, <2>1, FS_EmptySet
        <4>4. active' = active
          <5> HIDE DEF rest
          <5>1. ref_count[s] \in Nat /\ Cardinality(rest) \in Nat
                /\ Cardinality(rest) = ref_count[s] - 1 /\ Cardinality(rest) # 0
            BY <4>3, <2>1, <1>5, Zenon
          <5>2. ~(ref_count[s] <= 1)
            BY ONLY <5>1
          <5> QED BY ONLY <5>2, <2>4
        <4> QED BY <4>2, <4>4, <3>2, <3>4, <2>2, <1>3, <1>4 DEF ShmemInv, ShmemTypeOK
      <3> QED BY <3>3, <3>4
    <2> QED BY <2>5, <2>6, <2>7, <2>8, <2>9 DEF ShmemInv
  <1> QED BY <1>6, <1>7

\* Destroying a region and exiting forget addresses and touch no other region.
LEMMA EndKeeps ==
    ASSUME ShmemInv,
           (\E i \in RegionIds : destroy_shmem(i)) \/ (\E p \in Pids : exit(p))
    PROVE  ShmemInv'
  <1>1. ASSUME NEW i \in RegionIds, destroy_shmem(i) PROVE ShmemInv'
    <2>1. PICK s \in With(i) : active' = active \ {s}
      BY <1>1 DEF destroy_shmem
    <2>2. s \in active /\ id[s] = i
      BY <2>1 DEF With
    <2>3. /\ told' = {t \in told : t[2] # i}
          /\ UNCHANGED <<id, ref_count, attached, next_id, running>>
      BY <1>1 DEF destroy_shmem
    <2>4. ShmemTypeOK' /\ FiniteLists' /\ IdsBelowNext' /\ IdsUnique' /\ RefCountsAttached'
      BY <2>1, <2>3 DEF ShmemInv, ShmemTypeOK, FiniteLists, IdsBelowNext, IdsUnique, RefCountsAttached
    <2>5. AddressStable'
      BY <2>1, <2>2, <2>3 DEF ShmemInv, AddressStable
    <2> QED BY <2>4, <2>5 DEF ShmemInv
  <1>2. ASSUME NEW p \in Pids, exit(p) PROVE ShmemInv'
    <2>1. /\ told' \subseteq told /\ running' \subseteq running
          /\ UNCHANGED <<active, id, ref_count, attached, next_id>>
      BY <1>2 DEF exit
    <2> QED
      BY <2>1 DEF ShmemInv, ShmemTypeOK, FiniteLists, IdsBelowNext, IdsUnique, RefCountsAttached,
                  AddressStable
  <1> QED BY <1>1, <1>2

\* The inductive invariant holds in every reachable state.
THEOREM ShmemInvariant == ShmemSpec => []ShmemInv
  <1>1. ShmemInit => ShmemInv
    BY FS_EmptySet DEF ShmemInit, ShmemInv, ShmemTypeOK, FiniteLists, IdsBelowNext, IdsUnique,
                       RefCountsAttached, AddressStable
  <1>2. ShmemInv /\ [ShmemNext]_shvars => ShmemInv'
    <2> SUFFICES ASSUME ShmemInv, [ShmemNext]_shvars PROVE ShmemInv'
      OBVIOUS
    <2>1. ASSUME NEW p \in Pids, shmget(p) PROVE ShmemInv'
      BY <2>1, CreateKeeps DEF shmget
    <2>2. ASSUME NEW p \in Pids, shmat(p) PROVE ShmemInv'
      BY <2>2, AttachKeeps
    <2>3. ASSUME NEW p \in Pids, shmdt(p) PROVE ShmemInv'
      BY <2>3, DetachKeeps
    <2>4. ASSUME NEW p \in Pids, exit(p) PROVE ShmemInv'
      BY <2>4, EndKeeps
    <2>5. ASSUME NEW i \in RegionIds, destroy_shmem(i) PROVE ShmemInv'
      BY <2>5, EndKeeps
    <2>6. CASE UNCHANGED shvars
      BY <2>6 DEF shvars, ShmemInv, ShmemTypeOK, FiniteLists, IdsBelowNext, IdsUnique,
                  RefCountsAttached, AddressStable
    <2> QED BY <2>1, <2>2, <2>3, <2>4, <2>5, <2>6 DEF ShmemNext
  <1> QED BY <1>1, <1>2, PTL DEF ShmemSpec

\* shmem.rs: the count that decides when a region goes away is the number of
\* processes on its list, for any number of processes, regions and calls.
THEOREM CountsAreExact == ShmemSpec => []RefCountsAttached
  <1>1. ShmemInv => RefCountsAttached
    BY DEF ShmemInv
  <1> QED BY <1>1, ShmemInvariant, PTL

\* shmem.rs: the slot whose address a process was given holds its region until
\* it detaches, exits or the region is destroyed.
THEOREM AddressesAreStable == ShmemSpec => []AddressStable
  <1>1. ShmemInv => AddressStable
    BY DEF ShmemInv
  <1> QED BY <1>1, ShmemInvariant, PTL
=============================================================================
