----------------------------- MODULE TcpProofs -----------------------------
(***************************************************************************)
(* A client that connected agrees with its peer on the connection, and     *)
(* what a socket takes in is in order, for any table and buffer sizes and  *)
(* any number of connections, as long as their sequence numbers are apart. *)
(*                                                                         *)
(* The invariant says of every segment on its way which connection its     *)
(* numbers belong to (SegmentOK), of every socket that its numbers are     *)
(* those it began with plus what it sent and took in (SocketOK), and of    *)
(* every call what it waits for (CallsOK).  Numbers used before are not    *)
(* generated again, so that a segment of an earlier connection, repeated   *)
(* or late, never has the number a socket expects.                         *)
(***************************************************************************)
EXTENDS Tcp, WellFoundedInduction, TLAPS

-----------------------------------------------------------------------------
\* A set of numbers has a least one, which is the socket poll_incoming takes.
LEMMA Least ==
    ASSUME NEW S \in SUBSET Nat, S # {}
    PROVE  \E k \in S : \A j \in S : k <= j
  <1> DEFINE R == {ss \in Nat \X Nat : ss[1] < ss[2]}
  <1>1. IsWellFoundedOn(R, Nat)
    <2>1. OpToRel(<, Nat) = R
      BY DEF OpToRel
    <2> QED BY <2>1, NatLessThanWellFounded, Zenon
  <1>2. PICK x \in S : \A y \in S : ~ (<<y, x>> \in R)
    <2> HIDE DEF R
    <2> QED BY <1>1, WFMin, Zenon
  <1>3. ASSUME NEW y \in S PROVE x <= y
    <2>1. x \in Nat /\ y \in Nat
      OBVIOUS
    <2>2. ~(y < x)
      <3>1. <<y, x>> \in Nat \X Nat /\ <<y, x>>[1] = y /\ <<y, x>>[2] = x
        BY <2>1
      <3> QED BY <3>1, <1>2
    <2> QED BY <2>1, <2>2
  <1> QED BY <1>3

-----------------------------------------------------------------------------
(* Sequence numbers *)

\* A counter below its bound may go one up, and so may what it bounds.
LEMMA CountUp ==
    \A a, b, c \in Nat : a <= b /\ b < c => a + 1 \in 1 .. c /\ a + 1 \in 0 .. c
  OBVIOUS

Seqs == 0 .. SeqSpace - 1

\* Addition wraps at most once.
LEMMA PlusWraps ==
    ASSUME NEW n \in Seqs, NEW k \in 0 .. SeqSpace
    PROVE  /\ Plus(n, k) = IF n + k < SeqSpace THEN n + k ELSE n + k - SeqSpace
           /\ Plus(n, k) \in Seqs
  <1>1. CASE n + k < SeqSpace
    <2>1. n + k \in 0 .. SeqSpace - 1
      BY <1>1, TcpAssumption DEF Seqs
    <2>2. (n + k) % SeqSpace = n + k
      BY <2>1, TcpAssumption
    <2> QED BY <1>1, <2>1, <2>2 DEF Plus, Seqs
  <1>2. CASE ~(n + k < SeqSpace)
    <2>1. n + k - SeqSpace \in 0 .. SeqSpace - 1 /\ n + k = SeqSpace + (n + k - SeqSpace)
      BY <1>2, TcpAssumption DEF Seqs
    <2>2. (n + k) % SeqSpace = n + k - SeqSpace
      BY <2>1, TcpAssumption
    <2> QED BY <1>2, <2>1, <2>2 DEF Plus, Seqs
  <1> QED BY <1>1, <1>2

\* A sum is a sequence number.
LEMMA PlusType ==
    ASSUME NEW n \in Nat, NEW k \in Nat
    PROVE  Plus(n, k) \in Seqs
  BY TcpAssumption DEF Plus, Seqs

\* One more.
LEMMA PlusNext ==
    ASSUME NEW n \in Seqs, NEW k \in 0 .. MaxSends
    PROVE  Plus(Plus(n, k), 1) = Plus(n, k + 1)
  <1>1. k \in 0 .. SeqSpace /\ k + 1 \in 0 .. SeqSpace /\ 1 \in 0 .. SeqSpace
    BY TcpAssumption
  <1>2. Plus(n, k) = IF n + k < SeqSpace THEN n + k ELSE n + k - SeqSpace
    BY <1>1, PlusWraps
  <1>3. Plus(n, k + 1) = IF n + (k + 1) < SeqSpace THEN n + (k + 1) ELSE n + (k + 1) - SeqSpace
    BY <1>1, PlusWraps
  <1>4. Plus(n, k) \in Seqs
    BY <1>1, PlusWraps
  <1>5. Plus(Plus(n, k), 1) = IF Plus(n, k) + 1 < SeqSpace THEN Plus(n, k) + 1
                              ELSE Plus(n, k) + 1 - SeqSpace
    BY <1>1, <1>4, PlusWraps
  <1> QED BY <1>1, <1>2, <1>3, <1>5, TcpAssumption DEF Seqs

\* Numbers less than a lap apart are told apart.
LEMMA PlusSame ==
    ASSUME NEW n \in Seqs, NEW i \in 0 .. MaxSends + 1, NEW j \in 0 .. MaxSends + 1,
           Plus(n, i) = Plus(n, j)
    PROVE  i = j
  <1>1. i \in 0 .. SeqSpace /\ j \in 0 .. SeqSpace
    BY TcpAssumption
  <1>2. Plus(n, i) = IF n + i < SeqSpace THEN n + i ELSE n + i - SeqSpace
    BY <1>1, PlusWraps
  <1>3. Plus(n, j) = IF n + j < SeqSpace THEN n + j ELSE n + j - SeqSpace
    BY <1>1, PlusWraps
  <1>4. /\ n \in Nat /\ i \in Nat /\ j \in Nat /\ SeqSpace \in Nat
        /\ n < SeqSpace /\ i < SeqSpace /\ j < SeqSpace
    BY TcpAssumption DEF Seqs
  <1>5. (IF n + i < SeqSpace THEN n + i ELSE n + i - SeqSpace)
          = (IF n + j < SeqSpace THEN n + j ELSE n + j - SeqSpace)
    BY <1>2, <1>3, Zenon
  <1> QED BY ONLY <1>4, <1>5

\* The SYN a SYN-ACK acknowledges is known from its number.
LEMMA PlusOneSame ==
    ASSUME NEW m \in Seqs, NEW n \in Seqs, Plus(m, 1) = Plus(n, 1)
    PROVE  m = n
  <1>1. 1 \in 0 .. SeqSpace
    BY TcpAssumption
  <1>2. Plus(m, 1) = IF m + 1 < SeqSpace THEN m + 1 ELSE m + 1 - SeqSpace
    BY <1>1, PlusWraps
  <1>3. Plus(n, 1) = IF n + 1 < SeqSpace THEN n + 1 ELSE n + 1 - SeqSpace
    BY <1>1, PlusWraps
  <1> QED BY <1>2, <1>3, TcpAssumption DEF Seqs

\* generate_isn returns a sequence number.
LEMMA IsnType ==
    ASSUME NEW h \in Host, NEW n \in 0 .. MaxOpens - 1
    PROVE  IsnAt(h, n) \in Seqs
  <1>1. OpenTick[h][n] \in Nat
    BY TcpAssumption
  <1>2. OpenTick[h][n] * HashFactor \in Nat
    BY <1>1, TcpAssumption
  <1> QED BY <1>2, TcpAssumption DEF IsnAt, Seqs

-----------------------------------------------------------------------------
(* The invariant *)

Ports    == ClientPorts \cup {ServerPort}
Tokens   == [iss : Seqs, i : 1 .. MaxSends]
States   == {"Established", "CloseWait", "FinWait1", "FinWait2", "TimeWait", "Closed"}
Segments ==
    [to : Host, sport : Ports, dport : Ports, seq : Seqs, ack : Seqs,
     flags : SUBSET {"SYN", "ACK", "RST", "FIN", "PSH"}, data : Seq(Tokens)]
Sockets  ==
    [state : States, seq : Seqs, ack : Seqs, lport : Ports, rport : Ports, recv_buf : Nat,
     iss : Seqs, irs : Seqs, sent : Nat, lost : Nat, got : Seq(Tokens)]
Calls    ==
    {NoCall} \cup [at : {"connect"}, port : Ports, isn : Seqs]
             \cup [at : {"accept"}, isn : Seqs, irs : Seqs, port : Ports]
             \cup [at : {"session", "close"}, sock : Nat]

TcpTypes ==
    /\ net \subseteq Segments
    /\ sockets \in [Host -> Seq(Sockets)]
    /\ pc \in [Host -> Calls]
    /\ opens \in [Host -> 0 .. MaxOpens]
    /\ sends \in 0 .. MaxSends
    /\ \A h \in Host : pc[h].at \in {"session", "close"} => pc[h].sock \in DOMAIN sockets[h]

\* The initial sequence numbers h has generated.
Used(h) == {IsnAt(h, n) : n \in 0 .. opens[h] - 1}

\* A SYN has a number of the client's, a SYN-ACK answers a SYN, and a token lies
\* as far into the sequence numbers as it lies into its connection.
SegmentOK(p) ==
    /\ p.flags = {"SYN"} => p.seq \in Used("client")
    /\ {"SYN", "ACK"} \subseteq p.flags =>
          \E irs \in Seqs : <<p.seq, irs>> \in answered /\ p.ack = Plus(irs, 1)
    /\ \/ p.data = <<>>
       \/ \E t \in Tokens : /\ p.data = <<t>> /\ t.iss \in Used(Peer(p.to))
                            /\ p.seq = Plus(t.iss, t.i)

\* An open socket's numbers count what it sent, and what it took in or dropped.
Numbered(s) ==
    s.state = "Established" =>
        s.seq = Plus(s.iss, s.sent + 1) /\ s.ack = Plus(s.irs, Len(s.got) + s.lost + 1)

Received(s) ==
    /\ Len(s.got) + s.lost <= MaxSends
    /\ \A i \in DOMAIN s.got : s.got[i].iss = s.irs /\ s.got[i].i <= Len(s.got) + s.lost
    /\ \A i, j \in DOMAIN s.got : i < j => s.got[i].i < s.got[j].i
    /\ s.lost = 0 => \A i \in DOMAIN s.got : s.got[i].i = i

SocketOK(h, s) ==
    /\ s.iss \in Used(h) /\ s.irs \in Used(Peer(h)) /\ s.sent <= sends
    /\ h = "client" => <<s.irs, s.iss>> \in answered
    /\ Numbered(s) /\ Received(s)

CallsOK ==
    /\ pc["client"].at = "connect" => pc["client"].isn \in Used("client")
    /\ pc["server"].at = "accept" =>
          pc["server"].isn \in Used("server") /\ pc["server"].irs \in Used("client")

TcpInv ==
    /\ TcpTypes
    /\ \A p \in net : SegmentOK(p)
    /\ \A h \in Host : \A s \in Range(sockets[h]) : SocketOK(h, s)
    /\ answered \subseteq Used("server") \X Used("client")
    /\ CallsOK

\* What no step takes back.
Grows ==
    /\ \A h \in Host : opens[h] <= opens'[h]
    /\ answered \subseteq answered'
    /\ sends <= sends'

\* Numbers once generated stay so.
LEMMA UsedGrows ==
    ASSUME TcpTypes, TcpTypes', Grows, NEW h \in Host
    PROVE  Used(h) \subseteq Used(h)'
  <1>1. opens[h] \in Nat /\ opens'[h] \in Nat /\ opens[h] <= opens'[h]
    BY TcpAssumption DEF TcpTypes, Grows
  <1>2. 0 .. opens[h] - 1 \subseteq 0 .. opens'[h] - 1
    BY <1>1
  <1> QED BY <1>2 DEF Used

\* They are sequence numbers.
LEMMA UsedType ==
    ASSUME TcpTypes, NEW h \in Host
    PROVE  Used(h) \subseteq Seqs
  <1>1. opens[h] \in 0 .. MaxOpens
    BY DEF TcpTypes
  <1>2. 0 .. opens[h] - 1 \subseteq 0 .. MaxOpens - 1
    BY <1>1, TcpAssumption
  <1> QED BY <1>2, IsnType DEF Used

\* A host's peer is a host.
LEMMA PeerType ==
    ASSUME NEW h \in Host
    PROVE  Peer(h) \in Host
  BY DEF Peer, Host

\* A segment that was right stays right.
LEMMA SegmentStays ==
    ASSUME TcpTypes, TcpTypes', Grows, NEW p \in Segments, SegmentOK(p)
    PROVE  SegmentOK(p)'
  <1>1. p.to \in Host /\ Peer(p.to) \in Host
    BY PeerType DEF Segments
  <1>2. Used(Peer(p.to)) \subseteq Used(Peer(p.to))'
    BY <1>1, UsedGrows
  <1>3. Used("client") \subseteq Used("client")'
    BY UsedGrows DEF Host
  <1>4. answered \subseteq answered'
    BY DEF Grows
  <1>5. /\ p.flags = {"SYN"} => p.seq \in Used("client")
        /\ {"SYN", "ACK"} \subseteq p.flags =>
              \E irs \in Seqs : <<p.seq, irs>> \in answered /\ p.ack = Plus(irs, 1)
        /\ \/ p.data = <<>>
           \/ \E t \in Tokens : /\ p.data = <<t>> /\ t.iss \in Used(Peer(p.to))
                                /\ p.seq = Plus(t.iss, t.i)
    BY Zenon DEF SegmentOK
  <1> QED BY <1>2, <1>3, <1>4, <1>5 DEF SegmentOK

\* A socket that was right and is left alone stays right.
LEMMA SocketStays ==
    ASSUME TcpTypes, TcpTypes', Grows, NEW h \in Host, NEW s \in Sockets, SocketOK(h, s)
    PROVE  SocketOK(h, s)'
  <1>1. Used(h) \subseteq Used(h)' /\ Used(Peer(h)) \subseteq Used(Peer(h))'
    BY PeerType, UsedGrows
  <1>2. answered \subseteq answered'
    BY DEF Grows
  <1>3. s.sent <= sends'
    <2>1. s.sent \in Nat /\ sends \in Nat /\ sends' \in Nat /\ s.sent <= sends /\ sends <= sends'
      BY TcpAssumption DEF SocketOK, Sockets, TcpTypes, Grows
    <2> QED BY <2>1
  <1> QED BY <1>1, <1>2, <1>3 DEF SocketOK, Numbered, Received

\* A step keeps the invariant if it keeps the types and what it adds is right.
LEMMA TcpStep ==
    ASSUME TcpInv, TcpTypes', Grows,
           \A p \in net' : p \in net \/ SegmentOK(p)',
           \A h \in Host : \A s \in Range(sockets'[h]) :
              s \in Range(sockets[h]) \/ SocketOK(h, s)',
           answered' \subseteq answered \cup (Used("server")' \X Used("client")'),
           CallsOK'
    PROVE  TcpInv'
  <1>1. ASSUME NEW p \in net' PROVE SegmentOK(p)'
    <2>1. CASE p \in net
      BY <2>1, SegmentStays DEF TcpInv, TcpTypes
    <2> QED BY <2>1
  <1>2. ASSUME NEW h \in Host, NEW s \in Range(sockets'[h]) PROVE SocketOK(h, s)'
    <2>1. CASE s \in Range(sockets[h])
      <3>1. s \in Sockets
        BY <2>1 DEF TcpInv, TcpTypes, Range
      <3> QED BY <3>1, <2>1, SocketStays DEF TcpInv
    <2> QED BY <2>1
  <1>3. answered' \subseteq Used("server")' \X Used("client")'
    <2>1. Used("server") \subseteq Used("server")' /\ Used("client") \subseteq Used("client")'
      BY UsedGrows DEF Host, TcpInv
    <2> QED BY <2>1 DEF TcpInv
  <1> QED BY <1>1, <1>2, <1>3 DEF TcpInv

\* A segment on its way is of the right form.
LEMMA SegmentType ==
    ASSUME TcpInv, NEW p \in net
    PROVE  /\ p \in Segments /\ SegmentOK(p)
           /\ p.seq \in Seqs /\ p.ack \in Seqs /\ p.sport \in Ports /\ p.dport \in Ports
           /\ p.seq \in Nat /\ p.data \in Seq(Tokens) /\ Plus(p.seq, 1) \in Seqs
  <1>1. p \in Segments /\ SegmentOK(p)
    BY DEF TcpInv, TcpTypes
  <1>2. /\ p.seq \in Seqs /\ p.ack \in Seqs /\ p.sport \in Ports /\ p.dport \in Ports
        /\ p.data \in Seq(Tokens)
    BY <1>1 DEF Segments
  <1>3. p.seq \in Nat
    BY <1>2, TcpAssumption DEF Seqs
  <1> QED BY <1>1, <1>2, <1>3, PlusType

\* So is a socket.
LEMMA SocketType ==
    ASSUME TcpInv, NEW h \in Host, NEW k \in DOMAIN sockets[h]
    PROVE  /\ sockets[h][k] \in Sockets /\ SocketOK(h, sockets[h][k])
           /\ sockets[h][k].seq \in Seqs /\ sockets[h][k].ack \in Seqs
           /\ Plus(sockets[h][k].seq, 1) \in Seqs
           /\ k \in Nat
  <1>1. sockets[h] \in Seq(Sockets)
    BY DEF TcpInv, TcpTypes
  <1>2. sockets[h][k] \in Sockets /\ sockets[h][k] \in Range(sockets[h]) /\ k \in Nat
    BY <1>1 DEF Range
  <1>3. SocketOK(h, sockets[h][k])
    BY <1>2 DEF TcpInv
  <1>4. sockets[h][k].seq \in Seqs /\ sockets[h][k].ack \in Seqs
    BY <1>2 DEF Sockets
  <1>5. Plus(sockets[h][k].seq, 1) \in Seqs
    <2>1. sockets[h][k].seq \in Nat
      BY <1>4, TcpAssumption DEF Seqs
    <2> QED BY <2>1, PlusType
  <1> QED BY <1>2, <1>3, <1>4, <1>5

\* The counters are numbers.
LEMMA SendsType ==
    ASSUME TcpTypes
    PROVE  /\ sends \in Nat /\ sends <= sends /\ sends <= MaxSends
           /\ \A h \in Host : opens[h] <= opens[h]
  <1>1. sends \in 0 .. MaxSends /\ opens \in [Host -> 0 .. MaxOpens]
    BY DEF TcpTypes
  <1> QED BY <1>1, TcpAssumption

\* What a step leaves of the calls: as they were, or past the handshakes.
CallsKept ==
    /\ pc' \in [Host -> Calls]
    /\ \A h \in Host :
          /\ pc'[h] = pc[h] \/ pc'[h].at \notin {"connect", "accept"}
          /\ pc'[h].at \in {"session", "close"} => pc'[h].sock \in DOMAIN sockets'[h]

SocketsKept ==
    /\ sockets' \in [Host -> Seq(Sockets)]
    /\ \A h \in Host : \A s \in Range(sockets'[h]) : s \in Range(sockets[h]) \/ SocketOK(h, s)

\* The same for the steps that generate no number and send no token.
LEMMA QuietStep ==
    ASSUME TcpInv, UNCHANGED <<opens, answered, sends>>,
           \A p \in net' : p \in net \/ (p \in Segments /\ SegmentOK(p)),
           SocketsKept, CallsKept
    PROVE  TcpInv'
  <1>1. Grows
    BY TcpAssumption DEF Grows, TcpInv, TcpTypes
  <1>2. TcpTypes'
    <2>1. net' \subseteq Segments
      BY DEF TcpInv, TcpTypes
    <2> QED BY <2>1 DEF TcpInv, TcpTypes, CallsKept, SocketsKept
  <1>3. TcpTypes
    BY DEF TcpInv
  <1>4. ASSUME NEW p \in net' PROVE p \in net \/ SegmentOK(p)'
    BY <1>1, <1>2, <1>3, SegmentStays
  <1>5. ASSUME NEW h \in Host, NEW s \in Range(sockets'[h])
        PROVE  s \in Range(sockets[h]) \/ SocketOK(h, s)'
    <2>1. s \in Sockets
      BY <1>2 DEF TcpTypes, Range
    <2>2. s \in Range(sockets[h]) \/ SocketOK(h, s)
      BY DEF SocketsKept
    <2> QED BY <2>1, <2>2, <1>1, <1>2, <1>3, SocketStays
  <1>6. CallsOK'
    <2>1. /\ pc'["client"] = pc["client"] \/ pc'["client"].at \notin {"connect", "accept"}
          /\ pc'["server"] = pc["server"] \/ pc'["server"].at \notin {"connect", "accept"}
      BY DEF CallsKept, Host
    <2>2. Used("client")' = Used("client") /\ Used("server")' = Used("server")
      BY DEF Used
    <2>3. CallsOK
      BY DEF TcpInv
    <2> QED BY <2>1, <2>2, <2>3 DEF CallsOK
  <1>7. answered' \subseteq answered \cup (Used("server")' \X Used("client")')
    OBVIOUS
  <1> QED BY <1>1, <1>2, <1>4, <1>5, <1>6, <1>7, TcpStep

\* The sockets when one entry of the table is replaced.
LEMMA ReplaceOne ==
    ASSUME TcpInv, NEW h \in Host, NEW k \in DOMAIN sockets[h],
           NEW t \in Sockets, SocketOK(h, t), sockets' = [sockets EXCEPT ![h][k] = t]
    PROVE  SocketsKept /\ \A g \in Host : DOMAIN sockets'[g] = DOMAIN sockets[g]
  <1>1. sockets \in [Host -> Seq(Sockets)]
    BY DEF TcpInv, TcpTypes
  <1>2. sockets' = [sockets EXCEPT ![h] = [sockets[h] EXCEPT ![k] = t]]
    OBVIOUS
  <1>3. sockets[h] \in Seq(Sockets)
    BY <1>1
  <1>4. [sockets[h] EXCEPT ![k] = t] \in Seq(Sockets)
    BY <1>3
  <1>5. sockets' \in [Host -> Seq(Sockets)]
    BY <1>1, <1>2, <1>4
  <1>6. \A g \in Host : g # h => sockets'[g] = sockets[g]
    BY <1>1, <1>2
  <1>7. sockets'[h] = [sockets[h] EXCEPT ![k] = t]
    BY <1>1, <1>2
  <1>8. ASSUME NEW g \in Host, NEW s \in Range(sockets'[g])
        PROVE  s \in Range(sockets[g]) \/ SocketOK(g, s)
    <2>1. CASE g = h
      <3>1. PICK j \in DOMAIN sockets[h] : s = [sockets[h] EXCEPT ![k] = t][j]
        BY <2>1, <1>7 DEF Range
      <3>2. s = t \/ s = sockets[h][j]
        BY <3>1
      <3> QED BY <2>1, <3>1, <3>2 DEF Range
    <2>2. CASE g # h
      BY <2>2, <1>6
    <2> QED BY <2>1, <2>2
  <1>9. \A g \in Host : DOMAIN sockets'[g] = DOMAIN sockets[g]
    BY <1>6, <1>7
  <1> QED BY <1>5, <1>8, <1>9, Zenon DEF SocketsKept

\* The sockets when one entry is added.
LEMMA AddOne ==
    ASSUME TcpInv, NEW h \in Host,
           NEW t \in Sockets, SocketOK(h, t), sockets' = [sockets EXCEPT ![h] = Append(@, t)]
    PROVE  /\ SocketsKept
           /\ \A g \in Host : DOMAIN sockets[g] \subseteq DOMAIN sockets'[g]
           /\ Len(sockets[h]) + 1 \in DOMAIN sockets'[h]
  <1>1. sockets \in [Host -> Seq(Sockets)]
    BY DEF TcpInv, TcpTypes
  <1>2. sockets[h] \in Seq(Sockets) /\ Append(sockets[h], t) \in Seq(Sockets)
    BY <1>1
  <1>3. sockets' \in [Host -> Seq(Sockets)]
    BY <1>1, <1>2
  <1>4. \A g \in Host : g # h => sockets'[g] = sockets[g]
    BY <1>1
  <1>5. sockets'[h] = Append(sockets[h], t)
    BY <1>1
  <1>6. /\ DOMAIN sockets'[h] = 1 .. Len(sockets[h]) + 1
        /\ DOMAIN sockets[h] = 1 .. Len(sockets[h])
        /\ Len(sockets[h]) \in Nat
        /\ \A j \in 1 .. Len(sockets[h]) : sockets'[h][j] = sockets[h][j]
        /\ sockets'[h][Len(sockets[h]) + 1] = t
    BY <1>2, <1>5
  <1>7. ASSUME NEW g \in Host, NEW s \in Range(sockets'[g])
        PROVE  s \in Range(sockets[g]) \/ SocketOK(g, s)
    <2>1. CASE g = h
      <3>1. PICK j \in DOMAIN sockets'[h] : s = sockets'[h][j]
        BY <2>1 DEF Range
      <3>2. j \in 1 .. Len(sockets[h]) \/ j = Len(sockets[h]) + 1
        BY <3>1, <1>6
      <3> QED BY <2>1, <3>1, <3>2, <1>6 DEF Range
    <2>2. CASE g # h
      BY <2>2, <1>4
    <2> QED BY <2>1, <2>2
  <1>8. \A g \in Host : DOMAIN sockets[g] \subseteq DOMAIN sockets'[g]
    <2>1. DOMAIN sockets[h] \subseteq DOMAIN sockets'[h]
      BY <1>6
    <2> QED BY <2>1, <1>4
  <1> QED BY <1>3, <1>6, <1>7, <1>8 DEF SocketsKept

\* A step that leaves the table alone.
LEMMA SameSockets ==
    ASSUME TcpInv, UNCHANGED sockets
    PROVE  SocketsKept
  BY DEF SocketsKept, TcpInv, TcpTypes

\* Taking a segment off the card adds only the answer to the network.
LEMMA ExchangeNet ==
    ASSUME NEW h, NEW p, NEW out, Exchange(h, p, out)
    PROVE  p \in net /\ p.to = h /\ net' \subseteq net \cup out
  BY DEF Exchange

\* A segment without SYN and without data is right.
LEMMA PlainSegment ==
    ASSUME NEW h \in Host, NEW s \in Sockets,
           NEW f \in SUBSET {"ACK", "RST", "FIN", "PSH"}
    PROVE  From(h, s, f, <<>>) \in Segments /\ SegmentOK(From(h, s, f, <<>>))
  <1> DEFINE p == From(h, s, f, <<>>)
  <1>1. p \in Segments /\ p.flags = f /\ p.data = <<>>
    <2>1. Peer(h) \in Host
      BY PeerType
    <2>2. <<>> \in Seq(Tokens)
      OBVIOUS
    <2>3. f \in SUBSET {"SYN", "ACK", "RST", "FIN", "PSH"}
      OBVIOUS
    <2> QED BY <2>1, <2>2, <2>3 DEF From, Segment, Segments, Sockets
  <1>2. "SYN" \notin p.flags
    BY <1>1
  <1> QED BY <1>1, <1>2 DEF SegmentOK

\* A new entry of the table is right if its numbers come from both hosts.
LEMMA NewSocket ==
    ASSUME TcpInv, NEW h \in Host, NEW lport \in Ports, NEW rport \in Ports,
           NEW iss \in Used(h), NEW irs \in Used(Peer(h)),
           h = "client" => <<irs, iss>> \in answered
    PROVE  /\ Established(lport, rport, iss, irs) \in Sockets
           /\ SocketOK(h, Established(lport, rport, iss, irs))
  <1> DEFINE s == Established(lport, rport, iss, irs)
  <1>1. iss \in Seqs /\ irs \in Seqs /\ sends \in Nat
    BY UsedType, PeerType, TcpAssumption DEF TcpInv, TcpTypes
  <1>2. Plus(iss, 1) \in Seqs /\ Plus(irs, 1) \in Seqs
    BY <1>1, PlusType DEF Seqs
  <1>3. <<>> \in Seq(Tokens) /\ Len(<<>>) = 0 /\ DOMAIN <<>> = {}
    OBVIOUS
  <1>4. s \in Sockets
    BY <1>1, <1>2, <1>3 DEF Established, Sockets, States
  <1>5. /\ s.iss = iss /\ s.irs = irs /\ s.sent = 0 /\ s.lost = 0 /\ s.got = <<>>
        /\ s.seq = Plus(iss, 1) /\ s.ack = Plus(irs, 1)
    BY DEF Established
  <1>6. Numbered(s)
    BY <1>3, <1>5 DEF Numbered
  <1>7. Received(s)
    BY <1>3, <1>5, TcpAssumption DEF Received
  <1>8. s.sent <= sends
    BY <1>1, <1>5
  <1> QED BY <1>4, <1>5, <1>6, <1>7, <1>8 DEF SocketOK

-----------------------------------------------------------------------------
(* process_incoming *)

\* A socket that is no longer open has no numbers to keep.
LEMMA NotOpen ==
    ASSUME NEW h \in Host, NEW s \in Sockets, SocketOK(h, s),
           NEW t \in Sockets, t.state # "Established",
           t.iss = s.iss, t.irs = s.irs, t.sent = s.sent, t.lost = s.lost, t.got = s.got
    PROVE  SocketOK(h, t)
  BY DEF SocketOK, Numbered, Received

\* The same for the updates of process_incoming and close.
LEMMA LeavesOpen ==
    ASSUME NEW h \in Host, NEW s \in Sockets, SocketOK(h, s),
           NEW st \in States \ {"Established"}, NEW q \in Seqs, NEW a \in Seqs,
           NEW t, t = [s EXCEPT !.state = st, !.seq = q, !.ack = a]
    PROVE  t \in Sockets /\ SocketOK(h, t)
  <1>1. t \in Sockets
    BY Zenon DEF Sockets
  <1>2. /\ t.state # "Established" /\ t.iss = s.iss /\ t.irs = s.irs /\ t.sent = s.sent
        /\ t.lost = s.lost /\ t.got = s.got
    BY DEF Sockets
  <1> QED BY <1>1, <1>2, NotOpen, Zenon

\* The states those updates lead to.
LEMMA OtherStates ==
    {"CloseWait", "FinWait1", "FinWait2", "TimeWait", "Closed"} \subseteq States \ {"Established"}
  BY DEF States

\* Two numbers of one host's that lead to the same place are one number, and lead
\* there from the same distance.
LEMMA SamePlace ==
    ASSUME TcpTypes, NEW h \in Host, NEW a \in Used(h), NEW b \in Used(h),
           NEW i \in 0 .. MaxSends + 1, NEW j \in 0 .. MaxSends + 1, Plus(a, i) = Plus(b, j)
    PROVE  a = b /\ i = j
  <1>1. opens[h] \in 0 .. MaxOpens
    BY DEF TcpTypes
  <1>2. PICK m \in 0 .. opens[h] - 1 : a = IsnAt(h, m)
    BY DEF Used
  <1>3. PICK n \in 0 .. opens[h] - 1 : b = IsnAt(h, n)
    BY DEF Used
  <1>4. m \in 0 .. MaxOpens - 1 /\ n \in 0 .. MaxOpens - 1
    BY <1>1, TcpAssumption
  <1>5. m = n
    BY <1>2, <1>3, <1>4, IsnsApart
  <1>6. a = b /\ a \in Seqs
    BY <1>2, <1>3, <1>5, UsedType
  <1>7. i = j
    BY <1>6, PlusSame
  <1> QED BY <1>6, <1>7

\* A socket that takes in the next token, or drops it, is right again.
LEMMA AcceptKeeps ==
    ASSUME TcpInv, NEW h \in Host, NEW s \in Sockets, SocketOK(h, s), s.state = "Established",
           NEW p \in net, p.to = h, p.data # <<>>
    PROVE  Accept(s, p) \in Sockets /\ SocketOK(h, Accept(s, p))
  <1>1. CASE p.seq # s.ack
    BY <1>1 DEF Accept
  <1>2. CASE p.seq = s.ack
    <2>1. PICK t \in Tokens : /\ p.data = <<t>> /\ t.iss \in Used(Peer(h))
                              /\ p.seq = Plus(t.iss, t.i)
      BY DEF TcpInv, SegmentOK
    <2> DEFINE n == Len(s.got) + s.lost
    <2>2. /\ s.got \in Seq(Tokens) /\ s.lost \in Nat /\ Len(s.got) \in Nat /\ s.recv_buf \in Nat
          /\ s.irs \in Used(Peer(h)) /\ s.irs \in Seqs /\ s.ack \in Seqs
      BY DEF Sockets, SocketOK
    <2>3. n \in 0 .. MaxSends /\ s.ack = Plus(s.irs, n + 1)
      BY <2>2 DEF SocketOK, Numbered, Received
    <2>4. t.i \in 1 .. MaxSends /\ n + 1 \in 0 .. MaxSends + 1 /\ t.i \in 0 .. MaxSends + 1
      BY <2>3, TcpAssumption DEF Tokens
    <2>5. t.iss = s.irs /\ t.i = n + 1
      <3>1. TcpTypes /\ Peer(h) \in Host
        BY PeerType DEF TcpInv
      <3>2. Plus(t.iss, t.i) = Plus(s.irs, n + 1)
        BY <1>2, <2>1, <2>3, Zenon
      <3> HIDE DEF n
      <3> QED BY <3>1, <3>2, <2>1, <2>2, <2>4, SamePlace
    <2>6. n + 1 \in 0 .. MaxSends
      BY <2>4, <2>5, TcpAssumption
    <2>7. Len(p.data) = 1
      BY <2>1
    <2>8. Plus(s.ack, 1) = Plus(s.irs, n + 1 + 1) /\ Plus(s.ack, 1) \in Seqs
      <3>0. s.ack \in Nat
        BY <2>2, TcpAssumption DEF Seqs
      <3>1. Plus(s.ack, 1) \in Seqs
        BY <3>0, PlusType
      <3> HIDE DEF n
      <3> QED BY <3>1, <2>2, <2>3, <2>6, PlusNext
    <2>9. Received(s)
      BY DEF SocketOK
    <2>10. CASE s.recv_buf + 1 <= RECV_BUF_CAP
      <3> DEFINE u == [s EXCEPT !.recv_buf = @ + 1, !.got = Append(@, t), !.ack = Plus(@, 1)]
      <3>1. Append(s.got, t) = s.got \o <<t>>
        BY <2>2
      <3>2. Accept(s, p) = u
        BY <1>2, <2>1, <2>7, <2>10, <3>1, Zenon DEF Accept, Sockets
      <3>3. u \in Sockets
        <4>1. Append(s.got, t) \in Seq(Tokens) /\ s.recv_buf + 1 \in Nat
          BY <2>2
        <4> QED BY <4>1, <2>8, Zenon DEF Sockets
      <3>4. /\ u.got = Append(s.got, t) /\ u.lost = s.lost /\ u.irs = s.irs /\ u.iss = s.iss
            /\ u.sent = s.sent /\ u.seq = s.seq /\ u.ack = Plus(s.ack, 1)
        BY DEF Sockets
      <3>5. /\ Len(u.got) = Len(s.got) + 1 /\ DOMAIN u.got = 1 .. Len(s.got) + 1
            /\ \A i \in 1 .. Len(s.got) : u.got[i] = s.got[i]
            /\ u.got[Len(s.got) + 1] = t
            /\ DOMAIN s.got = 1 .. Len(s.got)
        BY <3>4, <2>2
      <3>6. Numbered(u)
        <4>1. Len(u.got) + u.lost + 1 = n + 1 + 1
          BY <3>4, <3>5, <2>2
        <4>2. u.seq = Plus(u.iss, u.sent + 1)
          BY <3>4 DEF SocketOK, Numbered
        <4>3. u.ack = Plus(u.irs, Len(u.got) + u.lost + 1)
          BY <3>4, <4>1, <2>8
        <4> QED BY <4>2, <4>3 DEF Numbered
      <3>7. Received(u)
        <4>0. Len(u.got) = Len(s.got) + 1 /\ u.lost = s.lost
          BY <3>4, <3>5
        <4> HIDE DEF u
        <4>1. Len(u.got) + u.lost = n + 1
          BY <4>0, <2>2
        <4>2. ASSUME NEW i \in DOMAIN u.got
              PROVE  u.got[i].iss = u.irs /\ u.got[i].i <= n + 1 /\ u.got[i].i \in Nat
          <5>1. CASE i = Len(s.got) + 1
            BY <5>1, <3>4, <3>5, <2>4, <2>5
          <5>2. CASE i \in 1 .. Len(s.got)
            <6>1. s.got[i] \in Tokens /\ s.got[i].iss = s.irs /\ s.got[i].i <= n
              BY <5>2, <2>2, <2>9 DEF Received
            <6>2. s.got[i].i \in Nat
              BY <6>1 DEF Tokens
            <6> QED BY <6>1, <6>2, <5>2, <3>4, <3>5, <2>3
          <5> QED BY <5>1, <5>2, <3>5, <2>2
        <4>3. ASSUME NEW i \in DOMAIN u.got, NEW j \in DOMAIN u.got, i < j
              PROVE  u.got[i].i < u.got[j].i
          <5>1. i \in 1 .. Len(s.got)
            BY <4>3, <3>5, <2>2
          <5>2. CASE j = Len(s.got) + 1
            <6>1. s.got[i] \in Tokens /\ s.got[i].i <= n
              BY <5>1, <2>2, <2>9 DEF Received
            <6>2. s.got[i].i \in Nat
              BY <6>1 DEF Tokens
            <6> QED BY <6>1, <6>2, <5>1, <5>2, <3>5, <2>3, <2>5
          <5>3. CASE j \in 1 .. Len(s.got)
            BY <5>1, <5>3, <4>3, <3>5, <2>9 DEF Received
          <5> QED BY <5>2, <5>3, <3>5, <2>2
        <4>4. ASSUME u.lost = 0, NEW i \in DOMAIN u.got
              PROVE  u.got[i].i = i
          <5>1. CASE i = Len(s.got) + 1
            BY <5>1, <4>4, <3>4, <3>5, <2>2, <2>5
          <5>2. CASE i \in 1 .. Len(s.got)
            BY <5>2, <4>4, <3>4, <3>5, <2>9 DEF Received
          <5> QED BY <5>1, <5>2, <3>5, <2>2
        <4>5. Len(u.got) + u.lost <= MaxSends
          BY <4>1, <2>6, TcpAssumption
        <4> QED BY <4>1, <4>2, <4>3, <4>4, <4>5 DEF Received
      <3> QED BY <3>2, <3>3, <3>4, <3>6, <3>7 DEF SocketOK
    <2>11. CASE ~(s.recv_buf + 1 <= RECV_BUF_CAP)
      <3> DEFINE u == [s EXCEPT !.lost = @ + 1, !.ack = Plus(@, 1)]
      <3>1. Accept(s, p) = u
        BY <1>2, <2>1, <2>7, <2>11, Zenon DEF Accept, Sockets
      <3>2. u \in Sockets
        <4>1. s.lost + 1 \in Nat
          BY <2>2
        <4> QED BY <4>1, <2>8, Zenon DEF Sockets
      <3>3. /\ u.got = s.got /\ u.lost = s.lost + 1 /\ u.irs = s.irs /\ u.iss = s.iss
            /\ u.sent = s.sent /\ u.seq = s.seq /\ u.ack = Plus(s.ack, 1)
        BY DEF Sockets
      <3>4. Len(u.got) + u.lost = n + 1 /\ u.lost # 0
        BY <3>3, <2>2
      <3>5. Numbered(u)
        <4>1. u.seq = Plus(u.iss, u.sent + 1)
          BY <3>3 DEF SocketOK, Numbered
        <4>2. u.ack = Plus(u.irs, Len(u.got) + u.lost + 1)
          BY <3>3, <3>4, <2>8
        <4> QED BY <4>1, <4>2 DEF Numbered
      <3>6. Received(u)
        <4> HIDE DEF u
        <4>1. Len(u.got) + u.lost <= MaxSends
          BY <3>4, <2>6, TcpAssumption
        <4>2. ASSUME NEW i \in DOMAIN u.got
              PROVE  u.got[i].iss = u.irs /\ u.got[i].i <= n + 1
          <5>1. s.got[i] \in Tokens /\ s.got[i].iss = s.irs /\ s.got[i].i <= n
            BY <3>3, <2>2, <2>9 DEF Received
          <5>2. s.got[i].i \in Nat
            BY <5>1 DEF Tokens
          <5> QED BY <5>1, <5>2, <3>3, <2>3
        <4>3. \A i, j \in DOMAIN u.got : i < j => u.got[i].i < u.got[j].i
          BY <3>3, <2>9 DEF Received
        <4> QED BY <4>1, <4>2, <4>3, <3>4 DEF Received
      <3> QED BY <3>1, <3>2, <3>3, <3>5, <3>6 DEF SocketOK
    <2> QED BY <2>10, <2>11
  <1> QED BY <1>1, <1>2

\* process_incoming leaves the socket right, whatever the segment.
LEMMA ProcessedKeeps ==
    ASSUME TcpInv, NEW h \in Host, NEW s \in Sockets, SocketOK(h, s),
           NEW p \in net, p.to = h
    PROVE  Processed(s, p).sock \in Sockets /\ SocketOK(h, Processed(s, p).sock)
  <1> DEFINE t == Processed(s, p).sock
             fin == "FIN" \in p.flags
             ack == "ACK" \in p.flags
             rst == "RST" \in p.flags
  <1> SUFFICES t \in Sockets /\ SocketOK(h, t)
    OBVIOUS
  <1> HIDE DEF t
  <1>1. p.seq \in Nat /\ Len(p.data) \in Nat
    BY SegmentType
  <1>2. Plus(p.seq, 1 + Len(p.data)) \in Seqs /\ Plus(p.seq, 1) \in Seqs
    BY <1>1, PlusType
  <1>3. s.seq \in Seqs /\ s.ack \in Seqs
    BY DEF Sockets
  <1>4. CASE rst
    <2>1. t = [s EXCEPT !.state = "Closed", !.seq = s.seq, !.ack = s.ack]
      BY <1>4, Zenon DEF t, Processed, Sockets
    <2> QED BY <2>1, <1>3, LeavesOpen, OtherStates, Zenon
  <1>5. CASE ~rst /\ s.state = "Established" /\ fin
    <2>1. t = [s EXCEPT !.state = "CloseWait", !.seq = s.seq,
                        !.ack = Plus(p.seq, 1 + Len(p.data))]
      BY <1>5, Zenon DEF t, Processed, Sockets
    <2> QED BY <2>1, <1>2, <1>3, LeavesOpen, OtherStates, Zenon
  <1>6. CASE ~rst /\ s.state = "Established" /\ ~fin /\ ack /\ p.data # <<>>
    <2>1. t = Accept(s, p)
      BY <1>6 DEF t, Processed
    <2> QED BY <2>1, <1>6, AcceptKeeps
  <1>7. CASE ~rst /\ fin /\ s.state \in {"FinWait1", "FinWait2"}
    <2>1. t = [s EXCEPT !.state = "TimeWait", !.seq = s.seq, !.ack = Plus(p.seq, 1)]
      BY <1>7, Zenon DEF t, Processed, TimeWait, Sockets
    <2> QED BY <2>1, <1>2, <1>3, LeavesOpen, OtherStates, Zenon
  <1>8. CASE ~rst /\ ~fin /\ ack /\ s.state = "FinWait1"
    <2>1. t = [s EXCEPT !.state = "FinWait2", !.seq = s.seq, !.ack = s.ack]
      BY <1>8, Zenon DEF t, Processed, Sockets
    <2> QED BY <2>1, <1>3, LeavesOpen, OtherStates, Zenon
  <1>9. CASE /\ ~rst
             /\ ~(s.state = "Established" /\ fin)
             /\ ~(s.state = "Established" /\ ~fin /\ ack /\ p.data # <<>>)
             /\ ~(fin /\ s.state \in {"FinWait1", "FinWait2"})
             /\ ~(~fin /\ ack /\ s.state = "FinWait1")
    <2>1. t = s
      BY <1>9 DEF t, Processed
    <2> QED BY <2>1
  <1> QED BY <1>4, <1>5, <1>6, <1>7, <1>8, <1>9

-----------------------------------------------------------------------------
(* The steps *)

\* poll_incoming changes the socket that the segment is for.
LEMMA PollKeeps ==
    ASSUME TcpInv, NEW h \in Host, poll_incoming(h)
    PROVE  TcpInv'
  <1>1. UNCHANGED <<pc, opens, answered, sends>>
    BY DEF poll_incoming
  <1>2. PICK p \in net :
          \/ /\ Matching(h, p) = {}
             /\ Exchange(h, p, {})
             /\ UNCHANGED sockets
          \/ /\ Matching(h, p) # {}
             /\ LET k == CHOOSE k \in Matching(h, p) : \A j \in Matching(h, p) : k <= j
                    r == Processed(sockets[h][k], p)
                IN  /\ Exchange(h, p, IF r.reply THEN {From(h, r.sock, {"ACK"}, <<>>)} ELSE {})
                    /\ sockets' = [sockets EXCEPT ![h][k] = r.sock]
    BY Zenon DEF poll_incoming
  <1>3. CASE Matching(h, p) = {}
    <2>1. Exchange(h, p, {}) /\ UNCHANGED sockets
      BY <1>2, <1>3
    <2>2. \A q \in net' : q \in net
      BY <2>1, ExchangeNet
    <2>3. SocketsKept
      BY <2>1, SameSockets
    <2>4. CallsKept
      BY <1>1, <2>1 DEF CallsKept, TcpInv, TcpTypes
    <2> QED BY <1>1, <2>2, <2>3, <2>4, QuietStep
  <1>4. CASE Matching(h, p) # {}
    <2> DEFINE S == Matching(h, p)
               k == CHOOSE k \in S : \A j \in S : k <= j
               r == Processed(sockets[h][k], p)
               out == IF r.reply THEN {From(h, r.sock, {"ACK"}, <<>>)} ELSE {}
    <2>1. Exchange(h, p, out) /\ sockets' = [sockets EXCEPT ![h][k] = r.sock]
      BY <1>2, <1>4
    <2>2. sockets[h] \in Seq(Sockets)
      BY DEF TcpInv, TcpTypes
    <2>3. S \in SUBSET Nat /\ S \subseteq DOMAIN sockets[h]
      BY <2>2 DEF Matching
    <2>4. \E j \in S : \A i \in S : j <= i
      <3> HIDE DEF S
      <3> QED BY <2>3, <1>4, Least DEF S
    <2>5. k \in DOMAIN sockets[h]
      BY <2>3, <2>4
    <2> HIDE DEF S, k
    <2>6. sockets[h][k] \in Sockets /\ SocketOK(h, sockets[h][k])
      BY <2>2, <2>5 DEF TcpInv, Range
    <2>7. p.to = h /\ net' \subseteq net \cup out
      BY <2>1, ExchangeNet
    <2>8. r.sock \in Sockets /\ SocketOK(h, r.sock)
      BY <2>6, <2>7, ProcessedKeeps
    <2> HIDE DEF r
    <2>9. ASSUME NEW q \in net' PROVE q \in net \/ (q \in Segments /\ SegmentOK(q))
      <3>1. q \in net \/ q = From(h, r.sock, {"ACK"}, <<>>)
        BY <2>7
      <3> QED BY <3>1, <2>8, PlainSegment
    <2>10. SocketsKept /\ \A g \in Host : DOMAIN sockets'[g] = DOMAIN sockets[g]
      BY <2>1, <2>5, <2>8, ReplaceOne, Zenon
    <2>11. CallsKept
      BY <1>1, <2>10 DEF CallsKept, TcpInv, TcpTypes
    <2> QED BY <1>1, <2>9, <2>10, <2>11, QuietStep
  <1> QED BY <1>3, <1>4

\* The open call of a host, and the socket a session or a close is about.
LEMMA CallType ==
    ASSUME TcpInv, NEW h \in Host
    PROVE  /\ pc[h].at \in {"session", "close"} =>
                /\ pc[h].sock \in DOMAIN sockets[h]
                /\ sockets[h][pc[h].sock] \in Sockets
                /\ SocketOK(h, sockets[h][pc[h].sock])
           /\ pc[h].at = "connect" => pc[h].port \in Ports /\ pc[h].isn \in Seqs
           /\ pc[h].at = "accept" =>
                pc[h].port \in Ports /\ pc[h].isn \in Seqs /\ pc[h].irs \in Seqs
  <1>1. pc[h] \in Calls /\ sockets[h] \in Seq(Sockets)
    BY DEF TcpInv, TcpTypes
  <1>2. ASSUME pc[h].at \in {"session", "close"}
        PROVE  /\ pc[h].sock \in DOMAIN sockets[h]
               /\ sockets[h][pc[h].sock] \in Sockets
               /\ SocketOK(h, sockets[h][pc[h].sock])
    <2>1. pc[h].sock \in DOMAIN sockets[h]
      BY <1>2 DEF TcpInv, TcpTypes
    <2>2. sockets[h][pc[h].sock] \in Range(sockets[h])
      BY <2>1 DEF Range
    <2> QED BY <1>1, <2>1, <2>2 DEF TcpInv
  <1>3. ASSUME pc[h].at = "connect" PROVE pc[h].port \in Ports /\ pc[h].isn \in Seqs
    BY <1>1, <1>3 DEF Calls, NoCall
  <1>4. ASSUME pc[h].at = "accept"
        PROVE  pc[h].port \in Ports /\ pc[h].isn \in Seqs /\ pc[h].irs \in Seqs
    BY <1>1, <1>4 DEF Calls, NoCall
  <1> QED BY <1>2, <1>3, <1>4

\* The calls when one host's ends.
LEMMA CallEnds ==
    ASSUME TcpInv, NEW h \in Host, pc' = [pc EXCEPT ![h] = NoCall] \/ UNCHANGED pc,
           \A g \in Host : DOMAIN sockets[g] \subseteq DOMAIN sockets'[g]
    PROVE  CallsKept
  <1>1. pc \in [Host -> Calls] /\ NoCall \in Calls
    BY DEF TcpInv, TcpTypes, Calls
  <1>2. pc' \in [Host -> Calls]
    BY <1>1
  <1>3. \A g \in Host : pc'[g] = pc[g] \/ pc'[g].at = "idle"
    BY <1>1 DEF NoCall
  <1> QED BY <1>2, <1>3 DEF CallsKept, TcpInv, TcpTypes

\* One pass of the wait loop of close.
LEMMA ClosePollKeeps ==
    ASSUME TcpInv, NEW h \in Host, close_poll(h)
    PROVE  TcpInv'
  <1> DEFINE k == pc[h].sock
             s == sockets[h][k]
  <1>1. UNCHANGED <<opens, answered, sends>> /\ pc[h].at = "close"
    BY Zenon DEF close_poll
  <1>2. k \in DOMAIN sockets[h] /\ s \in Sockets /\ SocketOK(h, s)
    BY <1>1, CallType
  <1>3. PICK p \in net :
          \/ /\ Exchange(h, p, {From(h, TimeWait(s, p), {"ACK"}, <<>>)})
             /\ sockets' = [sockets EXCEPT ![h][k] = [TimeWait(s, p) EXCEPT !.state = "Closed"]]
             /\ pc' = [pc EXCEPT ![h] = NoCall]
          \/ /\ Exchange(h, p, {})
             /\ \/ sockets' = [sockets EXCEPT ![h][k].state = "FinWait2"]
                \/ UNCHANGED sockets
             /\ UNCHANGED pc
    BY Zenon DEF close_poll
  <1>5. s.seq \in Seqs /\ s.ack \in Seqs /\ Plus(p.seq, 1) \in Seqs
    BY <1>2, SegmentType DEF Sockets
  <1>6. CASE /\ Exchange(h, p, {From(h, TimeWait(s, p), {"ACK"}, <<>>)})
             /\ sockets' = [sockets EXCEPT ![h][k] = [TimeWait(s, p) EXCEPT !.state = "Closed"]]
             /\ pc' = [pc EXCEPT ![h] = NoCall]
    <2> DEFINE w == TimeWait(s, p)
               t == [TimeWait(s, p) EXCEPT !.state = "Closed"]
    <2>1. w = [s EXCEPT !.state = "TimeWait", !.seq = s.seq, !.ack = Plus(p.seq, 1)]
      BY <1>2, Zenon DEF TimeWait, Sockets
    <2>2. w \in Sockets
      <3> HIDE DEF w
      <3> QED BY <2>1, <1>2, <1>5, LeavesOpen, OtherStates, Zenon
    <2>3. t = [s EXCEPT !.state = "Closed", !.seq = s.seq, !.ack = Plus(p.seq, 1)]
      BY <2>1, <1>2, Zenon DEF Sockets
    <2>4. t \in Sockets /\ SocketOK(h, t)
      <3> HIDE DEF t
      <3> QED BY <2>3, <1>2, <1>5, LeavesOpen, OtherStates, Zenon
    <2> HIDE DEF t, w
    <2>5. net' \subseteq net \cup {From(h, w, {"ACK"}, <<>>)}
      BY <1>6, ExchangeNet DEF w
    <2>6. \A q \in net' : q \in net \/ (q \in Segments /\ SegmentOK(q))
      BY <2>2, <2>5, PlainSegment
    <2>7. SocketsKept /\ \A g \in Host : DOMAIN sockets'[g] = DOMAIN sockets[g]
      BY <1>6, <1>2, <2>4, ReplaceOne, Zenon DEF t
    <2>8. CallsKept
      BY <1>6, <2>7, CallEnds, Zenon
    <2> QED BY <1>1, <2>6, <2>7, <2>8, QuietStep
  <1>7. CASE /\ Exchange(h, p, {})
             /\ \/ sockets' = [sockets EXCEPT ![h][k].state = "FinWait2"]
                \/ UNCHANGED sockets
             /\ UNCHANGED pc
    <2> DEFINE t == [s EXCEPT !.state = "FinWait2", !.seq = s.seq, !.ack = s.ack]
    <2>1. \A q \in net' : q \in net
      BY <1>7, ExchangeNet
    <2>2. SocketsKept /\ \A g \in Host : DOMAIN sockets'[g] = DOMAIN sockets[g]
      <3>1. CASE UNCHANGED sockets
        BY <3>1, SameSockets
      <3>2. CASE sockets' = [sockets EXCEPT ![h][k].state = "FinWait2"]
        <4>1. t = [s EXCEPT !.state = "FinWait2"]
          BY <1>2, Zenon DEF Sockets
        <4>2. sockets' = [sockets EXCEPT ![h][k] = t]
          BY <3>2, <4>1, Zenon
        <4>3. t \in Sockets /\ SocketOK(h, t)
          BY <1>2, <1>5, LeavesOpen, OtherStates, Zenon
        <4> HIDE DEF t
        <4> QED BY <4>2, <4>3, <1>2, ReplaceOne, Zenon
      <3> QED BY <1>7, <3>1, <3>2
    <2>3. CallsKept
      BY <1>7, <2>2, CallEnds
    <2> QED BY <1>1, <2>1, <2>2, <2>3, QuietStep
  <1> QED BY <1>3, <1>6, <1>7

\* A call that gives up, and a session that ends, leave the network alone.
LEMMA GiveUpKeeps ==
    ASSUME TcpInv, NEW h \in Host, pc' = [pc EXCEPT ![h] = NoCall],
           UNCHANGED <<net, sockets, opens, answered, sends>>
    PROVE  TcpInv'
  <1>1. SocketsKept
    BY SameSockets
  <1>2. CallsKept
    BY CallEnds, Zenon
  <1> QED BY <1>1, <1>2, QuietStep

\* close closes the socket when it gives up.
LEMMA CloseTimeoutKeeps ==
    ASSUME TcpInv, NEW h \in Host, close_timeout(h)
    PROVE  TcpInv'
  <1> DEFINE k == pc[h].sock
             s == sockets[h][k]
             t == [s EXCEPT !.state = "Closed", !.seq = s.seq, !.ack = s.ack]
  <1>1. UNCHANGED <<net, opens, answered, sends>> /\ pc[h].at = "close"
    BY DEF close_timeout
  <1>2. k \in DOMAIN sockets[h] /\ s \in Sockets /\ SocketOK(h, s)
    BY <1>1, CallType
  <1>3. t = [s EXCEPT !.state = "Closed"] /\ s.seq \in Seqs /\ s.ack \in Seqs
    BY <1>2, Zenon DEF Sockets
  <1>4. sockets' = [sockets EXCEPT ![h][k] = t]
    BY <1>3, Zenon DEF close_timeout
  <1>5. t \in Sockets /\ SocketOK(h, t)
    <2> HIDE DEF s
    <2> QED BY <1>2, <1>3, LeavesOpen, OtherStates, Zenon
  <1> HIDE DEF t
  <1>6. SocketsKept /\ \A g \in Host : DOMAIN sockets'[g] = DOMAIN sockets[g]
    BY <1>2, <1>4, <1>5, ReplaceOne, Zenon
  <1>7. CallsKept
    BY <1>6, CallEnds, Zenon DEF close_timeout
  <1> QED BY <1>1, <1>6, <1>7, QuietStep

\* recv empties the buffer.
LEMMA RecvKeeps ==
    ASSUME TcpInv, NEW h \in Host, NEW k \in DOMAIN sockets[h], recv(h, k)
    PROVE  TcpInv'
  <1> DEFINE s == sockets[h][k]
             t == [s EXCEPT !.recv_buf = 0]
  <1>1. UNCHANGED <<net, pc, opens, answered, sends>> /\ sockets' = [sockets EXCEPT ![h][k] = t]
    BY DEF recv
  <1>2. s \in Sockets /\ SocketOK(h, s)
    BY SocketType
  <1>3. t \in Sockets
    BY <1>2 DEF Sockets
  <1>4. /\ t.state = s.state /\ t.seq = s.seq /\ t.ack = s.ack /\ t.iss = s.iss /\ t.irs = s.irs
        /\ t.sent = s.sent /\ t.lost = s.lost /\ t.got = s.got
    BY <1>2 DEF Sockets
  <1> HIDE DEF s, t
  <1>5. SocketOK(h, t)
    BY <1>2, <1>4 DEF SocketOK, Numbered, Received
  <1>6. SocketsKept /\ \A g \in Host : DOMAIN sockets'[g] = DOMAIN sockets[g]
    BY <1>1, <1>3, <1>5, ReplaceOne, Zenon
  <1>7. CallsKept
    BY <1>1, <1>6, CallEnds
  <1> QED BY <1>1, <1>6, <1>7, QuietStep

\* close sends a FIN and waits.
LEMMA CloseKeeps ==
    ASSUME TcpInv, NEW h \in Host, NEW k \in DOMAIN sockets[h], close(h, k)
    PROVE  TcpInv'
  <1> DEFINE s == sockets[h][k]
             t == [s EXCEPT !.state = "FinWait1", !.seq = Plus(s.seq, 1), !.ack = s.ack]
  <1>1. UNCHANGED <<opens, answered, sends>>
    BY DEF close
  <1>2. s \in Sockets /\ SocketOK(h, s)
    BY SocketType
  <1>3. /\ t = [s EXCEPT !.seq = Plus(s.seq, 1), !.state = "FinWait1"]
        /\ s.seq \in Seqs /\ s.ack \in Seqs
    BY <1>2, Zenon DEF Sockets
  <1>4. sockets' = [sockets EXCEPT ![h][k] = t]
    BY <1>3, Zenon DEF close
  <1>5. Plus(s.seq, 1) \in Seqs
    BY SocketType
  <1>6. t \in Sockets /\ SocketOK(h, t)
    <2> HIDE DEF s
    <2> QED BY <1>2, <1>3, <1>5, LeavesOpen, OtherStates, Zenon
  <1>7. \A q \in net' : q \in net \/ (q \in Segments /\ SegmentOK(q))
    <2>1. net' = net \cup {From(h, s, {"FIN", "ACK"}, <<>>)}
      BY DEF close
    <2> HIDE DEF s
    <2> QED BY <2>1, <1>2, PlainSegment
  <1> HIDE DEF t
  <1>8. SocketsKept /\ \A g \in Host : DOMAIN sockets'[g] = DOMAIN sockets[g]
    BY <1>4, <1>6, ReplaceOne, Zenon
  <1>9. CallsKept
    <2> DEFINE c == [at |-> "close", sock |-> k]
    <2>1. pc' = [pc EXCEPT ![h] = c] /\ pc \in [Host -> Calls]
      BY DEF close, TcpInv, TcpTypes
    <2>2. k \in Nat
      BY SocketType
    <2>3. c \in Calls /\ c.at = "close" /\ c.sock = k
      BY <2>2 DEF Calls
    <2> HIDE DEF c
    <2>4. pc' \in [Host -> Calls] /\ \A g \in Host : pc'[g] = pc[g] \/ (g = h /\ pc'[g] = c)
      BY <2>1, <2>3
    <2> QED BY <2>3, <2>4, <1>8 DEF CallsKept, TcpInv, TcpTypes
  <1> QED BY <1>1, <1>7, <1>8, <1>9, QuietStep

\* External answers carry no SYN and no data.
LEMMA RefuseKeeps ==
    ASSUME TcpInv, refuse
    PROVE  TcpInv'
  <1>1. UNCHANGED <<sockets, pc, opens, answered, sends>>
    BY DEF refuse
  <1>2. PICK p \in net :
          \/ net' = (net \ {p}) \cup {Segment("client", p.dport, p.sport, 0, Plus(p.seq, 1),
                                              {"RST", "ACK"}, <<>>)}
          \/ net' = (net \ {p}) \cup {Segment("server", p.dport, p.sport, p.ack, 0, {"RST"}, <<>>)}
    BY DEF refuse
  <1>4. 0 \in Seqs /\ Plus(p.seq, 1) \in Seqs
    BY SegmentType, TcpAssumption DEF Seqs
  <1>5. ASSUME NEW q \in net' PROVE q \in net \/ (q \in Segments /\ SegmentOK(q))
    <2> DEFINE a == Segment("client", p.dport, p.sport, 0, Plus(p.seq, 1), {"RST", "ACK"}, <<>>)
               b == Segment("server", p.dport, p.sport, p.ack, 0, {"RST"}, <<>>)
    <2>1. p.dport \in Ports /\ p.sport \in Ports /\ p.ack \in Seqs /\ <<>> \in Seq(Tokens)
      BY SegmentType
    <2>2. a \in Segments /\ a.data = <<>> /\ a.flags = {"RST", "ACK"}
      BY <2>1, <1>4 DEF Segment, Segments, Host
    <2>3. b \in Segments /\ b.data = <<>> /\ b.flags = {"RST"}
      BY <2>1, <1>4 DEF Segment, Segments, Host
    <2>4. q \in net \/ q = a \/ q = b
      BY <1>2
    <2> HIDE DEF a, b
    <2>5. q \in net \/ (q \in Segments /\ q.data = <<>> /\ "SYN" \notin q.flags)
      BY <2>2, <2>3, <2>4
    <2> QED BY <2>5 DEF SegmentOK
  <1>6. SocketsKept
    BY <1>1, SameSockets
  <1>7. CallsKept
    BY <1>1 DEF CallsKept, TcpInv, TcpTypes
  <1> QED BY <1>1, <1>5, <1>6, <1>7, QuietStep

\* A connection that connect reports was answered: the acknowledged number is
\* one more than the SYN's, and only an answer to that SYN carries it.
LEMMA ConnectPollKeeps ==
    ASSUME TcpInv, connect_poll
    PROVE  TcpInv'
  <1> DEFINE c == pc["client"]
  <1>1. UNCHANGED <<opens, answered, sends>> /\ c.at = "connect"
    BY DEF connect_poll
  <1>2. c.port \in Ports /\ c.isn \in Seqs /\ c.isn \in Used("client") /\ "client" \in Host
    BY <1>1, CallType DEF Host, TcpInv, CallsOK
  <1>3. PICK p \in net :
          \/ /\ Answers(p, c)
             /\ LET s == Established(c.port, ServerPort, c.isn, p.seq) IN
                /\ Exchange("client", p, {From("client", s, {"ACK"}, <<>>)})
                /\ sockets' = IF Len(sockets["client"]) >= MAX_SOCKETS THEN sockets
                              ELSE [sockets EXCEPT !["client"] = Append(@, s)]
                /\ pc' = [pc EXCEPT !["client"] = NoCall]
          \/ /\ Exchange("client", p, {})
             /\ pc' = [pc EXCEPT !["client"] = NoCall] \/ UNCHANGED pc
             /\ UNCHANGED sockets
    BY Zenon DEF connect_poll
  <1>4. CASE /\ Exchange("client", p, {})
             /\ pc' = [pc EXCEPT !["client"] = NoCall] \/ UNCHANGED pc
             /\ UNCHANGED sockets
    <2>1. \A q \in net' : q \in net
      BY <1>4, ExchangeNet
    <2>2. SocketsKept
      BY <1>4, SameSockets
    <2>3. CallsKept
      BY <1>2, <1>4, CallEnds
    <2> QED BY <1>1, <2>1, <2>2, <2>3, QuietStep
  <1>5. CASE /\ Answers(p, c)
             /\ LET s == Established(c.port, ServerPort, c.isn, p.seq) IN
                /\ Exchange("client", p, {From("client", s, {"ACK"}, <<>>)})
                /\ sockets' = IF Len(sockets["client"]) >= MAX_SOCKETS THEN sockets
                              ELSE [sockets EXCEPT !["client"] = Append(@, s)]
                /\ pc' = [pc EXCEPT !["client"] = NoCall]
    <2> DEFINE s == Established(c.port, ServerPort, c.isn, p.seq)
    <2>1. PICK irs \in Seqs : <<p.seq, irs>> \in answered /\ p.ack = Plus(irs, 1)
      BY <1>5, Zenon DEF Answers, TcpInv, SegmentOK
    <2>2. irs = c.isn
      <3>1. Plus(irs, 1) = Plus(c.isn, 1)
        BY <1>5, <2>1 DEF Answers
      <3> QED BY <3>1, <1>2, PlusOneSame
    <2>3. <<p.seq, c.isn>> \in answered /\ p.seq \in Used("server")
      BY <2>1, <2>2 DEF TcpInv
    <2>4. Peer("client") = "server" /\ ServerPort \in Ports
      BY DEF Peer, Ports
    <2>5. s \in Sockets /\ SocketOK("client", s)
      BY <1>2, <2>3, <2>4, NewSocket
    <2> HIDE DEF s
    <2>6. /\ Exchange("client", p, {From("client", s, {"ACK"}, <<>>)})
          /\ UNCHANGED sockets \/ sockets' = [sockets EXCEPT !["client"] = Append(@, s)]
          /\ pc' = [pc EXCEPT !["client"] = NoCall]
      BY <1>5 DEF s
    <2>7. \A q \in net' : q \in net \/ (q \in Segments /\ SegmentOK(q))
      <3>1. net' \subseteq net \cup {From("client", s, {"ACK"}, <<>>)}
        BY <2>6, ExchangeNet
      <3> QED BY <3>1, <2>5, <1>2, PlainSegment
    <2>8. SocketsKept /\ \A g \in Host : DOMAIN sockets[g] \subseteq DOMAIN sockets'[g]
      BY <2>5, <2>6, <1>2, AddOne, SameSockets
    <2>9. CallsKept
      BY <2>6, <2>8, <1>2, CallEnds, Zenon
    <2> QED BY <1>1, <2>7, <2>8, <2>9, QuietStep
  <1> QED BY <1>3, <1>4, <1>5

\* A handshake that ends, with a socket registered.
LEMMA AcceptAckKeeps ==
    ASSUME TcpInv, accept_ack
    PROVE  TcpInv'
  <1> DEFINE c == pc["server"]
             s == Established(ServerPort, c.port, c.isn, c.irs)
             n == [at |-> "session", sock |-> Len(sockets["server"]) + 1]
  <1>1. UNCHANGED <<opens, answered, sends>> /\ c.at = "accept"
    BY DEF accept_ack
  <1>2. /\ c.port \in Ports /\ c.isn \in Used("server") /\ c.irs \in Used("client")
        /\ "server" \in Host
    BY <1>1, CallType DEF Host, TcpInv, CallsOK
  <1>3. PICK p \in net :
          /\ Exchange("server", p, {})
          /\ \/ /\ sockets' = [sockets EXCEPT !["server"] = Append(@, s)]
                /\ pc' = [pc EXCEPT !["server"] = n]
             \/ UNCHANGED <<sockets, pc>>
    BY DEF accept_ack
  <1>4. \A q \in net' : q \in net
    BY <1>3, ExchangeNet
  <1>5. CASE UNCHANGED <<sockets, pc>>
    <2>1. SocketsKept /\ CallsKept
      BY <1>5, SameSockets DEF CallsKept, TcpInv, TcpTypes
    <2> QED BY <1>1, <1>4, <2>1, QuietStep
  <1>6. CASE /\ sockets' = [sockets EXCEPT !["server"] = Append(@, s)]
             /\ pc' = [pc EXCEPT !["server"] = n]
    <2>1. Peer("server") = "client" /\ ServerPort \in Ports /\ "server" # "client"
      BY DEF Peer, Ports
    <2>2. s \in Sockets /\ SocketOK("server", s)
      BY <1>2, <2>1, NewSocket, Zenon
    <2> HIDE DEF s
    <2>3. /\ SocketsKept /\ \A g \in Host : DOMAIN sockets[g] \subseteq DOMAIN sockets'[g]
          /\ Len(sockets["server"]) + 1 \in DOMAIN sockets'["server"]
      BY <1>2, <1>6, <2>2, AddOne, Zenon
    <2>4. n \in Calls /\ n.at = "session" /\ n.sock = Len(sockets["server"]) + 1
      <3>1. sockets["server"] \in Seq(Sockets)
        BY <1>2 DEF TcpInv, TcpTypes
      <3> QED BY <3>1 DEF Calls
    <2> HIDE DEF n
    <2>5. CallsKept
      <3>1. pc \in [Host -> Calls]
        BY DEF TcpInv, TcpTypes
      <3>2. /\ pc' \in [Host -> Calls]
            /\ \A g \in Host : pc'[g] = pc[g] \/ (g = "server" /\ pc'[g] = n)
        BY <3>1, <1>2, <1>6, <2>4
      <3> QED BY <3>2, <2>3, <2>4 DEF CallsKept, TcpInv, TcpTypes
    <2> QED BY <1>1, <1>4, <2>3, <2>5, QuietStep
  <1> QED BY <1>3, <1>5, <1>6

\* The number generated by an open, and what was generated after it.
LEMMA Generated ==
    ASSUME TcpTypes, NEW h \in Host, opens[h] < MaxOpens,
           opens' = [opens EXCEPT ![h] = @ + 1]
    PROVE  /\ Isn(h) \in Seqs /\ Isn(h) \in Used(h)'
           /\ opens' \in [Host -> 0 .. MaxOpens]
           /\ \A g \in Host : opens[g] <= opens'[g]
  <1>1. opens \in [Host -> 0 .. MaxOpens] /\ opens[h] \in 0 .. MaxOpens - 1
    BY TcpAssumption DEF TcpTypes
  <1>2. Isn(h) \in Seqs
    BY <1>1, IsnType DEF Isn
  <1>3. opens'[h] = opens[h] + 1 /\ \A g \in Host : g # h => opens'[g] = opens[g]
    BY <1>1
  <1>4. opens[h] \in 0 .. opens'[h] - 1
    BY <1>1, <1>3
  <1>5. Isn(h) \in Used(h)'
    BY <1>4 DEF Isn, Used
  <1>6. opens' \in [Host -> 0 .. MaxOpens]
    BY <1>1, TcpAssumption
  <1>7. \A g \in Host : opens[g] <= opens'[g]
    BY <1>1, <1>3
  <1> QED BY <1>2, <1>5, <1>6, <1>7

\* connect sends a SYN with a number of its own.
LEMMA ConnectKeeps ==
    ASSUME TcpInv, connect
    PROVE  TcpInv'
  <1>1. PICK port \in ClientPorts :
          /\ net' = net \cup {Segment("server", port, ServerPort, Isn("client"), 0, {"SYN"}, <<>>)}
          /\ pc' = [pc EXCEPT !["client"] = [at |-> "connect", port |-> port, isn |-> Isn("client")]]
    BY Zenon DEF connect
  <1>2. /\ opens["client"] < MaxOpens /\ opens' = [opens EXCEPT !["client"] = @ + 1]
        /\ UNCHANGED <<sockets, answered, sends>>
    BY DEF connect
  <1> DEFINE syn == Segment("server", port, ServerPort, Isn("client"), 0, {"SYN"}, <<>>)
             c == [at |-> "connect", port |-> port, isn |-> Isn("client")]
  <1>3. "client" \in Host /\ "server" \in Host
    BY DEF Host
  <1>4. /\ Isn("client") \in Seqs /\ Isn("client") \in Used("client")'
        /\ opens' \in [Host -> 0 .. MaxOpens] /\ \A g \in Host : opens[g] <= opens'[g]
    BY <1>2, <1>3, Generated, Zenon DEF TcpInv
  <1>5. Grows
    BY <1>2, <1>4, SendsType DEF Grows, TcpInv
  <1>6. PICK p \in Segments :
          p = syn /\ p.flags = {"SYN"} /\ p.seq = Isn("client") /\ p.data = <<>>
    <2>1. 0 \in Seqs /\ port \in Ports /\ ServerPort \in Ports /\ <<>> \in Seq(Tokens)
      BY TcpAssumption DEF Seqs, Ports
    <2>2. /\ syn \in Segments
          /\ syn.flags = {"SYN"} /\ syn.seq = Isn("client") /\ syn.data = <<>>
      BY <2>1, <1>3, <1>4 DEF Segment, Segments
    <2> HIDE DEF syn
    <2> QED BY <2>2
  <1>7. c \in Calls /\ c.at = "connect" /\ c.isn = Isn("client")
    BY <1>4 DEF Calls, Ports
  <1>8. net' = net \cup {p} /\ pc' = [pc EXCEPT !["client"] = c]
    BY <1>1, <1>6
  <1> HIDE DEF syn, c
  <1>9. /\ pc' \in [Host -> Calls] /\ pc'["client"] = c
        /\ \A g \in Host : pc'[g] = pc[g] \/ pc'[g].at = "connect"
        /\ pc'["server"] = pc["server"]
    BY <1>3, <1>7, <1>8 DEF TcpInv, TcpTypes
  <1>10. TcpTypes'
    BY <1>2, <1>4, <1>6, <1>8, <1>9 DEF TcpInv, TcpTypes
  <1>11. SegmentOK(p)'
    BY <1>4, <1>6 DEF SegmentOK
  <1>12. CallsOK'
    <2>1. Used("server")' = Used("server")
      <3>1. opens'["server"] = opens["server"]
        BY <1>2, <1>3 DEF TcpInv, TcpTypes
      <3> QED BY <3>1 DEF Used
    <2>2. Used("client") \subseteq Used("client")'
      BY <1>3, <1>5, <1>10, UsedGrows DEF TcpInv
    <2> QED BY <2>1, <2>2, <1>4, <1>7, <1>9 DEF CallsOK, TcpInv
  <1>13. \A q \in net' : q \in net \/ SegmentOK(q)'
    BY <1>8, <1>11
  <1> QED BY <1>2, <1>5, <1>10, <1>12, <1>13, TcpStep

\* accept_tcp answers a SYN.
LEMMA AcceptSynKeeps ==
    ASSUME TcpInv, accept_syn
    PROVE  TcpInv'
  <1>1. UNCHANGED <<sockets, sends>>
    BY DEF accept_syn
  <1>2. PICK p \in net :
          \/ /\ p.flags = {"SYN"} /\ opens["server"] < MaxOpens
             /\ Exchange("server", p,
                   {Segment("client", ServerPort, p.sport, Isn("server"), Plus(p.seq, 1),
                            {"SYN", "ACK"}, <<>>)})
             /\ answered' = answered \cup {<<Isn("server"), p.seq>>}
             /\ pc' = [pc EXCEPT !["server"] =
                         [at |-> "accept", isn |-> Isn("server"), irs |-> p.seq,
                          port |-> p.sport]]
             /\ opens' = [opens EXCEPT !["server"] = @ + 1]
          \/ /\ Exchange("server", p, {})
             /\ UNCHANGED <<pc, opens, answered>>
    BY Zenon DEF accept_syn
  <1>3. CASE Exchange("server", p, {}) /\ UNCHANGED <<pc, opens, answered>>
    <2>1. \A q \in net' : q \in net
      BY <1>3, ExchangeNet
    <2>2. SocketsKept /\ CallsKept
      BY <1>1, <1>3, SameSockets DEF CallsKept, TcpInv, TcpTypes
    <2> QED BY <1>1, <1>3, <2>1, <2>2, QuietStep
  <1>4. CASE /\ p.flags = {"SYN"} /\ opens["server"] < MaxOpens
             /\ Exchange("server", p,
                   {Segment("client", ServerPort, p.sport, Isn("server"), Plus(p.seq, 1),
                            {"SYN", "ACK"}, <<>>)})
             /\ answered' = answered \cup {<<Isn("server"), p.seq>>}
             /\ pc' = [pc EXCEPT !["server"] =
                         [at |-> "accept", isn |-> Isn("server"), irs |-> p.seq,
                          port |-> p.sport]]
             /\ opens' = [opens EXCEPT !["server"] = @ + 1]
    <2> DEFINE synack == Segment("client", ServerPort, p.sport, Isn("server"), Plus(p.seq, 1),
                                 {"SYN", "ACK"}, <<>>)
               c == [at |-> "accept", isn |-> Isn("server"), irs |-> p.seq, port |-> p.sport]
    <2>1. "client" \in Host /\ "server" \in Host
      BY DEF Host
    <2>2. /\ Isn("server") \in Seqs /\ Isn("server") \in Used("server")'
          /\ opens' \in [Host -> 0 .. MaxOpens] /\ \A g \in Host : opens[g] <= opens'[g]
      BY <1>4, <2>1, Generated, Zenon DEF TcpInv
    <2>3. Grows
      <3>1. answered \subseteq answered'
        BY <1>4
      <3> QED BY <3>1, <1>1, <2>2, SendsType DEF Grows, TcpInv
    <2>4. p.seq \in Seqs /\ p.sport \in Ports /\ p.seq \in Used("client")
      BY <1>4, SegmentType DEF SegmentOK
    <2>5. Plus(p.seq, 1) \in Seqs
      BY SegmentType
    <2>6. PICK r \in Segments :
            /\ r = synack /\ r.flags = {"SYN", "ACK"} /\ r.seq = Isn("server")
            /\ r.ack = Plus(p.seq, 1) /\ r.data = <<>>
      <3>1. ServerPort \in Ports /\ <<>> \in Seq(Tokens)
        BY DEF Ports
      <3>2. /\ synack \in Segments /\ synack.flags = {"SYN", "ACK"} /\ synack.seq = Isn("server")
            /\ synack.ack = Plus(p.seq, 1) /\ synack.data = <<>>
        BY <3>1, <2>1, <2>2, <2>4, <2>5 DEF Segment, Segments
      <3> HIDE DEF synack
      <3> QED BY <3>2
    <2>7. c \in Calls /\ c.at = "accept" /\ c.isn = Isn("server") /\ c.irs = p.seq
      BY <2>2, <2>4 DEF Calls
    <2>8. net' \subseteq net \cup {r} /\ pc' = [pc EXCEPT !["server"] = c]
      BY <1>4, <2>6, ExchangeNet
    <2> HIDE DEF synack, c
    <2>9. /\ pc' \in [Host -> Calls] /\ pc'["server"] = c
          /\ \A g \in Host : pc'[g] = pc[g] \/ pc'[g].at = "accept"
          /\ pc'["client"] = pc["client"]
      BY <2>1, <2>7, <2>8 DEF TcpInv, TcpTypes
    <2>10. TcpTypes'
      BY <1>1, <2>2, <2>6, <2>8, <2>9 DEF TcpInv, TcpTypes
    <2>11. SegmentOK(r)'
      <3>1. <<r.seq, p.seq>> \in answered'
        BY <1>4, <2>6, Zenon
      <3>2. r.flags # {"SYN"}
        <4>1. {"SYN", "ACK"} # {"SYN"}
          OBVIOUS
        <4> QED BY <4>1, <2>6, Zenon
      <3> QED BY <3>1, <3>2, <2>4, <2>6 DEF SegmentOK
    <2>12. Used("client") \subseteq Used("client")'
      BY <2>1, <2>3, <2>10, UsedGrows DEF TcpInv
    <2>13. CallsOK'
      BY <2>12, <2>2, <2>4, <2>7, <2>9 DEF CallsOK, TcpInv
    <2>14. \A q \in net' : q \in net \/ SegmentOK(q)'
      BY <2>8, <2>11
    <2>15. answered' \subseteq answered \cup (Used("server")' \X Used("client")')
      <3>1. answered' = answered \cup {<<Isn("server"), p.seq>>}
        BY <1>4
      <3>2. <<Isn("server"), p.seq>> \in Used("server")' \X Used("client")'
        BY <2>2, <2>4, <2>12
      <3> QED BY <3>1, <3>2
    <2> QED BY <1>1, <2>3, <2>10, <2>13, <2>14, <2>15, TcpStep
  <1> QED BY <1>2, <1>3, <1>4

\* send numbers a token by its place in the connection.
LEMMA SendKeeps ==
    ASSUME TcpInv, NEW h \in Host, NEW k \in DOMAIN sockets[h], send(h, k)
    PROVE  TcpInv'
  <1>1. PICK s \in Sockets : s = sockets[h][k] /\ SocketOK(h, s)
    BY SocketType
  <1> DEFINE tok == [iss |-> s.iss, i |-> s.sent + 1]
             p == From(h, s, {"PSH", "ACK"}, <<tok>>)
             t == [s EXCEPT !.seq = Plus(@, 1), !.sent = @ + 1]
  <1>2. /\ s.state = "Established" /\ sends < MaxSends /\ sends' = sends + 1
        /\ net' = net \cup {p} /\ UNCHANGED <<pc, opens, answered>>
    BY <1>1 DEF send
  <1>3. sockets' = [sockets EXCEPT ![h][k] = t]
    BY <1>1, Zenon DEF send
  <1>4. sends \in Nat /\ s.sent \in Nat /\ s.sent <= sends /\ s.iss \in Seqs /\ s.seq \in Seqs
        /\ s.iss \in Used(h)
    <2>1. s.sent \in Nat /\ s.iss \in Seqs /\ s.seq \in Seqs
      BY DEF Sockets
    <2>2. s.sent <= sends /\ s.iss \in Used(h)
      BY <1>1 DEF SocketOK
    <2> QED BY <2>1, <2>2, SendsType DEF TcpInv
  <1>5. s.sent + 1 \in 1 .. MaxSends /\ s.sent + 1 \in 0 .. MaxSends
    <2>1. MaxSends \in Nat /\ sends < MaxSends
      BY <1>2, TcpAssumption
    <2> QED BY <1>4, <2>1, CountUp, Zenon
  <1>6. s.seq = Plus(s.iss, s.sent + 1)
    BY <1>1, <1>2 DEF SocketOK, Numbered
  <1>7. Plus(s.seq, 1) = Plus(s.iss, s.sent + 1 + 1) /\ Plus(s.seq, 1) \in Seqs
    <2>1. Plus(s.seq, 1) \in Seqs
      BY <1>4, PlusWraps, TcpAssumption
    <2>2. Plus(Plus(s.iss, s.sent + 1), 1) = Plus(s.iss, s.sent + 1 + 1)
      BY <1>4, <1>5, PlusNext
    <2> QED BY <2>1, <2>2, <1>6
  <1>8. tok \in Tokens /\ tok.iss = s.iss /\ tok.i = s.sent + 1
    BY <1>4, <1>5 DEF Tokens
  <1>9. /\ p \in Segments /\ p.flags = {"PSH", "ACK"} /\ p.data = <<tok>> /\ p.to = Peer(h)
        /\ p.seq = s.seq
    <2>1. Peer(h) \in Host /\ <<tok>> \in Seq(Tokens)
      BY <1>8, PeerType
    <2> HIDE DEF tok
    <2> QED BY <2>1 DEF From, Segment, Segments, Sockets
  <1>10. t \in Sockets
    <2>1. s.sent + 1 \in Nat
      BY <1>4
    <2> QED BY <2>1, <1>7, Zenon DEF Sockets
  <1>11. /\ t.state = s.state /\ t.seq = Plus(s.seq, 1) /\ t.ack = s.ack /\ t.iss = s.iss
         /\ t.irs = s.irs /\ t.sent = s.sent + 1 /\ t.lost = s.lost /\ t.got = s.got
    BY DEF Sockets
  <1> HIDE DEF tok, p, t
  <1>12. sockets \in [Host -> Seq(Sockets)]
    BY DEF TcpInv, TcpTypes
  <1>13. /\ sockets' = [sockets EXCEPT ![h] = [sockets[h] EXCEPT ![k] = t]]
         /\ [sockets[h] EXCEPT ![k] = t] \in Seq(Sockets)
    BY <1>3, <1>10, <1>12
  <1>14. /\ sockets' \in [Host -> Seq(Sockets)]
         /\ \A g \in Host : DOMAIN sockets'[g] = DOMAIN sockets[g]
         /\ \A g \in Host : \A r \in Range(sockets'[g]) : r \in Range(sockets[g]) \/ (g = h /\ r = t)
    BY <1>12, <1>13 DEF Range
  <1>15. Grows
    <2>1. sends <= sends'
      BY <1>2, <1>4
    <2> QED BY <2>1, <1>2, SendsType DEF Grows, TcpInv
  <1>16. TcpTypes'
    <2>1. sends' \in 0 .. MaxSends
      <3>1. MaxSends \in Nat /\ sends < MaxSends /\ sends' = sends + 1 /\ sends \in Nat
        BY <1>2, <1>4, TcpAssumption
      <3>2. sends <= sends
        BY <3>1
      <3> QED BY <3>1, <3>2, CountUp, Zenon
    <2> QED BY <2>1, <1>2, <1>9, <1>14 DEF TcpInv, TcpTypes
  <1>17. SegmentOK(p)'
    <2>1. Peer(Peer(h)) = h
      BY DEF Peer, Host
    <2>2. p.flags # {"SYN"} /\ "SYN" \notin p.flags
      BY <1>9
    <2>3. tok.iss \in Used(h)'
      BY <1>2, <1>4, <1>8 DEF Used
    <2> QED BY <2>1, <2>2, <2>3, <1>6, <1>8, <1>9 DEF SegmentOK
  <1>18. SocketOK(h, t)'
    <2>1. SocketOK(h, s)'
      BY <1>1, <1>15, <1>16, SocketStays DEF TcpInv
    <2>2. t.sent <= sends'
      <3>1. t.sent = s.sent + 1 /\ sends' = sends + 1
        BY <1>2, <1>11
      <3>2. s.sent + 1 <= sends + 1
        BY <1>4
      <3> QED BY <3>1, <3>2
    <2>3. Numbered(t)
      BY <1>1, <1>2, <1>7, <1>11 DEF SocketOK, Numbered
    <2>4. Received(t)
      BY <1>1, <1>11, Zenon DEF SocketOK, Received
    <2> QED BY <2>1, <2>2, <2>3, <2>4, <1>11 DEF SocketOK
  <1>19. \A q \in net' : q \in net \/ SegmentOK(q)'
    BY <1>2, <1>17
  <1>20. \A g \in Host : \A r \in Range(sockets'[g]) : r \in Range(sockets[g]) \/ SocketOK(g, r)'
    BY <1>14, <1>18
  <1>21. CallsOK'
    BY <1>2 DEF CallsOK, TcpInv, Used
  <1> QED BY <1>2, <1>15, <1>16, <1>19, <1>20, <1>21, TcpStep

\* Every step keeps the invariant.
LEMMA TcpNext ==
    ASSUME TcpInv, [Next]_tvars
    PROVE  TcpInv'
  <1>1. CASE connect
    BY <1>1, ConnectKeeps
  <1>2. CASE connect_poll
    BY <1>2, ConnectPollKeeps
  <1>3. CASE connect_timeout
    BY <1>3, GiveUpKeeps DEF connect_timeout, Host
  <1>4. CASE accept_syn
    BY <1>4, AcceptSynKeeps
  <1>5. CASE accept_ack
    BY <1>5, AcceptAckKeeps
  <1>6. CASE accept_timeout
    BY <1>6, GiveUpKeeps DEF accept_timeout, Host
  <1>7. CASE session_end
    BY <1>7, GiveUpKeeps DEF session_end, Host
  <1>8. CASE refuse
    BY <1>8, RefuseKeeps
  <1>9. ASSUME NEW h \in Host, close_poll(h) \/ close_timeout(h) \/ poll_incoming(h)
        PROVE  TcpInv'
    BY <1>9, ClosePollKeeps, CloseTimeoutKeeps, PollKeeps
  <1>10. ASSUME NEW h \in Host, NEW k \in DOMAIN sockets[h], send(h, k) \/ recv(h, k) \/ close(h, k)
         PROVE  TcpInv'
    BY <1>10, SendKeeps, RecvKeeps, CloseKeeps
  <1>11. CASE UNCHANGED tvars
    <2>1. UNCHANGED <<net, sockets, pc, opens, answered, sends>>
      BY <1>11 DEF tvars
    <2>2. SocketsKept /\ CallsKept
      BY <2>1, SameSockets DEF CallsKept, TcpInv, TcpTypes
    <2> QED BY <2>1, <2>2, QuietStep
  <1> QED BY <1>1, <1>2, <1>3, <1>4, <1>5, <1>6, <1>7, <1>8, <1>9, <1>10, <1>11 DEF Next

\* The invariant holds at the start.
LEMMA TcpStart ==
    ASSUME Init
    PROVE  TcpInv
  <1>1. NoCall \in Calls /\ NoCall.at = "idle"
    BY DEF NoCall, Calls
  <1>2. /\ net = {} /\ sockets = [h \in Host |-> <<>>] /\ pc = [h \in Host |-> NoCall]
        /\ opens = [h \in Host |-> 0] /\ answered = {} /\ sends = 0
    BY DEF Init
  <1>3. \A h \in Host : pc[h].at = "idle" /\ Range(sockets[h]) = {}
    BY <1>1, <1>2 DEF Range
  <1>4. TcpTypes
    BY <1>1, <1>2, <1>3, TcpAssumption DEF TcpTypes
  <1>5. CallsOK
    BY <1>3 DEF CallsOK, Host
  <1> QED BY <1>2, <1>3, <1>4, <1>5 DEF TcpInv

\* The invariant holds throughout.
THEOREM TcpInvariant == Spec => []TcpInv
  BY TcpStart, TcpNext, PTL DEF Spec

\* Every connection that connect reports was answered by the daemon, and the two
\* ends agree on both initial sequence numbers, though SYN-ACKs of earlier
\* attempts are delayed, repeated and overtaken.
THEOREM ClientsAgree == Spec => []ClientAgrees
  <1>1. TcpInv => ClientAgrees
    BY DEF TcpInv, SocketOK, ClientAgrees, Host, Range
  <1> QED BY <1>1, TcpInvariant, PTL

\* What a socket takes in comes from its own connection, in order and once; what
\* is missing did not fit the buffer.
THEOREM ReceivedInOrder == Spec => []InOrder
  <1>1. TcpInv => InOrder
    <2> SUFFICES ASSUME TcpInv, NEW s \in AllSockets
                 PROVE  /\ \A i \in DOMAIN s.got : s.got[i].iss = s.irs
                        /\ \A i, j \in DOMAIN s.got : i < j => s.got[i].i < s.got[j].i
                        /\ s.lost = 0 => \A i \in DOMAIN s.got : s.got[i].i = i
      BY DEF InOrder
    <2>1. PICK h \in Host : s \in Range(sockets[h])
      BY DEF AllSockets
    <2>2. Received(s)
      BY <2>1, Zenon DEF TcpInv, SocketOK
    <2> QED BY <2>2 DEF Received
  <1> QED BY <1>1, TcpInvariant, PTL
=============================================================================
