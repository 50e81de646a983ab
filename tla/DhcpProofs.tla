---------------------------- MODULE DhcpProofs ----------------------------
(***************************************************************************)
(* A client of the DHCP server that uses an address has a lease on it,     *)
(* for any number of clients, addresses and reservations and any lease     *)
(* time, when the table has a slot for each client.                        *)
(*                                                                         *)
(* The invariant says the same of the answers on their way (GrantsKept):   *)
(* a lease is granted when the answer is sent, which is not before the     *)
(* request, so that it outlasts the client's own count.  It needs that a   *)
(* client asks only for the address it uses, if it uses one, and gives up  *)
(* its address before it asks to release it (AsksForItsOwn): then a late   *)
(* packet cannot move or drop the lease.  That a grant finds a slot is the *)
(* pigeonhole principle (FullHasAll): clients have at most one lease each. *)
(***************************************************************************)
EXTENDS Dhcpd, FiniteSetTheorems, WellFoundedInduction, TLAPS

\* A set of numbers has a least one, which is where a linear search stops.
LEMMA Least ==
    ASSUME NEW S \in SUBSET Nat, S # {}
    PROVE  \E k \in S : \A j \in S : k <= j
  <1> DEFINE R == {ss \in Nat \X Nat : ss[1] < ss[2]}
  <1>1. IsWellFoundedOn(R, Nat)
    <2>1. OpToRel(<, Nat) = R
      BY DEF OpToRel
    <2> QED BY <2>1, NatLessThanWellFounded, Zenon
  <1>2. PICK x \in S : \A y \in S : ~ (<<y, x>> \in R)
    <2> HIDE DEF R
    <2> QED BY <1>1, WFMin, Zenon
  <1>3. ASSUME NEW y \in S PROVE x <= y
    <2>1. x \in Nat /\ y \in Nat
      OBVIOUS
    <2>2. ~(y < x)
      <3>1. <<y, x>> \in Nat \X Nat /\ <<y, x>>[1] = y /\ <<y, x>>[2] = x
        BY <2>1
      <3> QED BY <3>1, <1>2
    <2> QED BY <2>1, <2>2
  <1> QED BY <1>3

-----------------------------------------------------------------------------
\* The types of the table, the messages and what clients remember.
AllIps == Ips \cup Reservable
Kinds  == {"none", "DISCOVER", "REQUEST", "RELEASE", "DECLINE", "OFFER", "ACK", "NAK"}
Leases == [mac : Macs, ip : Pool, granted_tick : Nat, active : BOOLEAN]
Messages == [kind : Kinds, ip : AllIps, sent : Nat]
Bindings == [ip : AllIps, sent : Nat]

DhcpTypes ==
    /\ ticks \in Nat
    /\ leases \in Seq(Leases) /\ Len(leases) <= MAX_LEASES
    /\ reservations \in Seq([mac : Macs, ip : AllIps])
    /\ packet \in [Macs -> Messages] /\ answer \in [Macs -> Messages]
    /\ bound \in [Macs -> SUBSET Bindings]

\* The table has an active lease of m's on r's address, granted when r was sent or later.
Backed(m, r) ==
    \E i \in DOMAIN leases :
        /\ leases[i].mac = m /\ leases[i].ip = r.ip
        /\ leases[i].active /\ r.sent <= leases[i].granted_tick

\* What was granted to m in answer to r is on the table while it lasts.
Good(m, r) == r.sent <= ticks /\ (Live(r) => Backed(m, r))

\* That holds of what clients remember and of what they are about to learn.
GrantsKept ==
    \A m \in Macs :
        /\ \A b \in bound[m] : Good(m, b)
        /\ answer[m].kind = "ACK" => Good(m, answer[m])

\* A client asks for nothing but the address it is using, and uses none that it gives up.
AsksForItsOwn ==
    \A m \in Macs :
        /\ \A b, c \in bound[m] : b = c
        /\ packet[m].kind # "none" => answer[m].kind = "none"
        /\ packet[m].kind = "REQUEST" =>
              packet[m].sent <= ticks /\ \A b \in bound[m] : Live(b) => b.ip = packet[m].ip
        /\ packet[m].kind \in {"RELEASE", "DECLINE"} => bound[m] = {}

\* A client has at most one active lease.
OneLeaseEach ==
    \A i, j \in DOMAIN leases :
        leases[i].active /\ leases[j].active /\ leases[i].mac = leases[j].mac => i = j

\* The inductive invariant of the server and its clients.
DhcpInv == DhcpTypes /\ GrantsKept /\ AsksForItsOwn /\ OneLeaseEach

\* The table has a slot for every client.
RoomForAll == IsFiniteSet(Macs) /\ Cardinality(Macs) <= MAX_LEASES

\* A search that has a hit finds one.
LEMMA FirstOne ==
    ASSUME NEW hits \in SUBSET Nat, hits # {}
    PROVE  \E i \in hits : First(hits) = {i}
  <1>1. PICK i \in hits : \A j \in hits : i <= j
    BY Least
  <1>2. \A k \in hits : (\A j \in hits : k <= j) => k = i
    <2> SUFFICES ASSUME NEW k \in hits, \A j \in hits : k <= j PROVE k = i
      OBVIOUS
    <2>1. k <= i /\ i <= k /\ i \in Nat /\ k \in Nat
      BY <1>1
    <2> QED BY <2>1
  <1> QED BY <1>1, <1>2 DEF First

\* The indices of the table.
LEMMA LeaseType ==
    ASSUME DhcpTypes
    PROVE  /\ DOMAIN leases = 1 .. Len(leases) /\ Len(leases) \in Nat
           /\ \A i \in DOMAIN leases :
                 /\ leases[i] \in Leases /\ leases[i].mac \in Macs /\ leases[i].ip \in Pool
                 /\ leases[i].granted_tick \in Nat /\ leases[i].active \in BOOLEAN
  <1>1. leases \in Seq(Leases)
    BY DEF DhcpTypes
  <1>2. DOMAIN leases = 1 .. Len(leases) /\ Len(leases) \in Nat
    BY <1>1
  <1>3. \A i \in DOMAIN leases : leases[i] \in Leases
    BY <1>1, <1>2
  <1> QED BY <1>2, <1>3 DEF Leases

\* A table without room holds an unexpired lease of every client: fewer than
\* MAX_LEASES others cannot fill it.
LEMMA FullHasAll ==
    ASSUME DhcpInv, RoomForAll, NEW m \in Macs,
           \A j \in DOMAIN leases : leases[j].active,
           \A j \in DOMAIN leases : leases[j].mac # m
    PROVE  Len(leases) < MAX_LEASES
  <1> DEFINE n == Len(leases)
             f == [i \in 1 .. n |-> leases[i].mac]
             T == Macs \ {m}
  <1>1. /\ DOMAIN leases = 1 .. n /\ n \in Nat
        /\ \A i \in DOMAIN leases : leases[i].mac \in Macs
    BY LeaseType DEF DhcpInv
  <1>2. IsFiniteSet(T) /\ Cardinality(T) = Cardinality(Macs) - 1
    BY FS_RemoveElement DEF RoomForAll
  <1>3. Cardinality(Macs) \in Nat /\ Cardinality(T) \in Nat
    BY <1>2, FS_CardinalityType DEF RoomForAll
  <1>4. IsFiniteSet(1 .. n) /\ Cardinality(1 .. n) = n
    <2>1. n \in Int /\ 1 \in Int
      BY <1>1
    <2> HIDE DEF n
    <2>2. IsFiniteSet(1 .. n) /\ Cardinality(1 .. n) = IF 1 > n THEN 0 ELSE n - 1 + 1
      BY <2>1, FS_Interval
    <2> QED BY <2>1, <2>2, <1>1
  <1>5. f \in [1 .. n -> T]
    BY <1>1
  <1>6. \A i, j \in 1 .. n : f[i] = f[j] => i = j
    BY <1>1 DEF DhcpInv, OneLeaseEach
  <1> HIDE DEF f, T, n
  <1>7. f \in Injection(1 .. n, T)
    BY <1>5, <1>6 DEF Injection, IsInjective
  <1>8. n <= Cardinality(T)
    BY <1>2, <1>4, <1>7, FS_Injection
  <1>9. n < MAX_LEASES
    BY <1>1, <1>2, <1>3, <1>8, DhcpAssumption DEF RoomForAll
  <1> QED BY <1>9 DEF n

\* m has no active lease.
NoneOf(m) == \A j \in DOMAIN leases : leases[j].active => leases[j].mac # m

\* grant_lease moves the lease the client has, or else takes the slot of an
\* expired one, or else adds one.
LEMMA GrantCases ==
    ASSUME DhcpInv, RoomForAll, NEW m \in Macs, NEW ip \in Pool
    PROVE  \/ \E s \in DOMAIN leases :
                 /\ grant_lease(m, ip) =
                      [i \in DOMAIN leases |-> IF i = s THEN Granted(m, ip) ELSE leases[i]]
                 /\ \/ leases[s].active /\ leases[s].mac = m
                    \/ is_expired(leases[s]) /\ NoneOf(m)
           \/ /\ grant_lease(m, ip) = Append(leases, Granted(m, ip))
              /\ Len(leases) < MAX_LEASES /\ NoneOf(m)
  <1> DEFINE mine == {i \in DOMAIN leases : leases[i].mac = m /\ leases[i].active}
             gone == {i \in DOMAIN leases : is_expired(leases[i])}
  <1>1. DOMAIN leases \subseteq Nat
    BY LeaseType DEF DhcpInv
  <1>2. find_lease_by_mac(m) = First(mine) /\ find_expired = First(gone)
    BY DEF find_lease_by_mac, find_expired
  <1>3. First(mine) \subseteq mine /\ First(gone) \subseteq gone
    BY DEF First
  <1>4. mine \in SUBSET Nat /\ gone \in SUBSET Nat
    BY <1>1
  <1>5. CASE mine # {}
    <2>1. PICK s \in mine : First(mine) = {s}
      <3> HIDE DEF mine
      <3> QED BY <1>4, <1>5, FirstOne
    <2>2. grant_lease(m, ip) =
            [i \in DOMAIN leases |-> IF i = s THEN Granted(m, ip) ELSE leases[i]]
      <3>1. \A i : i \in First(mine) <=> i = s
        BY <2>1
      <3> HIDE DEF mine
      <3> QED BY <1>2, <2>1, <3>1 DEF grant_lease
    <2> QED BY <2>1, <2>2
  <1>6. CASE mine = {} /\ gone # {}
    <2>1. PICK s \in gone : First(gone) = {s}
      <3> HIDE DEF gone
      <3> QED BY <1>4, <1>6, FirstOne
    <2>2. First(mine) = {}
      BY <1>3, <1>6
    <2>3. grant_lease(m, ip) =
            [i \in DOMAIN leases |-> IF i = s THEN Granted(m, ip) ELSE leases[i]]
      <3>1. \A i : i \in First(gone) <=> i = s
        BY <2>1
      <3> HIDE DEF mine, gone
      <3> QED BY <1>2, <2>1, <2>2, <3>1 DEF grant_lease
    <2>4. NoneOf(m)
      BY <1>6 DEF NoneOf
    <2> QED BY <2>1, <2>3, <2>4
  <1>7. CASE mine = {} /\ gone = {}
    <2>1. First(mine) = {} /\ First(gone) = {}
      BY <1>3, <1>7
    <2>2. NoneOf(m)
      BY <1>7 DEF NoneOf
    <2>3. \A j \in DOMAIN leases : leases[j].active
      BY <1>7 DEF is_expired
    <2>4. Len(leases) < MAX_LEASES
      BY <2>2, <2>3, FullHasAll DEF NoneOf
    <2>5. grant_lease(m, ip) = Append(leases, Granted(m, ip))
      <3> HIDE DEF mine, gone
      <3> QED BY <1>2, <2>1, <2>4 DEF grant_lease
    <2> QED BY <2>2, <2>4, <2>5
  <1> QED BY <1>5, <1>6, <1>7

\* What an answer or a binding is about stays granted as time passes.
LEMMA GoodStays ==
    ASSUME ticks \in Nat, ticks' \in Nat, ticks <= ticks', NEW m, NEW r, r.sent \in Nat,
           Good(m, r), Live(r) /\ Backed(m, r) => Backed(m, r)'
    PROVE  Good(m, r)'
  <1>1. r.sent <= ticks'
    BY DEF Good
  <1>2. ASSUME Live(r)' PROVE Backed(m, r)'
    <2>1. Live(r)
      BY <1>2, DhcpAssumption DEF Live
    <2> QED BY <2>1 DEF Good
  <1> QED BY <1>1, <1>2 DEF Good

\* Steps that leave the table alone: what they add to the answers and bindings
\* was granted before.
LEMMA TableSame ==
    ASSUME DhcpInv, DhcpTypes', UNCHANGED leases, ticks <= ticks',
           \A m \in Macs : \A b \in bound'[m] :
              b \in bound[m] \/ (b \in Bindings /\ Good(m, b)),
           \A m \in Macs : answer'[m].kind = "ACK" => answer'[m] = answer[m],
           AsksForItsOwn'
    PROVE  DhcpInv'
  <1>1. ticks \in Nat /\ ticks' \in Nat /\ bound \in [Macs -> SUBSET Bindings]
        /\ answer \in [Macs -> Messages]
    BY DEF DhcpInv, DhcpTypes
  <1>2. OneLeaseEach'
    BY DEF DhcpInv, OneLeaseEach
  <1>3. ASSUME NEW m \in Macs, NEW b \in bound'[m] PROVE Good(m, b)'
    <2>1. b \in Bindings /\ Good(m, b)
      BY <1>1 DEF DhcpInv, GrantsKept
    <2>2. b.sent \in Nat
      BY <2>1 DEF Bindings
    <2>3. Backed(m, b) => Backed(m, b)'
      BY DEF Backed
    <2> QED BY <1>1, <2>1, <2>2, <2>3, GoodStays
  <1>4. ASSUME NEW m \in Macs, answer'[m].kind = "ACK" PROVE Good(m, answer[m])'
    <2>1. answer'[m] = answer[m]
      BY <1>4
    <2>2. PICK r \in Messages : r = answer[m]
      BY <1>1
    <2>3. Good(m, r) /\ r.sent \in Nat
      BY <1>4, <2>1, <2>2 DEF DhcpInv, GrantsKept, Messages
    <2>4. Backed(m, r) => Backed(m, r)'
      BY DEF Backed
    <2>5. Good(m, r)'
      BY <1>1, <2>3, <2>4, GoodStays
    <2> QED BY <2>1, <2>2, <2>5
  <1>5. GrantsKept'
    BY <1>3, <1>4 DEF GrantsKept
  <1> QED BY <1>2, <1>5 DEF DhcpInv

\* Client packets and server answers have the form of messages.
LEMMA PacketType ==
    ASSUME NEW k \in Kinds, NEW ip \in AllIps, NEW t \in Nat
    PROVE  /\ Packet(k, ip, t) \in Messages
           /\ Packet(k, ip, t).kind = k /\ Packet(k, ip, t).ip = ip /\ Packet(k, ip, t).sent = t
           /\ Silent \in Messages /\ Silent.kind = "none"
  BY DEF Packet, Messages, Silent, Kinds, AllIps, Ips

\* An address that is offered is known.
LEMMA AllocateType ==
    ASSUME DhcpTypes, NEW m \in Macs
    PROVE  allocate_ip(m) \subseteq AllIps
  <1>1. find_reservation(m) \subseteq AllIps
    <2>1. \A i \in DOMAIN reservations : reservations[i].ip \in AllIps
      <3> DEFINE R == [mac : Macs, ip : AllIps]
      <3>1. reservations \in Seq(R)
        BY DEF DhcpTypes
      <3>2. \A r \in R : r.ip \in AllIps
        OBVIOUS
      <3> HIDE DEF R
      <3>3. \A i \in DOMAIN reservations : reservations[i] \in R
        BY <3>1
      <3> QED BY <3>2, <3>3
    <2> QED BY <2>1 DEF find_reservation, First
  <1>2. First(free_ips) \subseteq AllIps
    BY DEF First, free_ips, AllIps, Ips
  <1>3. {leases[i].ip : i \in {j \in find_lease_by_mac(m) : ~is_expired(leases[j])}} \subseteq AllIps
    <2>1. find_lease_by_mac(m) \subseteq DOMAIN leases
      BY DEF find_lease_by_mac, First
    <2>2. \A i \in DOMAIN leases : leases[i].ip \in AllIps
      BY LeaseType DEF AllIps, Ips
    <2> QED BY <2>1, <2>2
  <1> QED BY <1>1, <1>2, <1>3 DEF allocate_ip

-----------------------------------------------------------------------------
\* The clients' steps and the clock.

\* Time makes no lease appear or disappear before it has run out.
LEMMA TickKeeps ==
    ASSUME DhcpInv, Tick
    PROVE  DhcpInv'
  <1>1. UNCHANGED <<leases, reservations, packet, answer, bound>> /\ ticks' = ticks + 1
    BY DEF Tick
  <1>2. ticks \in Nat /\ ticks' \in Nat /\ ticks <= ticks'
    BY <1>1 DEF DhcpInv, DhcpTypes
  <1>3. DhcpTypes'
    BY <1>1, <1>2 DEF DhcpInv, DhcpTypes
  <1>4. AsksForItsOwn'
    <2> SUFFICES ASSUME NEW m \in Macs, packet[m].kind = "REQUEST"
                 PROVE  /\ packet[m].sent <= ticks'
                        /\ \A b \in bound[m] : Live(b)' => b.ip = packet[m].ip
      BY <1>1 DEF DhcpInv, AsksForItsOwn
    <2>1. packet[m].sent \in Nat /\ packet[m].sent <= ticks
      BY DEF DhcpInv, DhcpTypes, Messages, AsksForItsOwn
    <2>2. ASSUME NEW b \in bound[m], Live(b)' PROVE Live(b)
      <3>1. b.sent \in Nat
        BY DEF DhcpInv, DhcpTypes, Bindings
      <3> QED BY <2>2, <3>1, <1>1, <1>2, DhcpAssumption DEF Live
    <2> QED BY <2>1, <2>2, <1>2 DEF DhcpInv, AsksForItsOwn
  <1> QED BY <1>1, <1>2, <1>3, <1>4, TableSame

\* Sending a packet forgets the answer to the last one.
LEMMA SendKeepsLeases ==
    ASSUME DhcpInv, NEW m \in Macs, NEW p \in Messages, Send(m, p),
           bound' \in [Macs -> SUBSET Bindings],
           \A n \in Macs : bound'[n] = bound[n] \/ (n = m /\ bound'[n] = {}),
           p.kind = "REQUEST" =>
              p.sent <= ticks /\ \A b \in bound'[m] : Live(b) => b.ip = p.ip,
           p.kind \in {"RELEASE", "DECLINE"} => bound'[m] = {}
    PROVE  DhcpInv'
  <1>1. /\ packet' = [packet EXCEPT ![m] = p] /\ answer' = [answer EXCEPT ![m] = Silent]
        /\ UNCHANGED <<leases, reservations, ticks>>
    BY DEF Send
  <1>2. Silent \in Messages /\ Silent.kind = "none"
    BY DEF Messages, Silent, Kinds, AllIps, Ips
  <1>3. packet \in [Macs -> Messages] /\ answer \in [Macs -> Messages] /\ ticks \in Nat
    BY DEF DhcpInv, DhcpTypes
  <1>4. /\ packet' \in [Macs -> Messages] /\ answer' \in [Macs -> Messages]
        /\ packet'[m] = p /\ answer'[m] = Silent
        /\ \A n \in Macs : n # m => packet'[n] = packet[n] /\ answer'[n] = answer[n]
    BY <1>1, <1>2, <1>3
  <1>5. DhcpTypes'
    BY <1>1, <1>4 DEF DhcpInv, DhcpTypes
  <1>6. \A b : Live(b)' <=> Live(b)
    BY <1>1 DEF Live
  <1>7. AsksForItsOwn'
    <2> SUFFICES ASSUME NEW n \in Macs
                 PROVE  /\ \A b, c \in bound'[n] : b = c
                        /\ packet'[n].kind # "none" => answer'[n].kind = "none"
                        /\ packet'[n].kind = "REQUEST" =>
                              /\ packet'[n].sent <= ticks'
                              /\ \A b \in bound'[n] : Live(b)' => b.ip = packet'[n].ip
                        /\ packet'[n].kind \in {"RELEASE", "DECLINE"} => bound'[n] = {}
      BY DEF AsksForItsOwn
    <2>1. CASE n = m
      BY <2>1, <1>1, <1>2, <1>4, <1>6 DEF DhcpInv, AsksForItsOwn
    <2>2. CASE n # m
      BY <2>2, <1>1, <1>4, <1>6 DEF DhcpInv, AsksForItsOwn
    <2> QED BY <2>1, <2>2
  <1>8. \A n \in Macs : answer'[n].kind = "ACK" => answer'[n] = answer[n]
    BY <1>2, <1>4
  <1>9. \A n \in Macs : \A b \in bound'[n] : b \in bound[n]
    OBVIOUS
  <1> QED BY <1>1, <1>3, <1>5, <1>7, <1>8, <1>9, TableSame

\* A client that looks for an address has none to lose.
LEMMA DiscoverKeeps ==
    ASSUME DhcpInv, NEW m \in Macs, Discover(m)
    PROVE  DhcpInv'
  <1>1. PICK p \in Messages : p = Packet("DISCOVER", Elsewhere, 0) /\ p.kind = "DISCOVER"
    BY PacketType DEF Kinds, AllIps, Ips
  <1>2. Send(m, p) /\ UNCHANGED bound
    BY <1>1 DEF Discover
  <1>3. bound \in [Macs -> SUBSET Bindings]
    BY DEF DhcpInv, DhcpTypes
  <1> QED BY <1>1, <1>2, <1>3, SendKeepsLeases

\* A client asks for the address it uses: it takes an offer only when it uses none.
LEMMA RequestKeeps ==
    ASSUME DhcpInv, NEW m \in Macs, Request(m)
    PROVE  DhcpInv'
  <1>1. PICK ip \in Ips :
          /\ \/ answer[m].kind = "OFFER" /\ ip = answer[m].ip /\ Using(m) = {}
             \/ \E b \in bound[m] : ip = b.ip
          /\ Send(m, Packet("REQUEST", ip, ticks))
    BY DEF Request
  <1>2. UNCHANGED bound
    BY DEF Request
  <1>3. bound \in [Macs -> SUBSET Bindings] /\ ticks \in Nat
    BY DEF DhcpInv, DhcpTypes
  <1>4. PICK p \in Messages :
          p = Packet("REQUEST", ip, ticks) /\ p.kind = "REQUEST" /\ p.ip = ip /\ p.sent = ticks
    BY <1>3, PacketType DEF Kinds, AllIps
  <1>5. ASSUME NEW b \in bound[m], Live(b) PROVE b.ip = ip
    <2>1. b.ip \in Using(m)
      BY <1>5 DEF Using
    <2>2. PICK c \in bound[m] : ip = c.ip
      BY <1>1, <2>1
    <2> QED BY <2>2 DEF DhcpInv, AsksForItsOwn
  <1>6. Send(m, p)
    BY <1>1, <1>4
  <1> QED BY <1>2, <1>3, <1>4, <1>5, <1>6, SendKeepsLeases

\* A client forgets the address it releases or declines.
LEMMA ReleaseKeeps ==
    ASSUME DhcpInv, NEW m \in Macs, NEW k \in {"RELEASE", "DECLINE"}, Release(m, k)
    PROVE  DhcpInv'
  <1>1. PICK p \in Messages : p = Packet(k, Elsewhere, 0) /\ p.kind = k
    BY PacketType DEF Kinds, AllIps, Ips
  <1>2. Send(m, p) /\ bound' = [bound EXCEPT ![m] = {}]
    BY <1>1 DEF Release
  <1>3. /\ bound' \in [Macs -> SUBSET Bindings] /\ bound'[m] = {}
        /\ \A n \in Macs : n # m => bound'[n] = bound[n]
    BY <1>2 DEF DhcpInv, DhcpTypes
  <1> QED BY <1>1, <1>2, <1>3, SendKeepsLeases

\* A client takes what it is granted, and nothing while it waits for an answer.
LEMMA ReceiveKeeps ==
    ASSUME DhcpInv, NEW m \in Macs, Receive(m)
    PROVE  DhcpInv'
  <1>1. PICK a \in Messages : a = answer[m]
    BY DEF DhcpInv, DhcpTypes
  <1> DEFINE B == IF a.kind = "ACK" THEN {[ip |-> a.ip, sent |-> a.sent]} ELSE {}
  <1>2. /\ a.kind \in {"ACK", "NAK"} /\ answer' = [answer EXCEPT ![m] = Silent]
        /\ bound' = [bound EXCEPT ![m] = B]
        /\ UNCHANGED <<leases, reservations, ticks, packet>>
    BY <1>1 DEF Receive
  <1>3. B \in SUBSET Bindings /\ \A b, c \in B : b = c
    BY DEF Messages, Bindings
  <1>4. \A b \in B : b.ip = a.ip /\ b.sent = a.sent /\ a.kind = "ACK"
    OBVIOUS
  <1> HIDE DEF B
  <1>5. Silent \in Messages /\ Silent.kind = "none"
    BY DEF Messages, Silent, Kinds, AllIps, Ips
  <1>6. answer \in [Macs -> Messages] /\ bound \in [Macs -> SUBSET Bindings] /\ ticks \in Nat
    BY DEF DhcpInv, DhcpTypes
  <1>7. /\ answer' \in [Macs -> Messages] /\ bound' \in [Macs -> SUBSET Bindings]
        /\ answer'[m] = Silent /\ bound'[m] = B
        /\ \A n \in Macs : n # m => answer'[n] = answer[n] /\ bound'[n] = bound[n]
    BY <1>2, <1>3, <1>5, <1>6
  <1>8. DhcpTypes'
    BY <1>2, <1>7 DEF DhcpInv, DhcpTypes
  <1>9. packet[m].kind = "none"
    BY <1>1, <1>2 DEF DhcpInv, AsksForItsOwn
  <1>10. \A b : Live(b)' <=> Live(b)
    BY <1>2 DEF Live
  <1>11. AsksForItsOwn'
    <2> SUFFICES ASSUME NEW n \in Macs
                 PROVE  /\ \A b, c \in bound'[n] : b = c
                        /\ packet'[n].kind # "none" => answer'[n].kind = "none"
                        /\ packet'[n].kind = "REQUEST" =>
                              /\ packet'[n].sent <= ticks'
                              /\ \A b \in bound'[n] : Live(b)' => b.ip = packet'[n].ip
                        /\ packet'[n].kind \in {"RELEASE", "DECLINE"} => bound'[n] = {}
      BY DEF AsksForItsOwn
    <2>1. CASE n = m
      BY <2>1, <1>2, <1>3, <1>5, <1>7, <1>9
    <2>2. CASE n # m
      BY <2>2, <1>2, <1>7, <1>10 DEF DhcpInv, AsksForItsOwn
    <2> QED BY <2>1, <2>2
  <1>12. ASSUME NEW n \in Macs, NEW b \in bound'[n]
         PROVE  b \in bound[n] \/ (b \in Bindings /\ Good(n, b))
    <2>1. CASE n = m
      <3>1. b \in Bindings /\ b.ip = a.ip /\ b.sent = a.sent /\ a.kind = "ACK"
        BY <2>1, <1>3, <1>4, <1>7
      <3>2. Good(m, a)
        BY <1>1, <3>1 DEF DhcpInv, GrantsKept
      <3>3. Good(m, b)
        BY <3>1, <3>2 DEF Good, Live, Backed
      <3> QED BY <2>1, <3>1, <3>3
    <2> QED BY <2>1, <1>7
  <1>13. \A n \in Macs : answer'[n].kind = "ACK" => answer'[n] = answer[n]
    BY <1>5, <1>7
  <1> QED BY <1>2, <1>6, <1>8, <1>11, <1>12, <1>13, TableSame

\* A packet that is handled or lost leaves the client as it was.
LEMMA ServedAsks ==
    ASSUME DhcpInv, NEW m \in Macs, UNCHANGED <<ticks, bound>>,
           packet' = [packet EXCEPT ![m] = Silent], answer' \in [Macs -> Messages],
           \A n \in Macs : n # m => answer'[n] = answer[n]
    PROVE  packet' \in [Macs -> Messages] /\ AsksForItsOwn'
  <1>1. Silent \in Messages /\ Silent.kind = "none"
    BY DEF Messages, Silent, Kinds, AllIps, Ips
  <1>2. packet \in [Macs -> Messages]
    BY DEF DhcpInv, DhcpTypes
  <1>3. /\ packet' \in [Macs -> Messages] /\ packet'[m] = Silent
        /\ \A n \in Macs : n # m => packet'[n] = packet[n]
    BY <1>1, <1>2
  <1>4. \A b : Live(b)' <=> Live(b)
    BY DEF Live
  <1>5. ASSUME NEW n \in Macs
        PROVE  /\ \A b, c \in bound'[n] : b = c
               /\ packet'[n].kind # "none" => answer'[n].kind = "none"
               /\ packet'[n].kind = "REQUEST" =>
                     /\ packet'[n].sent <= ticks'
                     /\ \A b \in bound'[n] : Live(b)' => b.ip = packet'[n].ip
               /\ packet'[n].kind \in {"RELEASE", "DECLINE"} => bound'[n] = {}
    <2>1. CASE n = m
      BY <2>1, <1>1, <1>3 DEF DhcpInv, AsksForItsOwn
    <2>2. CASE n # m
      BY <2>2, <1>3, <1>4 DEF DhcpInv, AsksForItsOwn
    <2> QED BY <2>1, <2>2
  <1> QED BY <1>3, <1>5 DEF AsksForItsOwn

\* A lost packet changes nothing on the table.
LEMMA LosePacketKeeps ==
    ASSUME DhcpInv, NEW m \in Macs, LosePacket(m)
    PROVE  DhcpInv'
  <1>1. /\ packet' = [packet EXCEPT ![m] = Silent]
        /\ UNCHANGED <<leases, reservations, ticks, answer, bound>>
    BY DEF LosePacket
  <1>2. answer' \in [Macs -> Messages] /\ ticks \in Nat
    BY <1>1 DEF DhcpInv, DhcpTypes
  <1>3. packet' \in [Macs -> Messages] /\ AsksForItsOwn'
    BY <1>1, <1>2, ServedAsks
  <1>4. DhcpTypes'
    BY <1>1, <1>3 DEF DhcpInv, DhcpTypes
  <1> QED BY <1>1, <1>2, <1>3, <1>4, TableSame

-----------------------------------------------------------------------------
\* The server's steps.

\* The two switches of the server and the reservations are not part of the invariant.
LEMMA AdminKeeps ==
    ASSUME DhcpInv,
           \/ start \/ stop
           \/ \E m \in Macs : \E ip \in Reservable : add_reservation(m, ip)
    PROVE  DhcpInv'
  <1>1. UNCHANGED <<leases, ticks, packet, answer, bound>>
    BY DEF start, stop, add_reservation
  <1>2. reservations' \in Seq([mac : Macs, ip : AllIps])
    <2>1. reservations \in Seq([mac : Macs, ip : AllIps])
      BY DEF DhcpInv, DhcpTypes
    <2>2. CASE start \/ stop
      BY <2>1, <2>2 DEF start, stop
    <2>3. ASSUME NEW m \in Macs, NEW ip \in Reservable, add_reservation(m, ip)
          PROVE  reservations' \in Seq([mac : Macs, ip : AllIps])
      <3>1. [mac |-> m, ip |-> ip] \in [mac : Macs, ip : AllIps]
        BY DEF AllIps
      <3> QED BY <2>1, <2>3, <3>1 DEF add_reservation
    <2> QED BY <2>2, <2>3
  <1>3. DhcpTypes'
    BY <1>1, <1>2 DEF DhcpInv, DhcpTypes
  <1>4. GrantsKept' /\ OneLeaseEach'
    BY <1>1 DEF DhcpInv, GrantsKept, OneLeaseEach, Good, Live, Backed
  <1>5. AsksForItsOwn'
    BY <1>1 DEF DhcpInv, AsksForItsOwn, Live
  <1> QED BY <1>3, <1>4, <1>5 DEF DhcpInv

\* Answers that grant nothing.
LEMMA AnswerKeeps ==
    ASSUME DhcpInv, NEW m \in Macs, NEW a \in Messages, a.kind # "ACK",
           packet' = [packet EXCEPT ![m] = Silent], Reply(m, a),
           UNCHANGED <<leases, reservations, ticks, bound>>
    PROVE  DhcpInv'
  <1>1. answer \in [Macs -> Messages] /\ ticks \in Nat
    BY DEF DhcpInv, DhcpTypes
  <1>2. /\ answer' \in [Macs -> Messages] /\ answer'[m] = a
        /\ \A n \in Macs : n # m => answer'[n] = answer[n]
    BY <1>1 DEF Reply
  <1>3. packet' \in [Macs -> Messages] /\ AsksForItsOwn'
    BY <1>2, ServedAsks
  <1>4. DhcpTypes'
    BY <1>2, <1>3 DEF DhcpInv, DhcpTypes
  <1>5. \A n \in Macs : answer'[n].kind = "ACK" => answer'[n] = answer[n]
    BY <1>2
  <1> QED BY <1>1, <1>3, <1>4, <1>5, TableSame

\* An offer, made or not, records nothing.
LEMMA HandleDiscoverKeeps ==
    ASSUME DhcpInv, NEW m \in Macs, handle_discover(m)
    PROVE  DhcpInv'
  <1>1. /\ packet' = [packet EXCEPT ![m] = Silent]
        /\ UNCHANGED <<leases, reservations, ticks, bound>>
    BY DEF handle_discover, Handle
  <1>2. CASE UNCHANGED answer
    <2>1. answer' \in [Macs -> Messages] /\ ticks \in Nat
      BY <1>1, <1>2 DEF DhcpInv, DhcpTypes
    <2>2. packet' \in [Macs -> Messages] /\ AsksForItsOwn'
      BY <1>1, <1>2, <2>1, ServedAsks
    <2>3. DhcpTypes'
      BY <1>1, <1>2, <2>2 DEF DhcpInv, DhcpTypes
    <2> QED BY <1>1, <1>2, <2>1, <2>2, <2>3, TableSame
  <1>3. ASSUME NEW ip \in allocate_ip(m), Reply(m, Packet("OFFER", ip, 0))
        PROVE  DhcpInv'
    <2>1. ip \in AllIps
      BY AllocateType DEF DhcpInv
    <2>2. PICK a \in Messages : a = Packet("OFFER", ip, 0) /\ a.kind = "OFFER"
      BY <2>1, PacketType DEF Kinds
    <2> QED BY <1>1, <1>3, <2>2, AnswerKeeps
  <1> QED BY <1>2, <1>3 DEF handle_discover

\* Granting a client an address leaves the unexpired leases of the others, and
\* its own if it is on that address.
LEMMA GrantKeepsBacking ==
    ASSUME DhcpInv, RoomForAll, NEW m \in Macs, NEW ip \in Pool,
           leases' = grant_lease(m, ip), UNCHANGED ticks
    PROVE  /\ leases' \in Seq(Leases) /\ Len(leases') <= MAX_LEASES
           /\ OneLeaseEach'
           /\ \E i \in DOMAIN leases' : leases'[i] = Granted(m, ip)
           /\ \A i \in DOMAIN leases :
                 ~is_expired(leases[i]) /\ leases[i].mac # m =>
                    \E j \in DOMAIN leases' : leases'[j] = leases[i]
  <1>1. /\ DOMAIN leases = 1 .. Len(leases) /\ Len(leases) \in Nat
        /\ \A i \in DOMAIN leases : leases[i] \in Leases
    BY LeaseType DEF DhcpInv
  <1>2. leases \in Seq(Leases) /\ Len(leases) <= MAX_LEASES /\ ticks \in Nat
    BY DEF DhcpInv, DhcpTypes
  <1>3. PICK g \in Leases : g = Granted(m, ip) /\ g.mac = m /\ g.active
    <2>1. Granted(m, ip) \in Leases /\ Granted(m, ip).mac = m /\ Granted(m, ip).active = TRUE
      BY <1>2 DEF Granted, Leases
    <2> QED BY <2>1
  <1>4. \A i, j \in DOMAIN leases :
          leases[i].active /\ leases[j].active /\ leases[i].mac = leases[j].mac => i = j
    BY DEF DhcpInv, OneLeaseEach
  <1>5. ASSUME NEW s \in DOMAIN leases,
               leases' = [i \in DOMAIN leases |-> IF i = s THEN g ELSE leases[i]],
               \/ leases[s].active /\ leases[s].mac = m
               \/ is_expired(leases[s]) /\ NoneOf(m)
        PROVE  /\ leases' \in Seq(Leases) /\ Len(leases') <= MAX_LEASES
               /\ OneLeaseEach'
               /\ \E i \in DOMAIN leases' : leases'[i] = g
               /\ \A i \in DOMAIN leases :
                     ~is_expired(leases[i]) /\ leases[i].mac # m =>
                        \E j \in DOMAIN leases' : leases'[j] = leases[i]
    <2>1. /\ DOMAIN leases' = DOMAIN leases /\ leases'[s] = g
          /\ \A i \in DOMAIN leases : i # s => leases'[i] = leases[i]
      BY <1>5
    <2>2. leases' \in Seq(Leases) /\ Len(leases') = Len(leases)
      BY <1>1, <1>5
    <2>3. \A j \in DOMAIN leases : j # s /\ leases[j].active => leases[j].mac # m
      BY <1>4, <1>5 DEF NoneOf
    <2>4. OneLeaseEach'
      BY <1>3, <1>4, <2>1, <2>3 DEF OneLeaseEach
    <2> QED BY <1>2, <1>5, <2>1, <2>2, <2>4
  <1>6. ASSUME leases' = Append(leases, g), Len(leases) < MAX_LEASES, NoneOf(m)
        PROVE  /\ leases' \in Seq(Leases) /\ Len(leases') <= MAX_LEASES
               /\ OneLeaseEach'
               /\ \E i \in DOMAIN leases' : leases'[i] = g
               /\ \A i \in DOMAIN leases :
                     ~is_expired(leases[i]) /\ leases[i].mac # m =>
                        \E j \in DOMAIN leases' : leases'[j] = leases[i]
    <2>1. leases' \in Seq(Leases) /\ Len(leases') = Len(leases) + 1
      BY <1>2, <1>6
    <2>2. /\ DOMAIN leases' = DOMAIN leases \cup {Len(leases) + 1}
          /\ leases'[Len(leases) + 1] = g
          /\ \A i \in DOMAIN leases : leases'[i] = leases[i]
      BY <1>1, <1>2, <1>6
    <2>3. Len(leases') <= MAX_LEASES
      BY <1>1, <1>6, <2>1, DhcpAssumption
    <2>4. OneLeaseEach'
      BY <1>3, <1>4, <1>6, <2>2 DEF OneLeaseEach, NoneOf
    <2> QED BY <2>1, <2>2, <2>3, <2>4
  <1>7. \/ \E s \in DOMAIN leases :
             /\ leases' = [i \in DOMAIN leases |-> IF i = s THEN g ELSE leases[i]]
             /\ \/ leases[s].active /\ leases[s].mac = m
                \/ is_expired(leases[s]) /\ NoneOf(m)
        \/ leases' = Append(leases, g) /\ Len(leases) < MAX_LEASES /\ NoneOf(m)
    BY <1>3, GrantCases
  <1> QED BY <1>3, <1>5, <1>6, <1>7

\* So a grant takes nothing from a client but an address it does not use.
LEMMA GrantKeepsGood ==
    ASSUME DhcpInv, RoomForAll, NEW m \in Macs, NEW ip \in Pool,
           leases' = grant_lease(m, ip), UNCHANGED ticks,
           NEW n \in Macs, NEW r, r.sent \in Nat, Good(n, r),
           n = m /\ Live(r) => r.ip = ip
    PROVE  Good(n, r)'
  <1>0. ticks \in Nat
    BY DEF DhcpInv, DhcpTypes
  <1>1. ASSUME Live(r) PROVE Backed(n, r)'
    <2>1. PICK i \in DOMAIN leases :
            /\ leases[i].mac = n /\ leases[i].ip = r.ip
            /\ leases[i].active /\ r.sent <= leases[i].granted_tick
      BY <1>1 DEF Good, Backed
    <2>2. leases[i].granted_tick \in Nat
      BY LeaseType DEF DhcpInv
    <2>3. ~is_expired(leases[i])
      BY <1>0, <1>1, <2>1, <2>2, DhcpAssumption DEF Live, is_expired
    <2>4. CASE n = m
      <3>1. PICK j \in DOMAIN leases' : leases'[j] = Granted(m, ip)
        BY GrantKeepsBacking
      <3>2. /\ leases'[j].mac = m /\ leases'[j].ip = ip /\ leases'[j].active = TRUE
            /\ leases'[j].granted_tick = ticks
        BY <3>1 DEF Granted
      <3>3. r.ip = ip /\ r.sent <= ticks
        BY <1>1, <2>4 DEF Good
      <3> QED BY <2>4, <3>2, <3>3 DEF Backed
    <2>5. CASE n # m
      <3>1. PICK j \in DOMAIN leases' : leases'[j] = leases[i]
        BY <2>1, <2>3, <2>5, GrantKeepsBacking
      <3> QED BY <2>1, <3>1 DEF Backed
    <2> QED BY <2>4, <2>5
  <1>2. Live(r)' => Live(r)
    BY DEF Live
  <1>3. r.sent <= ticks'
    BY DEF Good
  <1> QED BY <1>1, <1>2, <1>3 DEF Good

\* A request is refused, or granted and recorded.
LEMMA HandleRequestKeeps ==
    ASSUME DhcpInv, RoomForAll, NEW m \in Macs, handle_request(m)
    PROVE  DhcpInv'
  <1>1. PICK p \in Messages : p = packet[m]
    BY DEF DhcpInv, DhcpTypes
  <1>2. /\ p.kind = "REQUEST" /\ packet' = [packet EXCEPT ![m] = Silent]
        /\ UNCHANGED <<reservations, ticks, bound>>
    BY <1>1 DEF handle_request, Handle
  <1>3. p.ip \in AllIps /\ p.sent \in Nat
    BY DEF Messages
  <1>4. p.sent <= ticks /\ \A b \in bound[m] : Live(b) => b.ip = p.ip
    BY <1>1, <1>2 DEF DhcpInv, AsksForItsOwn
  <1>5. ASSUME UNCHANGED leases, Reply(m, Packet("NAK", p.ip, 0))
        PROVE  DhcpInv'
    <2>1. PICK a \in Messages : a = Packet("NAK", p.ip, 0) /\ a.kind = "NAK"
      BY <1>3, PacketType DEF Kinds
    <2> QED BY <1>2, <1>5, <2>1, AnswerKeeps
  <1>6. ASSUME p.ip \in Pool, leases' = grant_lease(m, p.ip),
               Reply(m, Packet("ACK", p.ip, p.sent))
        PROVE  DhcpInv'
    <2>1. PICK a \in Messages :
            a = Packet("ACK", p.ip, p.sent) /\ a.kind = "ACK" /\ a.ip = p.ip /\ a.sent = p.sent
      BY <1>3, PacketType DEF Kinds
    <2>2. answer \in [Macs -> Messages] /\ bound \in [Macs -> SUBSET Bindings] /\ ticks \in Nat
      BY DEF DhcpInv, DhcpTypes
    <2>3. /\ answer' \in [Macs -> Messages] /\ answer'[m] = a
          /\ \A n \in Macs : n # m => answer'[n] = answer[n]
      BY <1>6, <2>1, <2>2 DEF Reply
    <2>4. packet' \in [Macs -> Messages] /\ AsksForItsOwn'
      BY <1>2, <2>3, ServedAsks
    <2>5. /\ leases' \in Seq(Leases) /\ Len(leases') <= MAX_LEASES /\ OneLeaseEach'
          /\ \E i \in DOMAIN leases' : leases'[i] = Granted(m, p.ip)
      BY <1>2, <1>6, GrantKeepsBacking
    <2>6. DhcpTypes'
      BY <1>2, <2>3, <2>4, <2>5 DEF DhcpInv, DhcpTypes
    <2>7. ASSUME NEW n \in Macs, NEW b \in bound[n] PROVE Good(n, b)'
      <3>1. b.sent \in Nat /\ Good(n, b)
        BY <2>2 DEF DhcpInv, GrantsKept, Bindings
      <3>2. n = m /\ Live(b) => b.ip = p.ip
        BY <1>4
      <3> QED BY <1>2, <1>6, <3>1, <3>2, GrantKeepsGood
    <2>8. Good(m, a)'
      <3>1. PICK i \in DOMAIN leases' : leases'[i] = Granted(m, p.ip)
        BY <2>5
      <3>2. /\ leases'[i].mac = m /\ leases'[i].ip = a.ip /\ leases'[i].active = TRUE
            /\ leases'[i].granted_tick = ticks
        BY <2>1, <3>1 DEF Granted
      <3>3. a.sent <= ticks /\ a.sent <= ticks'
        BY <1>2, <1>4, <2>1
      <3>4. Backed(m, a)'
        BY <3>2, <3>3 DEF Backed
      <3> QED BY <3>3, <3>4 DEF Good
    <2>9. ASSUME NEW n \in Macs, n # m, answer[n].kind = "ACK" PROVE Good(n, answer[n])'
      <3>1. PICK r \in Messages : r = answer[n]
        BY <2>2
      <3>2. r.sent \in Nat /\ Good(n, r)
        BY <2>9, <3>1 DEF DhcpInv, GrantsKept, Messages
      <3>3. Good(n, r)'
        BY <1>2, <1>6, <2>9, <3>2, GrantKeepsGood
      <3>4. r = answer'[n]
        BY <2>3, <2>9, <3>1
      <3> QED BY <3>3, <3>4
    <2>10. GrantsKept'
      BY <1>2, <2>3, <2>7, <2>8, <2>9 DEF GrantsKept
    <2> QED BY <2>4, <2>5, <2>6, <2>10 DEF DhcpInv
  <1>7. \/ UNCHANGED leases /\ Reply(m, Packet("NAK", p.ip, 0))
        \/ /\ p.ip \in Pool /\ leases' = grant_lease(m, p.ip)
           /\ Reply(m, Packet("ACK", p.ip, p.sent))
    BY <1>1, Zenon DEF handle_request
  <1> QED BY <1>5, <1>6, <1>7

\* A client that releases its lease uses no address by then.
LEMMA HandleReleaseKeeps ==
    ASSUME DhcpInv, NEW m \in Macs, handle_release(m)
    PROVE  DhcpInv'
  <1>1. /\ packet[m].kind \in {"RELEASE", "DECLINE"} /\ packet' = [packet EXCEPT ![m] = Silent]
        /\ UNCHANGED <<reservations, ticks, bound, answer>>
        /\ leases' = release_lease(m)
    BY DEF handle_release, Handle
  <1>2. bound[m] = {} /\ answer[m].kind = "none"
    BY <1>1 DEF DhcpInv, AsksForItsOwn
  <1>3. answer' \in [Macs -> Messages] /\ bound \in [Macs -> SUBSET Bindings] /\ ticks \in Nat
    BY <1>1 DEF DhcpInv, DhcpTypes
  <1>4. packet' \in [Macs -> Messages] /\ AsksForItsOwn'
    BY <1>1, <1>3, ServedAsks
  <1>5. /\ DOMAIN leases = 1 .. Len(leases) /\ Len(leases) \in Nat
        /\ \A i \in DOMAIN leases : leases[i] \in Leases
    BY LeaseType DEF DhcpInv
  <1>6. \A i \in find_lease_by_mac(m) : i \in DOMAIN leases /\ leases[i].mac = m
    BY DEF find_lease_by_mac, First
  <1>7. \A l \in Leases : /\ [l EXCEPT !.active = FALSE] \in Leases
                          /\ [l EXCEPT !.active = FALSE].mac = l.mac
                          /\ [l EXCEPT !.active = FALSE].active = FALSE
    BY DEF Leases
  <1>8. /\ DOMAIN leases' = DOMAIN leases
        /\ \A i \in DOMAIN leases :
              leases'[i] = IF i \in find_lease_by_mac(m) THEN [leases[i] EXCEPT !.active = FALSE]
                           ELSE leases[i]
        /\ leases' \in [DOMAIN leases -> Leases]
    BY <1>1, <1>5, <1>7 DEF release_lease
  <1>9. leases' \in Seq(Leases) /\ Len(leases') = Len(leases)
    BY <1>5, <1>8
  <1>10. DhcpTypes'
    BY <1>1, <1>3, <1>4, <1>9 DEF DhcpInv, DhcpTypes
  <1>11. \A i \in DOMAIN leases :
           /\ leases'[i].mac = leases[i].mac
           /\ leases'[i].active => leases[i].active
           /\ leases[i].mac # m => leases'[i] = leases[i]
    BY <1>5, <1>6, <1>7, <1>8
  <1>12. OneLeaseEach'
    BY <1>8, <1>11 DEF DhcpInv, OneLeaseEach
  <1>13. ASSUME NEW n \in Macs, n # m, NEW r, r.sent \in Nat, Good(n, r) PROVE Good(n, r)'
    <2>1. Backed(n, r) => Backed(n, r)'
      BY <1>8, <1>11, <1>13 DEF Backed
    <2> QED BY <1>1, <1>3, <1>13, <2>1, GoodStays
  <1>14. ASSUME NEW n \in Macs, NEW b \in bound[n] PROVE Good(n, b)'
    <2>1. n # m
      BY <1>2
    <2>2. b.sent \in Nat /\ Good(n, b)
      BY <1>3 DEF DhcpInv, GrantsKept, Bindings
    <2> QED BY <1>13, <2>1, <2>2
  <1>15. ASSUME NEW n \in Macs, answer[n].kind = "ACK" PROVE Good(n, answer[n])'
    <2>1. PICK r \in Messages : r = answer[n]
      BY <1>1, <1>3
    <2>2. n # m /\ r.sent \in Nat /\ Good(n, r)
      BY <1>2, <1>15, <2>1 DEF DhcpInv, GrantsKept, Messages
    <2>3. Good(n, r)'
      BY <1>13, <2>2
    <2>4. r = answer'[n]
      BY <1>1, <2>1
    <2> QED BY <2>3, <2>4
  <1>16. GrantsKept'
    BY <1>1, <1>14, <1>15 DEF GrantsKept
  <1> QED BY <1>4, <1>10, <1>12, <1>16 DEF DhcpInv

-----------------------------------------------------------------------------
\* The empty table satisfies the invariant.
LEMMA DhcpInvInit ==
    DhcpInit => DhcpInv
  <1> SUFFICES ASSUME DhcpInit PROVE DhcpInv
    OBVIOUS
  <1>1. Silent \in Messages /\ Silent.kind = "none"
    BY DEF Messages, Silent, Kinds, AllIps, Ips
  <1>2. DhcpTypes
    BY <1>1, DhcpAssumption DEF DhcpInit, DhcpTypes
  <1>3. GrantsKept /\ AsksForItsOwn /\ OneLeaseEach
    BY <1>1 DEF DhcpInit, GrantsKept, AsksForItsOwn, OneLeaseEach
  <1> QED BY <1>2, <1>3 DEF DhcpInv

\* Every step of server, clients and clock keeps the invariant.
LEMMA DhcpInvNext ==
    ASSUME RoomForAll, DhcpInv, [DhcpNext]_dvars
    PROVE  DhcpInv'
  <1>1. CASE UNCHANGED dvars
    <2>1. UNCHANGED <<leases, reservations, ticks, packet, answer, bound>>
      BY <1>1 DEF dvars
    <2>2. DhcpTypes'
      BY <2>1 DEF DhcpInv, DhcpTypes
    <2>3. GrantsKept' /\ OneLeaseEach'
      BY <2>1 DEF DhcpInv, GrantsKept, OneLeaseEach, Good, Live, Backed
    <2>4. AsksForItsOwn'
      BY <2>1 DEF DhcpInv, AsksForItsOwn, Live
    <2> QED BY <2>2, <2>3, <2>4 DEF DhcpInv
  <1>2. CASE Tick
    BY <1>2, TickKeeps
  <1>3. CASE start \/ stop \/ \E m \in Macs : \E ip \in Reservable : add_reservation(m, ip)
    BY <1>3, AdminKeeps
  <1>4. ASSUME NEW m \in Macs,
               \/ handle_discover(m) \/ handle_request(m) \/ handle_release(m)
               \/ Discover(m) \/ Request(m) \/ Receive(m) \/ LosePacket(m)
               \/ \E kind \in {"RELEASE", "DECLINE"} : Release(m, kind)
        PROVE  DhcpInv'
    BY <1>4, HandleDiscoverKeeps, HandleRequestKeeps, HandleReleaseKeeps, DiscoverKeeps,
       RequestKeeps, ReceiveKeeps, LosePacketKeeps, ReleaseKeeps
  <1> QED BY <1>1, <1>2, <1>3, <1>4 DEF DhcpNext

\* Every client's grant is on the table while it lasts.
LEMMA DhcpInvMeans ==
    DhcpInv => LeaseBacksUse
  <1> SUFFICES ASSUME DhcpInv PROVE LeaseBacksUse
    OBVIOUS
  <1>1. ASSUME NEW m \in Macs, NEW ip \in Using(m)
        PROVE  \E i \in DOMAIN leases :
                  leases[i].mac = m /\ leases[i].ip = ip /\ ~is_expired(leases[i])
    <2>1. PICK b \in bound[m] : Live(b) /\ b.ip = ip
      BY DEF Using
    <2>2. b.sent \in Nat /\ Good(m, b) /\ ticks \in Nat
      BY DEF DhcpInv, DhcpTypes, GrantsKept, Bindings
    <2>3. PICK i \in DOMAIN leases :
            /\ leases[i].mac = m /\ leases[i].ip = b.ip
            /\ leases[i].active /\ b.sent <= leases[i].granted_tick
      BY <2>1, <2>2 DEF Good, Backed
    <2>4. leases[i].granted_tick \in Nat
      BY LeaseType DEF DhcpInv
    <2>5. ~is_expired(leases[i])
      BY <2>1, <2>2, <2>3, <2>4, DhcpAssumption DEF Live, is_expired
    <2> QED BY <2>1, <2>3, <2>5
  <1> QED BY <1>1 DEF LeaseBacksUse, DhcpInv, OneLeaseEach

\* While a client uses an address the DHCP server granted it, its lease is on the
\* table and has not run out, and a client never has two leases, when the table has a
\* slot for every client.
THEOREM LeasesBackUse ==
    ASSUME RoomForAll
    PROVE  DhcpSpec => []LeaseBacksUse
  <1>1. DhcpInit => DhcpInv
    BY DhcpInvInit
  <1>2. DhcpInv /\ [DhcpNext]_dvars => DhcpInv'
    BY DhcpInvNext
  <1>3. DhcpInv => LeaseBacksUse
    BY DhcpInvMeans
  <1> QED BY <1>1, <1>2, <1>3, PTL DEF DhcpSpec
=============================================================================
