------------------------------- MODULE Dhcpd -------------------------------
(***************************************************************************)
(* The DHCP server of src/src/dhcpd.rs: a table of leases, an allocator of *)
(* addresses and one handler per message.  Its clients are external: they  *)
(* ask for the address they were offered or had before, use an address     *)
(* until the lease runs out, counted from the request, and take only the   *)
(* answer to their last packet.  A packet or its answer may be delayed or  *)
(* lost.  Time is counted in ticks.                                        *)
(***************************************************************************)
EXTENDS Naturals, Sequences

CONSTANTS
    Macs,           \* the clients
    Pool,           \* last octets of config.start ..= config.end
    Elsewhere,      \* an address outside the pool
    Reservable,     \* the addresses an administrator reserves
    lease_duration,
    MAX_LEASES,
    MAX_RESERVATIONS,
    MaxTick         \* bound: the last tick of a behaviour

ASSUME DhcpAssumption == lease_duration \in Nat /\ MAX_LEASES \in Nat

Ips    == Pool \cup {Elsewhere}
Silent == [kind |-> "none", ip |-> Elsewhere, sent |-> 0]
Packet(k, ip, t) == [kind |-> k, ip |-> ip, sent |-> t]

VARIABLES
    leases,         \* leases[0 .. lease_count - 1]
    reservations,   \* sequence of [mac, ip]
    RUNNING,
    ticks,
    packet,         \* the last packet of each client, until it is handled
    answer,         \* the answer to it
    bound           \* the last address of each client, with the tick it asked for it

dvars == <<leases, reservations, RUNNING, ticks, packet, answer, bound>>

DhcpInit ==
    /\ leases = <<>> /\ reservations = <<>>
    /\ RUNNING = FALSE /\ ticks = 0
    /\ packet = [m \in Macs |-> Silent] /\ answer = [m \in Macs |-> Silent]
    /\ bound = [m \in Macs |-> {}]

-----------------------------------------------------------------------------
\* The lease table

is_expired(l) == ~l.active \/ ticks >= l.granted_tick + lease_duration

\* The linear searches stop at the first hit, if there is one.
First(hits) == {i \in hits : \A j \in hits : i <= j}

find_lease_by_mac(m) == First({i \in DOMAIN leases : leases[i].mac = m /\ leases[i].active})
find_lease_by_ip(ip) == First({i \in DOMAIN leases : leases[i].ip = ip /\ leases[i].active})
find_expired         == First({i \in DOMAIN leases : is_expired(leases[i])})
find_reservation(m)  ==
    {reservations[i].ip : i \in First({j \in DOMAIN reservations : reservations[j].mac = m})}

free_ips == {ip \in Pool : \A i \in DOMAIN leases : leases[i].ip = ip => is_expired(leases[i])}

\* The address offered to a client, if there is one.
allocate_ip(m) ==
    LET own == {leases[i].ip : i \in {j \in find_lease_by_mac(m) : ~is_expired(leases[j])}}
    IN  IF find_reservation(m) # {} THEN find_reservation(m)
        ELSE IF own # {} THEN own
        ELSE First(free_ips)

Granted(m, ip) == [mac |-> m, ip |-> ip, granted_tick |-> ticks, active |-> TRUE]

\* A full table records nothing, and the client is sent its ACK all the same.
grant_lease(m, ip) ==
    LET slots == IF find_lease_by_mac(m) # {} THEN find_lease_by_mac(m) ELSE find_expired
    IN  IF slots # {} THEN [i \in DOMAIN leases |-> IF i \in slots THEN Granted(m, ip) ELSE leases[i]]
        ELSE IF Len(leases) < MAX_LEASES THEN Append(leases, Granted(m, ip))
        ELSE leases

\* Variant: the first active lease is dropped, whoever has it.
release_lease_oldest(m) ==
    [i \in DOMAIN leases |->
        IF i \in First({j \in DOMAIN leases : leases[j].active}) THEN [leases[i] EXCEPT !.active = FALSE] ELSE leases[i]]

release_lease(m) ==
    [i \in DOMAIN leases |->
        IF i \in find_lease_by_mac(m) THEN [leases[i] EXCEPT !.active = FALSE] ELSE leases[i]]

-----------------------------------------------------------------------------
\* process_packet, one action per kind of message

Handle(m, kinds) ==
    /\ RUNNING /\ packet[m].kind \in kinds
    /\ packet' = [packet EXCEPT ![m] = Silent]
    /\ UNCHANGED <<reservations, RUNNING, ticks, bound>>

Reply(m, a) == answer' = [answer EXCEPT ![m] = a]

\* An offer is not recorded: two clients may be offered the same address.
handle_discover(m) ==
    /\ Handle(m, {"DISCOVER"})
    /\ UNCHANGED leases
    /\ IF allocate_ip(m) = {} THEN UNCHANGED answer
       ELSE \E ip \in allocate_ip(m) : Reply(m, Packet("OFFER", ip, 0))

\* Somebody else holds the address.
TakenFrom(m, ip) ==
    \E i \in find_lease_by_ip(ip) : leases[i].mac # m /\ ~is_expired(leases[i])

handle_request(m) ==
    LET ip == packet[m].ip IN
    /\ Handle(m, {"REQUEST"})
    /\ IF ip \notin Pool \/ TakenFrom(m, ip)
       THEN UNCHANGED leases /\ Reply(m, Packet("NAK", ip, 0))
       ELSE leases' = grant_lease(m, ip) /\ Reply(m, Packet("ACK", ip, packet[m].sent))

handle_release(m) ==
    /\ Handle(m, {"RELEASE", "DECLINE"})
    /\ leases' = release_lease(m)
    /\ UNCHANGED answer

start == ~RUNNING /\ RUNNING' = TRUE
         /\ UNCHANGED <<leases, reservations, ticks, packet, answer, bound>>
stop  == RUNNING /\ RUNNING' = FALSE
         /\ UNCHANGED <<leases, reservations, ticks, packet, answer, bound>>

add_reservation(m, ip) ==
    /\ Len(reservations) < MAX_RESERVATIONS
    /\ reservations' = Append(reservations, [mac |-> m, ip |-> ip])
    /\ UNCHANGED <<leases, RUNNING, ticks, packet, answer, bound>>

-----------------------------------------------------------------------------
\* The clients

Live(b) == ticks < b.sent + lease_duration
Using(m) == {b.ip : b \in {c \in bound[m] : Live(c)}}

Send(m, p) ==
    /\ packet' = [packet EXCEPT ![m] = p]
    /\ answer' = [answer EXCEPT ![m] = Silent]
    /\ UNCHANGED <<leases, reservations, RUNNING, ticks>>

Discover(m) ==
    /\ Using(m) = {}
    /\ Send(m, Packet("DISCOVER", Elsewhere, 0))
    /\ UNCHANGED bound

\* For what was offered, to renew, or for the last address after a restart.
Request(m) ==
    /\ \E ip \in Ips :
          /\ \/ answer[m].kind = "OFFER" /\ ip = answer[m].ip /\ Using(m) = {}
             \/ \E b \in bound[m] : ip = b.ip
          /\ Send(m, Packet("REQUEST", ip, ticks))
    /\ UNCHANGED bound

Release(m, kind) ==
    /\ Using(m) # {}
    /\ Send(m, Packet(kind, Elsewhere, 0))
    /\ bound' = [bound EXCEPT ![m] = {}]

Receive(m) ==
    /\ answer[m].kind \in {"ACK", "NAK"}
    /\ answer' = [answer EXCEPT ![m] = Silent]
    /\ bound' = [bound EXCEPT ![m] =
                    IF answer[m].kind = "ACK" THEN {[ip |-> answer[m].ip, sent |-> answer[m].sent]}
                    ELSE {}]
    /\ UNCHANGED <<leases, reservations, RUNNING, ticks, packet>>

LosePacket(m) ==
    /\ packet[m] # Silent
    /\ packet' = [packet EXCEPT ![m] = Silent]
    /\ UNCHANGED <<leases, reservations, RUNNING, ticks, answer, bound>>

Tick ==
    /\ ticks < MaxTick
    /\ ticks' = ticks + 1
    /\ UNCHANGED <<leases, reservations, RUNNING, packet, answer, bound>>

DhcpNext ==
    \/ \E m \in Macs :
          \/ handle_discover(m) \/ handle_request(m) \/ handle_release(m)
          \/ Discover(m) \/ Request(m) \/ Receive(m) \/ LosePacket(m)
          \/ \E kind \in {"RELEASE", "DECLINE"} : Release(m, kind)
          \/ \E ip \in Reservable : add_reservation(m, ip)
    \/ start \/ stop \/ Tick

DhcpSpec == DhcpInit /\ [][DhcpNext]_dvars

-----------------------------------------------------------------------------
\* The table stays within its bounds and grants pool addresses only.
DhcpTypeOK ==
    /\ Len(leases) <= MAX_LEASES
    /\ \A i \in DOMAIN leases :
          leases[i] \in [mac : Macs, ip : Pool, granted_tick : 0 .. ticks, active : BOOLEAN]
    /\ \A m \in Macs : answer[m].kind \in {"none", "OFFER", "ACK", "NAK"} /\ answer[m].ip \in Ips

\* While a client uses an address the server has granted it, the lease is on
\* the table and has not run out: no grant to another client reuses its slot,
\* and no late, lost or repeated packet moves it elsewhere.  And a client has at
\* most one lease: granting moves the one it has, also one that ran out.
\* This takes a table with a slot for every client: grant_lease drops a grant that
\* finds none (Dhcpd_v_full.cfg), two clients on one address having used up two.
LeaseBacksUse ==
    /\ \A m \in Macs : \A ip \in Using(m) :
          \E i \in DOMAIN leases :
              leases[i].mac = m /\ leases[i].ip = ip /\ ~is_expired(leases[i])
    /\ \A i, j \in DOMAIN leases :
          leases[i].active /\ leases[j].active /\ leases[i].mac = leases[j].mac => i = j

\* dhcpd.rs:682, "Check if someone else holds this IP": two clients never use
\* the same address at the same time.
NoSharedAddress ==
    \A m, n \in Macs : m # n => Using(m) \cap Using(n) = {}
=============================================================================
