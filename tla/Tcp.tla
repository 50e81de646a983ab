-------------------------------- MODULE Tcp --------------------------------
(***************************************************************************)
(* The TCP of src/src/tcp_real.rs between two kernels, over a network that *)
(* loses, repeats and reorders segments.  One kernel opens connections     *)
(* (connect, send, recv, close, poll_incoming); the other runs the accept  *)
(* loop and the sessions of src/src/sshd.rs on the same socket table,      *)
(* while tcppoll may be run between any two of its steps.                  *)
(*                                                                         *)
(* A data segment carries one token, which takes one sequence number.      *)
(* Nothing is ever sent again.  A wait loop takes one frame at a time off  *)
(* the network card and gives up at some point.  Callers run with          *)
(* interrupts enabled, so that the loops' ticks pass.                      *)
(***************************************************************************)
EXTENDS Naturals, Sequences, Functions

CONSTANTS
    ClientPorts,    \* what alloc_ephemeral_port may return; it may repeat itself
    RECV_BUF_CAP,   \* capacity of a receive buffer, in tokens
    MAX_SOCKETS,    \* 16 in the code
    SeqSpace,       \* 2^32 in the code
    HashFactor,     \* 2654435761 in the code
    OpenTick,       \* OpenTick[h][n]: the tick in which host h opens for the n-th time
    MaxOpens,       \* bound: connects, and handshakes answered
    MaxSends,       \* bound: calls of send
    MaxCloses,      \* bound: calls of close
    MaxRepeats      \* bound: segments the network delivers twice

Host == {"client", "server"}
Peer(h) == IF h = "client" THEN "server" ELSE "client"
ServerPort == 0

VARIABLES
    net,            \* the segments on their way
    sockets,        \* sockets[h]: the socket table
    pc,             \* pc[h]: the call h's task is in
    opens,          \* opens[h]: sequence numbers generated so far
    answered,       \* SYN-ACKs sent: <<sequence number, acknowledged SYN>>
    repeats, sends, closes

tvars == <<net, sockets, pc, opens, answered, repeats, sends, closes>>

NoCall == [at |-> "idle"]

Init ==
    /\ net = {}
    /\ sockets = [h \in Host |-> <<>>]
    /\ pc = [h \in Host |-> NoCall]
    /\ opens = [h \in Host |-> 0]
    /\ answered = {}
    /\ repeats = 0 /\ sends = 0 /\ closes = 0

Plus(n, k) == (n + k) % SeqSpace

\* generate_isn, in the tick of the n-th open and in that of the next one.
IsnAt(h, n) == (OpenTick[h][n] * HashFactor) % SeqSpace
Isn(h) == IsnAt(h, opens[h])

ASSUME TcpAssumption ==
    /\ MaxOpens \in Nat /\ MaxSends \in Nat /\ RECV_BUF_CAP \in Nat
    /\ SeqSpace \in Nat /\ MaxSends + 1 < SeqSpace
    /\ HashFactor \in Nat /\ OpenTick \in [Host -> [0 .. MaxOpens - 1 -> Nat]]

\* The hash spreads the initial numbers: no connection uses up the numbers
\* between its own and those of another one of the same host.  Two opens in
\* one tick would have the same number.
ASSUME IsnsApart ==
    \A h \in Host : \A m, n \in 0 .. MaxOpens - 1 :
        m # n => \A i, j \in 0 .. MaxSends + 1 : Plus(IsnAt(h, m), i) # Plus(IsnAt(h, n), j)

Segment(to, sport, dport, seq, ack, flags, data) ==
    [to |-> to, sport |-> sport, dport |-> dport, seq |-> seq, ack |-> ack,
     flags |-> flags, data |-> data]

\* A segment that socket s of host h sends.
From(h, s, flags, data) == Segment(Peer(h), s.lport, s.rport, s.seq, s.ack, flags, data)

\* A new entry of the socket table.  iss, irs and got are history: the initial
\* sequence numbers of both sides, and every token taken into the buffer.
Established(lport, rport, iss, irs) ==
    [state |-> "Established", seq |-> Plus(iss, 1), ack |-> Plus(irs, 1),
     lport |-> lport, rport |-> rport, recv_buf |-> 0, iss |-> iss, irs |-> irs,
     sent |-> 0, lost |-> 0, got |-> <<>>]

\* h takes p off the network card, and puts out on the network; the network may
\* keep p to deliver it again.
Exchange(h, p, out) ==
    /\ p \in net /\ p.to = h
    /\ \/ net' = (net \ {p}) \cup out /\ UNCHANGED repeats
       \/ repeats < MaxRepeats /\ repeats' = repeats + 1 /\ net' = net \cup out

-----------------------------------------------------------------------------
(* The active open. *)

connect ==
    /\ pc["client"] = NoCall /\ opens["client"] < MaxOpens
    /\ \E port \in ClientPorts :
          /\ net' = net \cup {Segment("server", port, ServerPort, Isn("client"), 0, {"SYN"}, <<>>)}
          /\ pc' = [pc EXCEPT !["client"] = [at |-> "connect", port |-> port, isn |-> Isn("client")]]
    /\ opens' = [opens EXCEPT !["client"] = @ + 1]
    /\ UNCHANGED <<sockets, answered, repeats, sends, closes>>

\* Variant: any SYN-ACK to the port is taken.
Answers_any(p, c) == p.dport = c.port /\ {"SYN", "ACK"} \subseteq p.flags

Answers(p, c) ==
    p.dport = c.port /\ {"SYN", "ACK"} \subseteq p.flags /\ p.ack = Plus(c.isn, 1)

\* One pass of the wait loop.  The table is looked at after the last ACK is sent.
connect_poll ==
    LET c == pc["client"] IN
    /\ c.at = "connect"
    /\ \E p \in net :
          \/ /\ Answers(p, c)
             /\ LET s == Established(c.port, ServerPort, c.isn, p.seq) IN
                /\ Exchange("client", p, {From("client", s, {"ACK"}, <<>>)})
                /\ sockets' = IF Len(sockets["client"]) >= MAX_SOCKETS THEN sockets
                              ELSE [sockets EXCEPT !["client"] = Append(@, s)]
                /\ pc' = [pc EXCEPT !["client"] = NoCall]
          \/ /\ ~Answers(p, c)
             /\ Exchange("client", p, {})
             /\ pc' = IF p.dport = c.port /\ "RST" \in p.flags
                      THEN [pc EXCEPT !["client"] = NoCall] ELSE pc
             /\ UNCHANGED sockets
    /\ UNCHANGED <<opens, answered, sends, closes>>

connect_timeout ==
    /\ pc["client"].at = "connect"
    /\ pc' = [pc EXCEPT !["client"] = NoCall]
    /\ UNCHANGED <<net, sockets, opens, answered, repeats, sends, closes>>

-----------------------------------------------------------------------------
(* accept_tcp, and the session that follows in the same task. *)

\* A frame that is not a SYN for the port is dropped.
accept_syn ==
    /\ pc["server"] = NoCall
    /\ \E p \in net :
          \/ /\ p.flags = {"SYN"} /\ p.dport = ServerPort
             /\ opens["server"] < MaxOpens
             /\ LET ack == Plus(p.seq, 1) IN
                /\ Exchange("server", p,
                      {Segment("client", ServerPort, p.sport, Isn("server"), ack,
                               {"SYN", "ACK"}, <<>>)})
                /\ answered' = answered \cup {<<Isn("server"), p.seq>>}
                /\ pc' = [pc EXCEPT !["server"] =
                            [at |-> "accept", isn |-> Isn("server"), irs |-> p.seq,
                             port |-> p.sport]]
             /\ opens' = [opens EXCEPT !["server"] = @ + 1]
          \/ /\ p.flags # {"SYN"}
             /\ Exchange("server", p, {})
             /\ UNCHANGED <<pc, opens, answered>>
    /\ UNCHANGED <<sockets, sends, closes>>

\* Any segment with ACK and without SYN completes the handshake; its numbers and
\* its source port are not looked at, and its data is dropped.
accept_ack ==
    LET c == pc["server"] IN
    /\ c.at = "accept"
    /\ \E p \in net :
          /\ Exchange("server", p, {})
          /\ \/ /\ "ACK" \in p.flags /\ "SYN" \notin p.flags
                /\ sockets' = [sockets EXCEPT !["server"] =
                                 Append(@, Established(ServerPort, c.port, c.isn, c.irs))]
                /\ pc' = [pc EXCEPT !["server"] =
                            [at |-> "session", sock |-> Len(sockets["server"]) + 1]]
             \/ ("ACK" \notin p.flags \/ "SYN" \in p.flags) /\ UNCHANGED <<sockets, pc>>
    /\ UNCHANGED <<opens, answered, sends, closes>>

accept_timeout ==
    /\ pc["server"].at = "accept"
    /\ pc' = [pc EXCEPT !["server"] = NoCall]
    /\ UNCHANGED <<net, sockets, opens, answered, repeats, sends, closes>>

-----------------------------------------------------------------------------
(* send, recv and close; the client uses any socket, a session its own. *)

Uses(h, k) ==
    \/ h = "client" /\ pc[h] = NoCall
    \/ pc[h].at = "session" /\ pc[h].sock = k

send(h, k) ==
    LET s == sockets[h][k] IN
    /\ Uses(h, k) /\ s.state = "Established" /\ sends < MaxSends
    /\ sends' = sends + 1
    /\ net' = net \cup {From(h, s, {"PSH", "ACK"}, <<[iss |-> s.iss, i |-> s.sent + 1]>>)}
    /\ sockets' = [sockets EXCEPT ![h][k].seq = Plus(@, 1), ![h][k].sent = @ + 1]
    /\ UNCHANGED <<pc, opens, answered, repeats, closes>>

recv(h, k) ==
    LET s == sockets[h][k] IN
    /\ Uses(h, k) /\ s.state # "Closed" /\ s.recv_buf > 0
    /\ sockets' = [sockets EXCEPT ![h][k].recv_buf = 0]
    /\ UNCHANGED <<net, pc, opens, answered, repeats, sends, closes>>

close(h, k) ==
    LET s == sockets[h][k] IN
    /\ Uses(h, k) /\ s.state # "Closed" /\ closes < MaxCloses
    /\ closes' = closes + 1
    /\ net' = net \cup {From(h, s, {"FIN", "ACK"}, <<>>)}
    /\ sockets' = [sockets EXCEPT ![h][k].seq = Plus(@, 1), ![h][k].state = "FinWait1"]
    /\ pc' = [pc EXCEPT ![h] = [at |-> "close", sock |-> k]]
    /\ UNCHANGED <<opens, answered, repeats, sends>>

\* A session also ends when its socket was closed under it.
session_end ==
    /\ pc["server"].at = "session"
    /\ sockets["server"][pc["server"].sock].state = "Closed"
    /\ pc' = [pc EXCEPT !["server"] = NoCall]
    /\ UNCHANGED <<net, sockets, opens, answered, repeats, sends, closes>>

\* What a FIN does to a socket that waits for one.
TimeWait(s, p) == [s EXCEPT !.state = "TimeWait", !.ack = Plus(p.seq, 1)]

\* One pass of the wait loop of close.
close_poll(h) ==
    LET k == pc[h].sock IN
    /\ pc[h].at = "close"
    /\ \E p \in net :
          LET s    == sockets[h][k]
              mine == p.dport = s.lport
              fin  == mine /\ "FIN" \in p.flags /\ s.state \in {"FinWait1", "FinWait2"}
          IN  \/ /\ fin
                 /\ Exchange(h, p, {From(h, TimeWait(s, p), {"ACK"}, <<>>)})
                 /\ sockets' = [sockets EXCEPT ![h][k] = [TimeWait(s, p) EXCEPT !.state = "Closed"]]
                 /\ pc' = [pc EXCEPT ![h] = NoCall]
              \/ /\ ~fin
                 /\ Exchange(h, p, {})
                 /\ sockets' = IF mine /\ "ACK" \in p.flags /\ s.state = "FinWait1"
                               THEN [sockets EXCEPT ![h][k].state = "FinWait2"] ELSE sockets
                 /\ UNCHANGED pc
    /\ UNCHANGED <<opens, answered, sends, closes>>

close_timeout(h) ==
    /\ pc[h].at = "close"
    /\ sockets' = [sockets EXCEPT ![h][pc[h].sock].state = "Closed"]
    /\ pc' = [pc EXCEPT ![h] = NoCall]
    /\ UNCHANGED <<net, opens, answered, repeats, sends, closes>>

-----------------------------------------------------------------------------
(* process_incoming and poll_incoming. *)

\* Variant: the sequence number of a data segment is not looked at.
Accept_any(s, p) ==
    LET fits == s.recv_buf + Len(p.data) <= RECV_BUF_CAP IN
    [s EXCEPT !.recv_buf = IF fits THEN @ + Len(p.data) ELSE @,
              !.got  = IF fits THEN @ \o p.data ELSE @,
              !.lost = IF fits THEN @ ELSE @ + Len(p.data),
              !.ack  = Plus(@, Len(p.data))]

\* Data is taken if it is the next; what does not fit is dropped and acknowledged.
Accept(s, p) ==
    LET fits == s.recv_buf + Len(p.data) <= RECV_BUF_CAP IN
    IF p.seq # s.ack THEN s
    ELSE [s EXCEPT !.recv_buf = IF fits THEN @ + Len(p.data) ELSE @,
                   !.got  = IF fits THEN @ \o p.data ELSE @,
                   !.lost = IF fits THEN @ ELSE @ + Len(p.data),
                   !.ack  = Plus(@, Len(p.data))]

\* The socket after process_incoming, and whether an ACK goes out.
Processed(s, p) ==
    LET to(t, reply) == [sock |-> t, reply |-> reply]
        fin == "FIN" \in p.flags
        ack == "ACK" \in p.flags
    IN  CASE "RST" \in p.flags -> to([s EXCEPT !.state = "Closed"], FALSE)
          [] "RST" \notin p.flags /\ s.state = "Established" /\ fin ->
                to([s EXCEPT !.state = "CloseWait", !.ack = Plus(p.seq, 1 + Len(p.data))], TRUE)
          [] "RST" \notin p.flags /\ s.state = "Established" /\ ~fin /\ ack /\ p.data # <<>> ->
                to(Accept(s, p), TRUE)
          [] "RST" \notin p.flags /\ fin /\ s.state \in {"FinWait1", "FinWait2"} ->
                to(TimeWait(s, p), TRUE)
          [] "RST" \notin p.flags /\ ~fin /\ ack /\ s.state = "FinWait1" ->
                to([s EXCEPT !.state = "FinWait2"], FALSE)
          [] OTHER -> to(s, FALSE)

\* The first open socket on the port; the peer's port is not compared.
Matching(h, p) ==
    {k \in DOMAIN sockets[h] : sockets[h][k].lport = p.dport /\ sockets[h][k].state # "Closed"}

\* The client polls between its calls, the server at any time (tcppoll).
poll_incoming(h) ==
    /\ h = "client" => pc[h] = NoCall
    /\ \E p \in net :
          \/ /\ Matching(h, p) = {}
             /\ Exchange(h, p, {})
             /\ UNCHANGED sockets
          \/ /\ Matching(h, p) # {}
             /\ LET k == CHOOSE k \in Matching(h, p) : \A j \in Matching(h, p) : k <= j
                    r == Processed(sockets[h][k], p)
                IN  /\ Exchange(h, p, IF r.reply THEN {From(h, r.sock, {"ACK"}, <<>>)} ELSE {})
                    /\ sockets' = [sockets EXCEPT ![h][k] = r.sock]
    /\ UNCHANGED <<pc, opens, answered, sends, closes>>

\* External: a host that does not listen refuses a SYN, and one that has given the
\* attempt up resets the connection that a SYN-ACK is about.
refuse ==
    /\ \E p \in net :
          \/ /\ p.flags = {"SYN"}
             /\ net' = (net \ {p}) \cup {Segment("client", p.dport, p.sport, 0, Plus(p.seq, 1),
                                                 {"RST", "ACK"}, <<>>)}
          \/ /\ p.flags = {"SYN", "ACK"} /\ pc["client"] = NoCall
             /\ \A s \in Range(sockets["client"]) : s.lport # p.dport
             /\ net' = (net \ {p}) \cup {Segment("server", p.dport, p.sport, p.ack, 0,
                                                 {"RST"}, <<>>)}
    /\ UNCHANGED <<sockets, pc, opens, answered, repeats, sends, closes>>

Next ==
    \/ connect \/ connect_poll \/ connect_timeout
    \/ accept_syn \/ accept_ack \/ accept_timeout \/ session_end \/ refuse
    \/ \E h \in Host : close_poll(h) \/ close_timeout(h) \/ poll_incoming(h)
    \/ \E h \in Host : \E k \in DOMAIN sockets[h] : send(h, k) \/ recv(h, k) \/ close(h, k)

Spec == Init /\ [][Next]_tvars

-----------------------------------------------------------------------------
AllSockets == UNION {Range(sockets[h]) : h \in Host}

\* Sequence numbers stay below 2^32 and buffers within their capacity.
TypeOK ==
    /\ \A s \in AllSockets :
          /\ {s.seq, s.ack} \subseteq 0 .. SeqSpace - 1
          /\ s.recv_buf <= RECV_BUF_CAP
          /\ s.state \in {"Established", "CloseWait", "FinWait1", "FinWait2", "TimeWait", "Closed"}
    /\ Len(sockets["client"]) <= MAX_SOCKETS
    /\ \A h \in Host : opens[h] <= MaxOpens

\* What a socket takes in comes from its own connection, in order and once,
\* though segments are repeated, overtake each other and are handed to sockets
\* of other connections; gaps are exactly what did not fit the buffer.
InOrder ==
    \A s \in AllSockets :
        /\ \A i \in DOMAIN s.got : s.got[i].iss = s.irs
        /\ \A i, j \in DOMAIN s.got : i < j => s.got[i].i < s.got[j].i
        /\ s.lost = 0 => \A i \in DOMAIN s.got : s.got[i].i = i

\* A connection that connect reports was answered: the peer sent a SYN-ACK for
\* this SYN, and the two agree on both initial sequence numbers.
ClientAgrees ==
    \A k \in DOMAIN sockets["client"] :
        <<sockets["client"][k].irs, sockets["client"][k].iss>> \in answered

\* sshd.rs:428, "Accept one inbound TCP connection: SYN -> SYN-ACK -> ACK, then
\* register socket.": the client of a registered socket has seen the SYN-ACK.
ServerAgrees ==
    \A k \in DOMAIN sockets["server"] :
        \E s \in Range(sockets["client"]) :
            s.irs = sockets["server"][k].iss /\ s.iss = sockets["server"][k].irs

\* tcp_real.rs:836, "dispatch any incoming TCP segments to matching sockets": a
\* segment changes only the socket of its own connection.
OwnSegments ==
    [][\A h \in Host : \A k \in DOMAIN sockets[h] :
          sockets'[h][k].state = "CloseWait" /\ sockets[h][k].state = "Established"
            => \E p \in net : p.to = h /\ "FIN" \in p.flags /\ p.sport = sockets[h][k].rport]_tvars

\* tcp_real.rs:38, "Size of per-socket receive buffer before back-pressure.": what
\* is acknowledged is in the buffer or was read.
AckedIsKept == \A s \in AllSockets : s.lost = 0
=============================================================================
