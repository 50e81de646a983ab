------------------------------ MODULE Cluster ------------------------------
(***************************************************************************)
(* Cluster membership of src/src/cluster.rs: machines that join, discover  *)
(* each other and exchange heartbeats over UDP.  Messages are lost,        *)
(* duplicated, delayed and reordered, and machines crash and boot again    *)
(* with an empty list and, as a rule, a new id.  The unit of time is the   *)
(* interval between two calls of heartbeat.                                *)
(*                                                                         *)
(* After some point, if it comes, the network is `stable`: nobody crashes  *)
(* and what is sent in an interval arrives in it.                          *)
(***************************************************************************)
EXTENDS Naturals, FiniteSets, Functions

CONSTANTS
    Machines,   \* their IP addresses, as numbers
    Epochs,     \* tick counts at which init can run
    Timeout,    \* HEARTBEAT_TIMEOUT_TICKS, in intervals: 5
    MaxBoots,   \* bound: boots of all machines together
    MaxNet      \* bound: datagrams on their way before the network is stable

\* An id is the tick of init in the upper half and the address in the lower one.
NodeIds == Epochs \X Machines
Above(a, b) == a[1] > b[1] \/ (a[1] = b[1] /\ a[2] > b[2])
Ip(id) == id[2]

VARIABLES
    up,         \* machines that run
    local_id,   \* LOCAL_NODE_ID of each machine
    nodes,      \* nodes[m]: the list of m, a function from ids to [status, age]
    net,        \* datagrams on their way
    due,        \* once stable: machines that have not called heartbeat in this interval
    boots, stable

cvars == <<up, local_id, nodes, net, due, boots, stable>>

NoNodes == [i \in {} |-> 0]
Entry(st) == [status |-> st, age |-> 0]

Init ==
    /\ up = {} /\ due = {} /\ net = {}
    /\ local_id = [m \in Machines |-> CHOOSE i \in NodeIds : Ip(i) = m]
    /\ nodes = [m \in Machines |-> NoNodes]
    /\ boots = 0 /\ stable = FALSE

\* The network with some of msgs added; the others are lost.
Send(pending, msgs) ==
    \E kept \in SUBSET msgs :
        /\ IF stable THEN kept = msgs ELSE kept = {} \/ Cardinality(pending \cup kept) <= MaxNet
        /\ net' = pending \cup kept

Broadcast(m, tag) == {[tag |-> tag, to |-> k, id |-> local_id[m]] : k \in Machines \ {m}}

\* init: the list is empty after a boot.
init(m) ==
    /\ ~stable /\ m \notin up /\ boots < MaxBoots
    /\ up' = up \cup {m}
    /\ \E e \in Epochs : local_id' = [local_id EXCEPT ![m] = <<e, m>>]
    /\ nodes' = [nodes EXCEPT ![m] = NoNodes]
    /\ boots' = boots + 1
    /\ UNCHANGED <<net, due, stable>>

crash(m) ==
    /\ ~stable /\ m \in up
    /\ up' = up \ {m}
    /\ nodes' = [nodes EXCEPT ![m] = NoNodes]
    /\ UNCHANGED <<local_id, net, due, boots, stable>>

With(list, id, entry) == [i \in DOMAIN list \cup {id} |-> IF i = id THEN entry ELSE list[i]]

join(m) ==
    /\ ~stable /\ m \in up
    /\ nodes' = IF local_id[m] \in DOMAIN nodes[m] THEN nodes
                ELSE [nodes EXCEPT ![m] = With(@, local_id[m], Entry("Online"))]
    /\ Send(net, Broadcast(m, "JOIN"))
    /\ UNCHANGED <<up, local_id, due, boots, stable>>

discover(m) ==
    /\ ~stable /\ m \in up
    /\ Send(net, Broadcast(m, "DISCOVER"))
    /\ UNCHANGED <<up, local_id, nodes, due, boots, stable>>

is_expired(entry) == entry.age > Timeout

\* Variant: a peer that timed out gets no more heartbeats.
heartbeat_online(m) ==
    /\ m \in IF stable THEN due ELSE up
    /\ due' = due \ {m}
    /\ nodes' = [nodes EXCEPT ![m] =
          [i \in DOMAIN @ |->
              IF i = local_id[m] THEN Entry("Online")
              ELSE IF is_expired(@[i]) THEN [@[i] EXCEPT !.status = "Offline"] ELSE @[i]]]
    /\ Send(net, {[tag |-> "HEARTBEAT", to |-> Ip(i), id |-> local_id[m]] :
                     i \in {j \in DOMAIN nodes[m] \ {local_id[m]} :
                              nodes'[m][j].status # "Offline"}})
    /\ UNCHANGED <<up, local_id, boots, stable>>

\* Variant: who times out is never taken off.
heartbeat_keeps(m) ==
    /\ m \in IF stable THEN due ELSE up
    /\ due' = due \ {m}
    /\ Send(net, {[tag |-> "HEARTBEAT", to |-> Ip(i), id |-> local_id[m]] :
                     i \in DOMAIN nodes[m] \ {local_id[m]}})
    /\ UNCHANGED <<up, local_id, nodes, boots, stable>>

\* heartbeat: to every peer, the ones that timed out included.
heartbeat(m) ==
    /\ m \in IF stable THEN due ELSE up
    /\ due' = due \ {m}
    /\ nodes' = [nodes EXCEPT ![m] =
          [i \in DOMAIN @ |->
              IF i = local_id[m] THEN Entry("Online")
              ELSE IF is_expired(@[i]) THEN [@[i] EXCEPT !.status = "Offline"] ELSE @[i]]]
    /\ Send(net, {[tag |-> "HEARTBEAT", to |-> Ip(i), id |-> local_id[m]] :
                     i \in DOMAIN nodes[m] \ {local_id[m]}})
    /\ UNCHANGED <<up, local_id, boots, stable>>

\* upsert_node never downgrades from Online.
upsert_node(list, id, st) ==
    IF id \in DOMAIN list /\ list[id].status = "Online" THEN [list EXCEPT ![id].age = 0]
    ELSE With(list, id, Entry(st))

handle_heartbeat(list, id) ==
    With(list, id, Entry(IF id \in DOMAIN list THEN "Online" ELSE "Joining"))

\* handle_message; the datagram may arrive again unless the network is stable.
handle_message(msg) ==
    /\ msg.to \in up
    /\ \E again \in IF stable THEN {{}} ELSE {{}, {msg}} :
          Send((net \ {msg}) \cup again,
               IF msg.tag # "DISCOVER" THEN {}
               ELSE {[tag |-> "DISCOVER_REPLY", to |-> Ip(msg.id), id |-> local_id[msg.to]]})
    /\ nodes' = [nodes EXCEPT ![msg.to] =
          CASE msg.tag = "JOIN" -> upsert_node(@, msg.id, "Joining")
            [] msg.tag = "HEARTBEAT" -> handle_heartbeat(@, msg.id)
            [] msg.tag = "DISCOVER" -> @
            [] msg.tag = "DISCOVER_REPLY" -> upsert_node(@, msg.id, "Online")]
    /\ UNCHANGED <<up, local_id, due, boots, stable>>

\* A datagram for a machine that is off.
lose(msg) ==
    /\ msg.to \notin up
    /\ net' = net \ {msg}
    /\ UNCHANGED <<up, local_id, nodes, due, boots, stable>>

\* An interval passes.  (Nobody looks at the age of the entry of the machine itself.)
Tick ==
    /\ stable => due = {} /\ net = {}
    /\ due' = IF stable THEN up ELSE {}
    /\ nodes' = [m \in Machines |->
                   [i \in DOMAIN nodes[m] |->
                      [nodes[m][i] EXCEPT !.age = IF i = local_id[m] \/ @ > Timeout THEN @ ELSE @ + 1]]]
    /\ UNCHANGED <<up, local_id, net, boots, stable>>

Stabilise ==
    /\ ~stable
    /\ stable' = TRUE
    /\ due' = up
    /\ UNCHANGED <<up, local_id, nodes, net, boots>>

Next ==
    \/ \E m \in Machines : init(m) \/ crash(m) \/ join(m) \/ discover(m) \/ heartbeat(m)
    \/ \E msg \in net : handle_message(msg) \/ lose(msg)
    \/ Tick \/ Stabilise

\* Once stable, heartbeat is called in every interval ("Should be called
\* periodically from a timer-driven task") and datagrams arrive.
Settle == stable /\ (Tick \/ (\E m \in Machines : heartbeat(m))
                          \/ (\E msg \in net : handle_message(msg) \/ lose(msg)))

Spec == Init /\ [][Next]_cvars /\ WF_cvars(Settle)

-----------------------------------------------------------------------------
\* Lists hold known statuses, datagrams come from ids.
TypeOK ==
    /\ up \subseteq Machines /\ due \subseteq up
    /\ local_id \in [Machines -> NodeIds]
    /\ \A m \in Machines :
          /\ DOMAIN nodes[m] \subseteq NodeIds
          /\ \A i \in DOMAIN nodes[m] :
                nodes[m][i] \in [status : {"Online", "Offline", "Joining"}, age : 0 .. Timeout + 1]
    /\ net \subseteq [tag : {"JOIN", "HEARTBEAT", "DISCOVER", "DISCOVER_REPLY"},
                      to : Machines, id : NodeIds]

Lists(m, n) == m \in up /\ n \in up /\ local_id[n] \in DOMAIN nodes[m]
Sees(m, n)  == local_id[n] \in DOMAIN nodes[m] /\ nodes[m][local_id[n]].status = "Online"

find_leader_id(m) ==
    LET online == {i \in DOMAIN nodes[m] : nodes[m][i].status = "Online"}
    IN  IF online = {} THEN {} ELSE {CHOOSE i \in online : \A j \in online : i = j \/ Above(i, j)}

\* Once the network is stable, one machine that has another on its list is
\* enough for both to count each other as online for ever, also if they had
\* given each other up before.
MembersMeet ==
    \A m, n \in Machines :
        (m # n /\ stable /\ Lists(m, n)) ~> [](Sees(m, n) /\ Sees(n, m))

\* Once the network is stable, ids of machines that crashed or booted anew
\* cease to be online everywhere: nobody elects a leader that is gone.
LeaderIsAlive ==
    [](stable => <>[](\A m \in up : \A i \in find_leader_id(m) :
                          Ip(i) \in up /\ local_id[Ip(i)] = i))
=============================================================================
