------------------------------ MODULE IpcDemo ------------------------------
(***************************************************************************)
(* The shell command "pipe" (src/src/shell.rs): a producer and a consumer, *)
(* two kernel tasks that talk over a channel and learn its id from a       *)
(* global that the next "pipe" overwrites.  It puts together the table of  *)
(* tasks, the round robin over it (see Task) and the channels (see Ipc).   *)
(*                                                                         *)
(* A kernel task runs with interrupts off, up to its next yield or its     *)
(* end.  Commands run in the boot task, which the timer preempts, after a  *)
(* full-screen command also between two calls of a command.  A line is one *)
(* element of a queue, and a queue is never full: a channel holds 64 bytes *)
(* and three demos together send 63.                                       *)
(***************************************************************************)
EXTENDS Naturals, Sequences, FiniteSets

CONSTANTS
    DemoChannels,  \* MAX_CHANNELS
    DemoSlots,     \* task slots besides the boot task's, all of them for demos
    MaxDemos       \* bound: "pipe" commands, at most 3

Demos    == 1 .. MaxDemos
Channels == 0 .. DemoChannels - 1
Roles    == {"producer", "consumer"}
TaskSlot == 1 .. DemoSlots
Lines    == 3                       \* "hello", "from", "producer"
End      == 0                       \* the byte that ends the transmission
None     == DemoChannels
NoTask   == [d |-> 0, r |-> "none", ch |-> None, n |-> 0]

VARIABLES
    queue,         \* queue[c]: what waits in a channel
    open,          \* channels that exist
    DEMO_CHANNEL,
    tasks,         \* tasks[s]: the live task in a slot, the channel it has loaded
                   \* and its yields so far; or NoTask
    turn,          \* CURRENT
    todo,          \* what the command does next: nothing, or the role to spawn
    demo,          \* the latest demo
    home,          \* home[d]: the channel created for the demo, or None
    got,           \* got[d]: what the consumer has printed
    over,          \* tasks that came to their end
    mixed          \* history: demos that have been Crossed

demovars == <<queue, open, DEMO_CHANNEL, tasks, turn, todo, demo, home, got, over, mixed>>

Init ==
    /\ queue = [c \in Channels |-> <<>>] /\ open = {}
    /\ DEMO_CHANNEL = 0 /\ turn = 0 /\ todo = "none" /\ demo = 0
    /\ tasks = [s \in TaskSlot |-> NoTask]
    /\ home = [d \in Demos |-> None]
    /\ got = [d \in Demos |-> <<>>]
    /\ over = {} /\ mixed = {}

\* yield_now: the next slot in the round with a live task.
Hops(s) == (s + DemoSlots - turn) % (DemoSlots + 1)

yield_now ==
    \E s \in 0 .. DemoSlots :
        LET ready == {0} \cup {k \in TaskSlot : tasks'[k] # NoTask} IN
        /\ s \in ready /\ \A k \in ready : Hops(s) <= Hops(k)
        /\ turn' = s

\* Demos whose channel a task of another one has loaded, and demos with a task
\* in another channel.
Crossed(tab, at) ==
    {d \in Demos : \E s \in TaskSlot :
        tab[s].ch # None /\ (tab[s].d = d) # (tab[s].ch = at[d])}

-----------------------------------------------------------------------------
\* run_ipc_demo up to the first spawn.
pipe ==
    /\ turn = 0 /\ todo = "none" /\ demo < MaxDemos
    /\ demo' = demo + 1
    /\ \/ \E c \in Channels \ open :
             /\ \A b \in Channels \ open : c <= b
             /\ open' = open \cup {c}
             /\ queue' = [queue EXCEPT ![c] = <<>>]
             /\ DEMO_CHANNEL' = c
             /\ home' = [home EXCEPT ![demo'] = c]
             /\ todo' = "producer"
             /\ mixed' = mixed \cup Crossed(tasks, home')
       \/ /\ Channels = open
          /\ UNCHANGED <<open, queue, DEMO_CHANNEL, home, todo, mixed>>
    /\ UNCHANGED <<tasks, turn, got, over>>

\* task::spawn takes the first free slot; run_ipc_demo ignores a failure.
spawn ==
    /\ turn = 0 /\ todo # "none"
    /\ todo' = IF todo = "producer" THEN "consumer" ELSE "none"
    /\ LET free == {s \in TaskSlot : tasks[s] = NoTask} IN
       \/ \E s \in free :
             /\ \A k \in free : s <= k
             /\ tasks' = [tasks EXCEPT ![s] = [d |-> demo, r |-> todo, ch |-> None, n |-> 0]]
             /\ UNCHANGED mixed
       \/ free = {} /\ mixed' = mixed \cup {demo} /\ UNCHANGED tasks
    /\ UNCHANGED <<queue, open, DEMO_CHANNEL, turn, demo, home, got, over>>

\* task::kill from the shell.
kill(s) ==
    /\ turn = 0 /\ todo = "none" /\ tasks[s] # NoTask
    /\ tasks' = [tasks EXCEPT ![s] = NoTask]
    /\ mixed' = mixed \cup {tasks[s].d}
    /\ UNCHANGED <<queue, open, DEMO_CHANNEL, turn, todo, demo, home, got, over>>

\* The timer preempts the boot task; its turn comes at once if it is alone.
tick ==
    /\ turn = 0
    /\ UNCHANGED tasks /\ yield_now
    /\ UNCHANGED <<queue, open, DEMO_CHANNEL, todo, demo, home, got, over, mixed>>

\* The task that runs goes on from a yield to the next one, or ends.
Yields(c) ==
    /\ tasks' = [tasks EXCEPT ![turn].ch = c, ![turn].n = IF @ < Lines THEN @ + 1 ELSE @]
    /\ UNCHANGED over

Returns ==
    /\ tasks' = [tasks EXCEPT ![turn] = NoTask]
    /\ over' = over \cup {<<tasks[turn].d, tasks[turn].r>>}

Runs(r) == turn # 0 /\ tasks[turn].r = r

Loaded == IF tasks[turn].n = 0 THEN DEMO_CHANNEL ELSE tasks[turn].ch

\* ipc::send: what is sent to a channel that does not exist is dropped.
send(c, x) ==
    queue' = IF c \in open THEN [queue EXCEPT ![c] = Append(@, x)] ELSE queue

\* Variant: the producer returns without the end of the transmission.
producer_task_silent ==
    /\ Runs("producer")
    /\ LET n == tasks[turn].n
       IN  IF n < Lines THEN send(Loaded, n + 1) /\ Yields(Loaded)
           ELSE UNCHANGED queue /\ Returns
    /\ mixed' = mixed \cup Crossed(tasks', home)
    /\ yield_now
    /\ UNCHANGED <<open, DEMO_CHANNEL, todo, demo, home, got>>

\* producer_task: a line up to each yield, and the end after the last one.
producer_task ==
    /\ Runs("producer")
    /\ LET n == tasks[turn].n
       IN  IF n < Lines THEN send(Loaded, n + 1) /\ Yields(Loaded)
           ELSE send(Loaded, End) /\ Returns
    /\ mixed' = mixed \cup Crossed(tasks', home)
    /\ yield_now
    /\ UNCHANGED <<open, DEMO_CHANNEL, todo, demo, home, got>>

\* recv_all: what waits in the channel, nothing if it does not exist.
recv_all(c) == IF c \in open THEN queue[c] ELSE <<>>

\* consumer_task: it loads the channel and yields; after that it takes all there
\* is at every turn, and destroys the channel when that contains the end.
consumer_task ==
    /\ Runs("consumer")
    /\ LET c     == Loaded
           data  == IF tasks[turn].n = 0 THEN <<>> ELSE recv_all(c)
           ended == \E i \in DOMAIN data : data[i] = End
       IN  /\ got' = [got EXCEPT ![tasks[turn].d] = @ \o SelectSeq(data, LAMBDA x : x # End)]
           /\ queue' = IF data # <<>> THEN [queue EXCEPT ![c] = <<>>] ELSE queue
           /\ open' = IF ended THEN open \ {c} ELSE open
           /\ IF ended THEN Returns ELSE Yields(c)
    /\ mixed' = mixed \cup Crossed(tasks', home)
    /\ yield_now
    /\ UNCHANGED <<DEMO_CHANNEL, todo, demo, home>>

Next ==
    \/ pipe \/ spawn \/ tick \/ producer_task \/ consumer_task
    \/ \E s \in TaskSlot : kill(s)

Round == tick \/ producer_task \/ consumer_task

\* The timer goes on and tasks come to their next yield; a command gets on when
\* the boot task has its turn.
Spec == Init /\ [][Next]_demovars /\ WF_demovars(Round) /\ SF_demovars(spawn)

-----------------------------------------------------------------------------
\* Channels and tasks are in range.
TypeOK ==
    /\ queue \in [Channels -> Seq(0 .. Lines)] /\ open \subseteq Channels
    /\ turn \in 0 .. DemoSlots /\ (turn # 0 => tasks[turn] # NoTask)
    /\ \A s \in TaskSlot : tasks[s] \in [d : 0 .. MaxDemos, r : Roles \cup {"none"},
                                         ch : 0 .. None, n : 0 .. Lines]

Delivered(d) ==
    /\ {d} \X Roles \subseteq over
    /\ got[d] = [n \in 1 .. Lines |-> n]

\* Demos may overlap and do not disturb each other as long as the tasks of each
\* load their channel before the next "pipe", and none is killed or fails to
\* start: both tasks of every one come to their end, and its consumer has printed
\* the lines of its own producer in order.
DemosEnd ==
    \A d \in Demos :
        [](home[d] # None => <>(d \in mixed \/ Delivered(d)))
=============================================================================
