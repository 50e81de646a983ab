------------------------------ MODULE Services ------------------------------
(***************************************************************************)
(* The service manager of src/src/service_mgr.rs: start, stop and restart  *)
(* from the shell, the boot sequence, socket activation, and the periodic  *)
(* checks that restart services.  The manager is a list behind a lock;     *)
(* operations that take the lock more than once are sequences of sections  *)
(* here (`jobs`), and the sections of the callers interleave.              *)
(* Services are numbered by their place in the list.                       *)
(***************************************************************************)
EXTENDS Naturals, Sequences, FiniteSets, SequencesExt

CONSTANTS
    NumServices,
    Setups,         \* tables of services: records [deps, enabled, oneshot, calls]
    Policy,         \* restart_policy of each service
    MAX_RESTART_RETRIES,
    SocketFor,      \* the service of the socket unit
    TimerFor,       \* the service of the timer unit; 0 if there is none of that name
    Targets         \* members of each target

Services == 1 .. NumServices
Callers  == {"shell", "checks", "boot"}
None     == 0

VARIABLES
    setup,          \* deps[s]: sequence of [target, kind]; calls: bound on the calls made
    state, pid, restart_count,
    next_pid,
    socket_active,
    reached,        \* targets marked active
    rested,         \* services whose last change is restart_delay or more ago
    jobs,           \* the lock sections each caller has still to run
    calls

svars == <<setup, state, pid, restart_count, next_pid, socket_active, reached, rested, jobs, calls>>
unit  == <<state, pid, rested, restart_count, next_pid>>

Job(op, s) == [op |-> op, svc |-> s]

Init ==
    /\ setup \in Setups
    /\ state = [s \in Services |-> "Inactive"]
    /\ pid = [s \in Services |-> None]
    /\ restart_count = [s \in Services |-> 0]
    /\ next_pid = 1 /\ socket_active = FALSE /\ reached = {} /\ rested = Services
    /\ jobs = [c \in Callers |-> <<>>] /\ calls = 0

-----------------------------------------------------------------------------
\* resolve_boot_order: depth first, a service after what it depends on.
\* A walk is a pair of the names seen and the order so far.

RECURSIVE visit(_, _)

visit(s, walk) ==
    IF s \in walk.visited THEN walk
    ELSE LET first == [walk EXCEPT !.visited = @ \cup {s}]
             deps  == SelectSeq(setup.deps[s], LAMBDA d : d.kind \in {"After", "Requires"})
             below == FoldLeft(LAMBDA w, d : visit(d.target, w), first, deps)
         IN  [below EXCEPT !.order = Append(@, s)]

\* Variant: a service is put in the order before what it depends on.
resolve_boot_order_flat ==
    SelectSeq([s \in Services |-> s], LAMBDA s : s \in setup.enabled)

resolve_boot_order ==
    FoldLeft(LAMBDA w, s : visit(s, w), [visited |-> {}, order |-> <<>>],
             SelectSeq([s \in Services |-> s], LAMBDA s : s \in setup.enabled)).order

-----------------------------------------------------------------------------
\* The lock sections

Startable(s) ==
    /\ s \in Services /\ state[s] # "Running"
    /\ \A i \in DOMAIN setup.deps[s] :
          setup.deps[s][i].kind = "Requires" => state[setup.deps[s][i].target] = "Running"

Enter(s, st, p) ==
    /\ state' = [state EXCEPT ![s] = st]
    /\ pid' = [pid EXCEPT ![s] = p]
    /\ rested' = rested \ {s}

\* A oneshot service runs and is over before the lock is released.
start(s) ==
    IF ~Startable(s) THEN UNCHANGED <<state, pid, rested, restart_count, next_pid>>
    ELSE /\ next_pid' = next_pid + 1
         /\ restart_count' = [restart_count EXCEPT ![s] = 0]
         /\ IF s \in setup.oneshot THEN Enter(s, "Stopped", None) ELSE Enter(s, "Running", next_pid)

stop(s) ==
    /\ IF s \in Services /\ state[s] = "Running" THEN Enter(s, "Stopped", None)
       ELSE UNCHANGED <<state, pid, rested>>
    /\ UNCHANGED <<restart_count, next_pid>>

\* First section of check_restart: which services are to be restarted.
to_restart ==
    {s \in Services \cap rested :
        /\ restart_count[s] < MAX_RESTART_RETRIES
        /\ \/ state[s] = "Failed" /\ Policy[s] # "Never"
           \/ state[s] = "Stopped" /\ Policy[s] = "Always"}

\* Second section, for each of them.
bump(s) ==
    /\ restart_count' = [restart_count EXCEPT ![s] = @ + 1]
    /\ UNCHANGED <<state, pid, rested, next_pid>>

\* Variant: the count is not looked at again under the lock.
give_up_stale(s) ==
    /\ Enter(s, "Failed", pid[s])
    /\ UNCHANGED <<restart_count, next_pid>>

\* Last section, when the start failed.
give_up(s) ==
    /\ IF restart_count[s] >= MAX_RESTART_RETRIES THEN Enter(s, "Failed", pid[s])
       ELSE UNCHANGED <<state, pid, rested>>
    /\ UNCHANGED <<restart_count, next_pid>>

Then(c, more) == jobs' = [jobs EXCEPT ![c] = more \o Tail(@)]
Starts(seq)   == [i \in DOMAIN seq |-> Job("start", seq[i])]
Retries(seq)  == FoldLeft(LAMBDA acc, s : acc \o <<Job("bump", s), Job("retry", s)>>, <<>>, seq)

Ascending(S) == SelectSeq([s \in Services |-> s], LAMBDA s : s \in S)

\* The next section of caller c.
Section(c) ==
    /\ jobs[c] # <<>>
    /\ LET j == Head(jobs[c]) IN
       \/ /\ UNCHANGED <<socket_active, reached>>
          /\ \/ j.op = "start" /\ start(j.svc) /\ Then(c, <<>>)
             \/ j.op = "stop" /\ stop(j.svc) /\ Then(c, <<>>)
             \/ j.op = "bump" /\ bump(j.svc) /\ Then(c, <<>>)
             \/ /\ j.op = "retry" /\ start(j.svc)
                /\ Then(c, IF Startable(j.svc) THEN <<>> ELSE <<Job("give_up", j.svc)>>)
             \/ j.op = "give_up" /\ give_up(j.svc) /\ Then(c, <<>>)
             \/ j.op = "collect" /\ Then(c, Retries(Ascending(to_restart))) /\ UNCHANGED unit
             \/ j.op = "order" /\ Then(c, Starts(resolve_boot_order)) /\ UNCHANGED unit
       \/ /\ j.op = "targets" /\ Then(c, <<>>)
          /\ reached' = {t \in DOMAIN Targets : \A m \in Targets[t] : state[m] \in {"Running", "Stopped"}}
          /\ UNCHANGED <<unit, socket_active>>
       \/ j.op = "socket" /\ Then(c, <<>>) /\ socket_active' = TRUE /\ UNCHANGED <<unit, reached>>
    /\ UNCHANGED <<setup, calls>>

\* Caller c enters an operation.
Call(c, sections) ==
    /\ jobs[c] = <<>>
    /\ jobs' = [jobs EXCEPT ![c] = sections]
    /\ UNCHANGED <<setup, unit, socket_active, reached>>

Counted == calls < setup.calls /\ calls' = calls + 1

ShellStart(s)   == Counted /\ Call("shell", <<Job("start", s)>>)
ShellStop(s)    == Counted /\ Call("shell", <<Job("stop", s)>>)
restart(s)      == Counted /\ Call("shell", <<Job("stop", s), Job("start", s)>>)
check_restart   == Counted /\ Call("checks", <<Job("collect", 1)>>)
check_timers    == Counted /\ Call("checks", <<Job("stop", TimerFor), Job("start", TimerFor)>>)
socket_activate ==
    /\ Counted /\ ~socket_active
    /\ Call("shell", <<Job("start", SocketFor), Job("socket", SocketFor)>>)

\* Once, before anything was started.
boot_sequence ==
    /\ next_pid = 1
    /\ Call("boot", <<Job("order", 1), Job("targets", 1)>>)
    /\ UNCHANGED calls

\* enable and disable choose what the boot starts; nothing else looks at it.
Choose(enabled) ==
    /\ next_pid = 1 /\ Counted
    /\ setup' = [setup EXCEPT !.enabled = enabled]
    /\ UNCHANGED <<unit, socket_active, reached, jobs>>

enable(s)  == s \notin setup.enabled /\ Choose(setup.enabled \cup {s})
disable(s) == s \in setup.enabled /\ Choose(setup.enabled \ {s})

\* restart_delay passes for service s.
Rest(s) ==
    /\ s \notin rested /\ state[s] \in {"Failed", "Stopped"} /\ calls < setup.calls
    /\ rested' = rested \cup {s}
    /\ UNCHANGED <<setup, state, pid, restart_count, next_pid, socket_active, reached, jobs, calls>>

Next ==
    \/ \E c \in Callers : Section(c)
    \/ \E s \in Services : \/ ShellStart(s) \/ ShellStop(s) \/ restart(s)
                           \/ enable(s) \/ disable(s) \/ Rest(s)
    \/ check_restart \/ check_timers \/ socket_activate \/ boot_sequence

Spec == Init /\ [][Next]_svars

-----------------------------------------------------------------------------
\* States and pids are in range, and no service is retried more often than allowed.
TypeOK ==
    /\ state \in [Services -> {"Inactive", "Running", "Stopped", "Failed"}]
    /\ pid \in [Services -> 0 .. next_pid - 1]
    /\ restart_count \in [Services -> 0 .. MAX_RESTART_RETRIES]
    /\ rested \subseteq Services

Closure(R) == LET step(T) == T \cup {<<a, c>> \in Services \X Services :
                                        \E b \in Services : <<a, b>> \in T /\ <<b, c>> \in T}
              IN  step(step(R))
Targeted(s, kinds) == {setup.deps[s][i].target : i \in {j \in DOMAIN setup.deps[s] :
                                                            setup.deps[s][j].kind \in kinds}}
Ordered  == {<<s, d>> \in Services \X Services : d \in Targeted(s, {"After", "Requires"})}
Below    == Closure(Ordered)
Required == Closure({<<s, d>> \in Services \X Services : d \in Targeted(s, {"Requires"})})

\* When boot_sequence asks for it, the boot order has every enabled service and
\* everything such a service depends on, exactly once, and nothing else; and what
\* a service depends on comes first, unless the two depend on each other in a circle.
BootOrder ==
    jobs["boot"] # <<>> /\ Head(jobs["boot"]).op = "order" =>
    LET order == resolve_boot_order
        wanted == setup.enabled \cup {d \in Services : \E s \in setup.enabled : <<s, d>> \in Below}
        at(s) == CHOOSE i \in DOMAIN order : order[i] = s
    IN  /\ ToSet(order) = wanted /\ Len(order) = Cardinality(wanted)
        /\ \A <<s, d>> \in Ordered : s \in wanted /\ <<d, s>> \notin Below => at(d) < at(s)

Booted == calls = 0 /\ next_pid > 1 /\ jobs["boot"] = <<>>

\* After a boot nobody interferes with, a service of the order runs if
\* nothing it requires, directly or not, is a oneshot, and neither it nor
\* anything it requires depends on itself.
BootStarts ==
    Booted =>
        \A s \in ToSet(resolve_boot_order) \ setup.oneshot :
            (\A d \in Services :
                /\ <<s, d>> \in Required => d \notin setup.oneshot
                /\ (d = s \/ <<s, d>> \in Required) => <<d, d>> \notin Below)
            => state[s] = "Running"

\* A service has a process exactly while it is running, and no two have the
\* same one: no check working from what it collected earlier marks a service
\* that was started meanwhile as failed.
RunsWithPid ==
    \A s \in Services : /\ (state[s] = "Running") = (pid[s] # None)
                        /\ \A t \in Services : pid[s] # None /\ pid[s] = pid[t] => s = t

\* service_mgr.rs:625, "start all enabled services in dependency order": after a
\* boot nobody interferes with, every enabled service that is no oneshot is running.
EnabledRun ==
    Booted =>
        \A s \in setup.enabled \ setup.oneshot : state[s] = "Running"

\* service_mgr.rs:118, "failure propagates": a running service has what it requires.
RequiredRun ==
    \A s \in Services : state[s] = "Running" => \A d \in Targeted(s, {"Requires"}) : state[d] = "Running"
=============================================================================
