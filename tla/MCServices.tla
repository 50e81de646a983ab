---------------------------- MODULE MCServices ----------------------------
(***************************************************************************)
(* The service manager and the DHCP server, one at a time: `unit` says     *)
(* which one a behaviour exercises.                                        *)
(* The clients of the DHCP server are interchangeable.                     *)
(***************************************************************************)
EXTENDS Dhcpd, FiniteSets, SequencesExt

CONSTANT MAX_RESTART_RETRIES

VARIABLES
    unit,
    setup, state, pid, restart_count, next_pid, socket_active, reached, rested, jobs, calls

-----------------------------------------------------------------------------
\* Three of the services init registers: 1 network, 2 sshd and 3 crond.
All3 == 1 .. 3
Dep(t, k) == [target |-> t, kind |-> k]

\* The table of init: network.service is a oneshot.
BuiltIn ==
    [deps    |-> <<<<>>, <<Dep(1, "After"), Dep(1, "Requires")>>, <<>>>>,
     enabled |-> All3, oneshot |-> {1}, calls |-> 3]

\* The same table with a network.service that goes on running, and something
\* that requires sshd: restarts then fail for want of what is required.
Lasting ==
    [BuiltIn EXCEPT !.oneshot = {}, !.calls = 5, !.deps[3] = <<Dep(1, "After"), Dep(2, "Requires")>>]

\* For the boot alone, every table with at most one dependency per pair, cycles included.
Wanted(f) == SetToSortSeq({t \in All3 : f[t] # "none"}, <)
DepsOf(f) == [i \in DOMAIN Wanted(f) |-> Dep(Wanted(f)[i], f[Wanted(f)[i]])]

Graphs ==
    {[deps |-> [s \in All3 |-> DepsOf(g[s])], enabled |-> en, oneshot |-> {1}, calls |-> 0] :
        g \in {h \in [All3 -> [All3 -> {"none", "After", "Requires"}]] :
                  \A s \in All3 : h[s][s] = "none"},
        en \in SUBSET All3}

Sv == INSTANCE Services WITH
        NumServices <- 3, Setups <- {BuiltIn, Lasting} \cup Graphs,
        Policy <- <<"OnFailure", "Always", "Always">>,
        SocketFor <- 2, TimerFor <- 0, Targets <- [network |-> {1}, multi_user |-> {2, 3}]

serviceVars == <<setup, state, pid, restart_count, next_pid, socket_active, reached, rested, jobs, calls>>
allvars == <<unit, serviceVars, dvars>>

MCInit ==
    /\ unit \in {"services", "dhcpd"}
    /\ Sv!Init /\ DhcpInit
    /\ unit = "dhcpd" => setup = BuiltIn

MCNext ==
    /\ UNCHANGED unit
    /\ \/ unit = "services" /\ Sv!Next /\ UNCHANGED dvars
       \/ unit = "dhcpd" /\ DhcpNext /\ UNCHANGED serviceVars

MCSpec == MCInit /\ [][MCNext]_allvars

ClientSymmetry == Permutations(Macs)

-----------------------------------------------------------------------------
\* Services: boot_sequence starts a service after what it depends on.
BootOrder == unit = "services" => Sv!BootOrder

\* Services: boot_sequence starts every enabled service it can.
BootStarts == unit = "services" => Sv!BootStarts

\* Services: a service is Running exactly when it has a pid.
RunsWithPid == unit = "services" => Sv!RunsWithPid

\* Services: every enabled service is running after an undisturbed boot
\* (service_mgr.rs:625).  It does not hold.
EnabledRun == unit = "services" => Sv!EnabledRun

\* Services: a running service has what it requires (service_mgr.rs:118).  It
\* does not hold.
RequiredRun == unit = "services" => Sv!RequiredRun
=============================================================================
