------------------------------ MODULE MCShell ------------------------------
(***************************************************************************)
(* What the shell does with kernel threads, one part at a time: `part`     *)
(* says which one a behaviour exercises.  "table": threads come, go and    *)
(* are killed, four slots and four threads.  "demo": the "pipe" command,   *)
(* three demos on two channels and five slots, enough to run out of        *)
(* either, to mix two demos up and to have a third one meet a consumer     *)
(* that they left behind.                                                  *)
(***************************************************************************)
EXTENDS Task

CONSTANTS DemoChannels, DemoSlots, MaxDemos

VARIABLES part, queue, open, DEMO_CHANNEL, tasks, turn, todo, demo, home, got, over, mixed

Dm == INSTANCE IpcDemo

demoVars == <<queue, open, DEMO_CHANNEL, tasks, turn, todo, demo, home, got, over, mixed>>

MCInit == part \in {"table", "demo"} /\ Init /\ Dm!Init

MCNext ==
    /\ UNCHANGED part
    /\ \/ part = "table" /\ Next /\ UNCHANGED demoVars
       \/ part = "demo" /\ Dm!Next /\ UNCHANGED vars

\* The fairness of Spec of IpcDemo.
Fairness == WF_demoVars(part = "demo" /\ Dm!Round) /\ SF_demoVars(part = "demo" /\ Dm!spawn)

MCSpec == MCInit /\ [][MCNext]_<<part, vars, demoVars>> /\ Fairness

-----------------------------------------------------------------------------
\* The "pipe" command: demos that overlap end, and deliver their own lines.
DemosEnd == Dm!DemosEnd
=============================================================================
