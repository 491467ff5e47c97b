---------------------------- MODULE JobSchedule ----------------------------
(***************************************************************************)
(* What the simulator promises, without queue, batches or policies: a job  *)
(* waits from its submission on, runs once, on one node that has room for  *)
(* it and the hardware it asks for, and leaves the node when its time is   *)
(* up and never before.                                                    *)
(***************************************************************************)
EXTENDS Integers

CONSTANTS
    Jobs,       \* workloads
    Nodes,      \* nodes that run them
    Res,        \* resource kinds, e.g. cpu and memory
    Capacity,   \* Capacity[n][r]: what node n has of r
    Load,       \* Load[r][S]: what the jobs of S need of r together
    NeedsGpu,   \* jobs labelled requires_gpu
    GpuNodes    \* nodes labelled gpu

VARIABLES
    now,        \* simulated time
    duration,   \* duration[j]: how long job j runs
    waiting,    \* jobs submitted and not started
    running,    \* running[n]: jobs that hold resources of node n
    endsAt,     \* endsAt[j]: when job j, once started, ends
    finished    \* jobs that ran to their end

vars == <<now, duration, waiting, running, endsAt, finished>>

Started == finished \cup UNION {running[n] : n \in Nodes}

Init ==
    /\ now = 0
    /\ duration \in [Jobs -> Nat]
    /\ waiting = {}
    /\ running = [n \in Nodes |-> {}]
    /\ endsAt = [j \in Jobs |-> 0]
    /\ finished = {}

Submit ==
    /\ \E S \in SUBSET (Jobs \ (waiting \cup Started)) : waiting' = waiting \cup S
    /\ UNCHANGED <<duration, now, running, endsAt, finished>>

Start(j, n) ==
    /\ j \in waiting
    /\ \A r \in Res : Load[r][running[n] \cup {j}] <= Capacity[n][r]
    /\ j \in NeedsGpu => n \in GpuNodes
    /\ waiting' = waiting \ {j}
    /\ running' = [running EXCEPT ![n] = @ \cup {j}]
    /\ endsAt' = [endsAt EXCEPT ![j] = now + duration[j]]
    /\ UNCHANGED <<duration, now, finished>>

(* Everything whose time is up leaves, on every node at once.              *)
Finish ==
    /\ running' = [n \in Nodes |-> {j \in running[n] : endsAt[j] > now}]
    /\ finished' = finished \cup
                   UNION {{j \in running[n] : endsAt[j] <= now} : n \in Nodes}
    /\ UNCHANGED <<duration, now, waiting, endsAt>>

Elapse ==
    /\ now' \in Nat
    /\ now' > now
    /\ UNCHANGED <<duration, waiting, running, endsAt, finished>>

Next ==
    \/ Submit
    \/ \E j \in Jobs, n \in Nodes : Start(j, n)
    \/ Finish
    \/ Elapse

Spec == Init /\ [][Next]_vars
=============================================================================
