---------------------------- MODULE MCDispatcher ----------------------------
(* Two simulated clusters, one too small for the large workload, and a     *)
(* remote one between them.  Either every strategy places two workloads,   *)
(* or RoundRobin, run twice, places four, one of which fits nowhere.       *)
EXTENDS Dispatcher

MCClusters == <<"lab", "remote", "rack">>
MCMaxCPU == [lab |-> 2, rack |-> 8]
MCEnergyBias == [lab |-> 2, rack |-> 2]
MCCpuOf == [w1 |-> 2, w2 |-> 2, w3 |-> 4, w4 |-> 9]
MCEvery == [strategies |-> <<"FCFS", "RoundRobin", "MinMin", "MaxMin", "EnergyAware", "CIaware">>,
            workloads |-> <<"w1", "w3">>]
MCRound == [strategies |-> <<"RoundRobin", "RoundRobin">>,
            workloads |-> <<"w1", "w2", "w3", "w4">>]
MCRuns == {MCEvery, MCRound}
=============================================================================
