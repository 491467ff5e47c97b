----------------------------- MODULE MCBaseSim -----------------------------
(***************************************************************************)
(* A small cluster for the simulator's loop: an edge node with a GPU, a    *)
(* larger server without one, and workloads that compete for them.         *)
(***************************************************************************)
EXTENDS BaseSim, FiniteSetsExt

CONSTANTS MCJobs, MCBatchSizes, MCSubmitTimes, MCDurations

MCNodes == {"edge", "server"}

MCNodeIndex == [n \in MCNodes |-> IF n = "edge" THEN 0 ELSE 1]

MCCapacity == [edge   |-> [cpu |-> 2, mem |-> 3],
               server |-> [cpu |-> 3, mem |-> 2]]

(* small fits beside any other; wide fills the server; gpu needs the edge  *)
(* node.                                                                   *)
MCDemandOf == [small |-> [cpu |-> 1, mem |-> 1],
               wide  |-> [cpu |-> 3, mem |-> 1],
               gpu   |-> [cpu |-> 1, mem |-> 3]]

MCDemand == [j \in MCJobs |-> MCDemandOf[j]]

MCLoad == [r \in {"cpu", "mem"} |-> [S \in SUBSET MCJobs |->
              MapThenSumSet(LAMBDA j : MCDemandOf[j][r], S)]]

MCNeedsGpu == MCJobs \cap {"gpu"}

MCGpuNodes == {"edge"}
=============================================================================
