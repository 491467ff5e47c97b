---------------------------- MODULE MCController ----------------------------
(***************************************************************************)
(* Small clusters for the controller.  `small` fits each node, `tall` only *)
(* has the memory it needs on one of them, and they do not fit together.   *)
(* Of small, twin and third no two fit n1 together; third asks for no      *)
(* memory, so both resources can be exceeded, or only the processor.       *)
(***************************************************************************)
EXTENDS Controller, FiniteSetsExt, TLC

CONSTANTS MCPods, MCNodes, SameName

(* Pods of one name, as a StatefulSet makes them, or one name for each.    *)
MCKeyOf == [u \in MCPods |-> IF SameName THEN "name" ELSE u]
MCKeys == {MCKeyOf[u] : u \in MCPods}

MCCapacityOf == [n1 |-> [cpu |-> 2, mem |-> 1], n2 |-> [cpu |-> 2, mem |-> 2]]
MCCapacity == [n \in MCNodes |-> MCCapacityOf[n]]

MCDemandOf == [small |-> [cpu |-> 1, mem |-> 1],
               twin  |-> [cpu |-> 2, mem |-> 1],
               third |-> [cpu |-> 2, mem |-> 0],
               tall  |-> [cpu |-> 1, mem |-> 2]]
MCDemand == [u \in MCPods |-> MCDemandOf[u]]

MCLoad == [r \in {"cpu", "mem"} |-> [S \in SUBSET MCPods |->
              MapThenSumSet(LAMBDA u : MCDemandOf[u][r], S)]]

WorkerSymmetry == Permutations(Workers)

MCSlack == [u \in MCPods |-> 2]
=============================================================================
