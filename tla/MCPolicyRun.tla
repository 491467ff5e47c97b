---------------------------- MODULE MCPolicyRun ----------------------------
(***************************************************************************)
(* The cluster of MCBaseSim with carbon: two nodes with traces that part   *)
(* while workloads wait, and a small one whose profile does not parse.     *)
(* topsis, whose squares of carbon are too large for TLC's integers, is    *)
(* left to MCPolicyChoice.                                                 *)
(***************************************************************************)
EXTENDS PolicyRun

CONSTANTS MCJobs, MCBatchSizes, MCSubmitTimes, MCDurations

MCNodes == {"edge", "server", "attic"}

MCNodeIndex == [edge |-> 0, server |-> 1, attic |-> 2]

MCCapacity == [edge   |-> [cpu |-> 4, mem |-> 4], server |-> [cpu |-> 4, mem |-> 4],
               attic  |-> [cpu |-> 1, mem |-> 1]]

MCDemandOf == [small |-> [cpu |-> 1, mem |-> 1],
               wide  |-> [cpu |-> 4, mem |-> 1],
               gpu   |-> [cpu |-> 1, mem |-> 4]]

MCDemand == [j \in MCJobs |-> MCDemandOf[j]]

MCLoad == [r \in {"cpu", "mem"} |-> [S \in SUBSET MCJobs |->
              MapThenSumSet(LAMBDA j : MCDemandOf[j][r], S)]]

MCNeedsGpu == MCJobs \cap {"gpu"}
MCGpuNodes == {"edge"}

(* Hours of two units.  The traces part at the second hour; later ones are *)
(* missing, do not parse, or come after a gap.                             *)
Row(at, ci) == [at |-> at, ci |-> ci, ok |-> TRUE]
Unreadable(at) == [at |-> at, ci |-> 0, ok |-> FALSE]

MCFile == (<<"FR", "2024">> :> <<Row(0, 2), Row(2, 1), Unreadable(4), Row(8, 4)>>)
          @@ (<<"DE", "2024">> :> <<Row(-2, 2), Row(2, 3), Row(4, 1)>>)
          @@ (<<"CH", "2024">> :> <<Unreadable(0)>>)

Wattnet(country) == [kind |-> "wattnet", args |-> <<country, "2024">>]

MCProfile == [edge   |-> Wattnet("FR"),
              server |-> Wattnet("DE"),
              attic  |-> [kind |-> "static", args |-> <<Bad>>]]

MCSite == [edge   |-> [id |-> "FR", ci |-> 0, pue |-> 2, k |-> 1],
           server |-> [id |-> "", ci |-> 0, pue |-> 0, k |-> 0],
           attic  |-> [id |-> "NL", ci |-> 0, pue |-> 1, k |-> 0]]

MCNodeInfo == [n \in MCNodes |->
    [profile |-> MCProfile[n], hasSite |-> n # "server", site |-> MCSite[n],
     ci |-> 0, totalCPU |-> MCCapacity[n].cpu,
     peakMeta |-> <<2>>, peakLabel |-> IF n = "edge" THEN <<1>> ELSE <<>>, idleMeta |-> <<Bad>>,
     deviceClass |-> "", deviceLabel |-> IF n = "edge" THEN "" ELSE "standard",
     resourceClass |-> "", nodeType |-> "", noisy |-> n = "server"]]

MCJobInfo == [j \in MCJobs |->
    [class |-> "none", classLabel |-> "", resourceClass |-> IF j = "wide" THEN "general" ELSE "",
     prefers |-> IF j = "small" THEN "FR" ELSE "", nodeType |-> ""]]

MCPenaltyRoot == [d \in MCDurations \cup {4} |-> IF d = 4 THEN 2 ELSE 1]
MCPowerCurve == <<33, 57, 79, 100>> @@ (0 :> 0)

MCKind == Kinds \ {"topsis", ""}
MCWeights == [alpha |-> 25, beta |-> 40, gamma |-> 35, delta |-> 25, fit |-> 20,
              lambda |-> 50, maxRuntime |-> 1000, maxMove |-> 0]
MCNameIndex == [edge |-> 2, server |-> 1, attic |-> 3]

ASSUME MCNodesDrawPower == NodesDrawPower
=============================================================================
