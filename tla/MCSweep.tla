------------------------------ MODULE MCSweep ------------------------------
(* Two jobs counts (one clamped), rates, carbon weights and batch sizes,   *)
(* with tokens the parsers skip and files of an earlier sweep.             *)
EXTENDS Sweep

ASSUME OwnFiles == OwnDirectories /\ OwnNames

MCTemplate == << [submit |-> 10, dur |-> 4, prefers |-> "FR"],
                 [submit |-> 12, dur |-> 5, prefers |-> NoSite],
                 [submit |-> 15, dur |-> 6, prefers |-> "NL"] >>

MCJobCounts  == << Bad, 2, 0 >>
MCRates      == << 2000 >>
MCCIWeights  == << 350, 400 >>
MCBatchSizes == << 0, 2 >>
MCModes      == << Bad, "weighted-sum", "epsilon-constraint" >>
MCWeights    == << [a |-> 600, b |-> 300, g |-> 100], Bad, [a |-> 0, b |-> 0, g |-> 0] >>
MCOverrides  == << 7, 9 >>
MCDraws      == { [gap |-> 0, burst |-> FALSE], [gap |-> 9, burst |-> TRUE] }

(* A file the first run of an earlier sweep wrote.                         *)
MCStale == { [dir |-> <<2, 200, 35, 0>>, file |-> << <<"k8s">>, 35, 2, 0, 200, 0 >>] }
=============================================================================
