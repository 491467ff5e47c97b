------------------------------ MODULE Summary ------------------------------
(***************************************************************************)
(* summariseRun of cmd/run_sim.go: from the log of one simulation to the   *)
(* row of it in summary.csv, with the carbon footprint of pkg/metrics.     *)
(*                                                                         *)
(* An entry of the log is [start, end, wait, cost, cpu]; cpu is what       *)
(* workloadByID says of its job.  Medians, quartiles and means are in      *)
(* units of 1/Unit, exact for at most four jobs.                           *)
(***************************************************************************)
EXTENDS Filter, SequencesExt, FiniteSetsExt

Unit == 12

SumOf(s) == MapThenSumSet(LAMBDA i : s[i], DOMAIN s)
Sorted(s) == SortSeq(s, LAMBDA a, b : a < b)

(* quantile for q quarters: position q * (n - 1) of the ordered samples,   *)
(* between two of them their weighted mean.                                *)
QuantileOf(s, q) ==
    LET position == q * (Len(s) - 1)
        lower == 1 + (position \div 4)
        rest == position % 4
    IN  IF s = <<>> THEN 0
        ELSE IF rest = 0 THEN s[lower] * Unit
        ELSE (s[lower] * (4 - rest) + s[lower + 1] * rest) * (Unit \div 4)

Quantile(s, q) == QuantileOf(Sorted(s), q)

Median(s) == Quantile(s, 2)
Iqr(s) == IF s = <<>> THEN 0 ELSE Quantile(s, 3) - Quantile(s, 1)
Mean(s) == (SumOf(s) * Unit) \div Len(s)

(* A median of zero is replaced by the mean.                               *)
MedianOrMean(s) == IF Median(s) = 0 /\ s # <<>> THEN Mean(s) ELSE Median(s)

Starts(s) == {s[i].start : i \in DOMAIN s}
Ends(s) == {s[i].end : i \in DOMAIN s}

(* Jobs that start inside the warm-up window are left out, unless all do.  *)
Effective(s, w) ==
    LET boundary == Min(Starts(s)) + w
        late == AtPositions(s, {i \in DOMAIN s : s[i].start >= boundary})
    IN  IF w > 0 /\ s # <<>> /\ late # <<>> THEN late ELSE s

Makespan(s) == IF s = <<>> THEN 0 ELSE Max(Ends(s)) - Min(Starts(s))

CpuTime(e) == e.cpu * (e.end - e.start)

(* Mutant: the CPU is counted from the submit time.                        *)
CfpFromSubmit(s) ==
    [cost |-> SumOf([i \in DOMAIN s |-> s[i].cost]),
     cpuTime |-> SumOf([i \in DOMAIN s |-> CpuTime(s[i]) + s[i].cpu * s[i].wait])]

(* CFPAggregate: carbon and CPU time, whose quotient is cfp_g_per_cpu_hour *)
(* (zero when no CPU time was used).                                       *)
Cfp(s) ==
    [cost |-> SumOf([i \in DOMAIN s |-> s[i].cost]),
     cpuTime |-> SumOf([i \in DOMAIN s |-> CpuTime(s[i])])]

RowOf(s) ==
    LET waits == [i \in DOMAIN s |-> s[i].wait]
        costs == [i \in DOMAIN s |-> s[i].cost]
    IN  [numJobs |-> Len(s), totalCost |-> SumOf(costs),
         avgCostPerJob |-> MedianOrMean(costs), costMedian |-> MedianOrMean(costs),
         costIqr |-> Iqr(costs), avgWait |-> MedianOrMean(waits),
         waitMedian |-> MedianOrMean(waits), waitIqr |-> Iqr(waits),
         makespan |-> Makespan(s), cfp |-> Cfp(s)]
=============================================================================
