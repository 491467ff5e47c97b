----------------------------- MODULE CarbonModel -----------------------------
(***************************************************************************)
(* Energy and carbon of a workload on a node                               *)
(* (hetsched/pkg/metrics/cicost.go).                                       *)
(*                                                                         *)
(* A profile is what ci_profile says once it is split at the colons: its   *)
(* kind and its arguments, numbers or Bad where they do not parse.  All    *)
(* quantities are integers: power in percent of a percent of a peak unit,  *)
(* intensities and carbon times CISmoothWindow, since the mean over the    *)
(* window is kept as its sum.                                              *)
(***************************************************************************)
EXTENDS TraceLookup

CONSTANTS
    Bad,           \* an argument that does not parse
    PowerCurve,    \* PowerCurve[q]: (q/4)^cpuScalingGamma in percent
    SmoothStep     \* ciSmoothStep

CISmoothWindow == 5
DefaultPeak == 4   \* defaultPeakPowerW, in units of 100 W
DefaultIdle == 20  \* defaultIdleFrac, in percent
DefaultCI == 4     \* defaultCarbonIntG, in units of 100 g

ASSUME CurveAssumption ==
    /\ PowerCurve \in [0..4 -> 0..100]
    /\ PowerCurve[0] = 0 /\ PowerCurve[4] = 100
    /\ \A q \in 0..3 : PowerCurve[q] < PowerCurve[q + 1]
    /\ SmoothStep \in Nat

(* parseFloat: the argument, or def if it is missing or does not parse.    *)
Arg(args, i, def) == IF i \in DOMAIN args /\ args[i] # Bad THEN args[i] ELSE def

NoProfile == ""

(* amp*sin(2 pi x) at the quarter of the period that x is in.              *)
Quarter == [q \in 0..3 |-> <<0, 1, 0, -1>>[q + 1]]
Sine(amp, t, period) == amp * Quarter[(4 * (t % period)) \div period]

RawCarbonIntensity(n, t) ==
    LET a == n.profile.args
        def == n.ci
    IN CASE n.profile.kind = NoProfile -> IF n.hasSite THEN n.site.ci ELSE def
         [] n.profile.kind = "static" -> Arg(a, 1, def)
         [] n.profile.kind = "sine" /\ Len(a) >= 3 ->
                LET mean == Arg(a, 1, def)
                    period == Arg(a, 3, 0)
                IN  IF period <= 0 THEN mean ELSE mean + Sine(Arg(a, 2, 0), t, period)
         [] n.profile.kind = "randwalk" /\ Len(a) >= 2 ->
                LET lo == Arg(a, 1, def)
                    hi == Arg(a, 2, def)
                    step == IF Arg(a, 3, 60) <= 0 THEN 60 ELSE Arg(a, 3, 60)
                IN  IF hi <= lo THEN lo ELSE lo + ((hi - lo) * (t % step)) \div step
         [] n.profile.kind = "wattnet" /\ Len(a) >= 2 ->
                LET ci == Lookup(a, t) IN IF ci # NoCI THEN ci ELSE def
         [] OTHER -> def

(* The numbers of a node are numbers, and its arguments that parse are.    *)
Described(n) ==
    /\ n.hasSite \in BOOLEAN
    /\ \A x \in {n.ci, n.totalCPU, n.site.ci, n.site.pue, n.site.k} : x \in Int
    /\ \A args \in {n.peakMeta, n.peakLabel, n.idleMeta} :
          \A i \in DOMAIN args : args[i] \in Int \cup {Bad}
    /\ n.profile.kind # "wattnet" =>
          \A i \in DOMAIN n.profile.args : n.profile.args[i] \in Int \cup {Bad}

AtLeast(x, low) == IF x < low THEN low ELSE x
Within(x, low, high) == IF x < low THEN low ELSE IF x > high THEN high ELSE x

(* currentCI: the mean of the last samples, never below zero.              *)
CurrentCI(n, t) ==
    LET sample == [i \in 0 .. CISmoothWindow - 1 |-> RawCarbonIntensity(n, t - i * SmoothStep)]
    IN  AtLeast(MapThenSumSet(LAMBDA i : sample[i], DOMAIN sample), 0)
EstimateCarbonIntensity(n, t) == CurrentCI(n, t)

(* Mutant: a node without an intensity is computed with the one of its site. *)
CostCIOfSite(n, t) ==
    IF CurrentCI(n, t) > 0 THEN CurrentCI(n, t)
    ELSE CISmoothWindow * (IF n.hasSite THEN n.site.ci ELSE IF n.ci > 0 THEN n.ci ELSE DefaultCI)

(* The intensity a cost is computed with.                                  *)
CostCI(n, t) ==
    IF CurrentCI(n, t) > 0 THEN CurrentCI(n, t)
    ELSE CISmoothWindow * (IF n.hasSite /\ n.site.ci > 0 THEN n.site.ci
                           ELSE IF n.ci > 0 THEN n.ci ELSE DefaultCI)

(* The label wins over the metadata.                                       *)
PeakPower(n) == Arg(n.peakLabel, 1, Arg(n.peakMeta, 1, DefaultPeak))
IdlePercent(n) == Within(Arg(n.idleMeta, 1, DefaultIdle), 0, 100)

(* The share of the node's CPUs that the workload takes, in quarters.      *)
CpuQuarters(n, cpu) == IF n.totalCPU > 0 THEN Within((4 * cpu) \div n.totalCPU, 0, 4) ELSE 0

Power(n, cpu) ==
    LET dynamic == AtLeast(PeakPower(n) * (100 - IdlePercent(n)), 0)
    IN  100 * PeakPower(n) * IdlePercent(n) + PowerCurve[CpuQuarters(n, cpu)] * dynamic

Energy(n, cpu, dur) ==
    Power(n, cpu) * (IF dur <= 0 THEN 1 ELSE dur)
                  * (IF n.hasSite /\ n.site.k > 0 THEN n.site.k ELSE 1)

Carbon(n, cpu, dur, t) ==
    Energy(n, cpu, dur) * (IF n.hasSite /\ n.site.pue > 0 THEN n.site.pue ELSE 1)
                        * CostCI(n, t)
=============================================================================
