----------------------------- MODULE TraceLookup -----------------------------
(***************************************************************************)
(* The carbon-intensity traces (hetsched/pkg/metrics/cicost.go): files of  *)
(* hourly samples, read once and kept by country and year, and the search  *)
(* for the sample of an hour.                                              *)
(*                                                                         *)
(* A row that does not parse has ok = FALSE.  HourLen units are an hour.   *)
(* Positions in a series start at 0, as in Go.  The zero time, for which   *)
(* the first sample is answered, is none that the simulator asks for.      *)
(***************************************************************************)
EXTENDS Filter, FiniteSetsExt

CONSTANTS
    File,     \* File[k]: the rows of the trace of k, a country and a year
    HourLen,  \* length of an hour
    NoCI      \* no sample

ASSUME FileAssumption ==
    \A k \in DOMAIN File : File[k] \in Seq([at : Int, ci : Nat, ok : BOOLEAN])

(* The files in carbon_intensity_traces_wattnet are sorted, one row an hour *)
(* (with hours missing).                                                    *)
ASSUME SortedAssumption ==
    /\ HourLen \in Nat \ {0}
    /\ \A k \in DOMAIN File : \A i, j \in DOMAIN File[k] :
          i < j => File[k][i].at < File[k][j].at

-----------------------------------------------------------------------------
(* parseWattnetCSV: the rows that parse, in the order of the file.         *)
Parse(rows) == AtPositions(rows, {i \in DOMAIN rows : rows[i].ok})

(* loadWattnetOnce keeps the series that are not empty.                    *)
wattnetSeries == [k \in {f \in DOMAIN File : Parse(File[f]) # <<>>} |-> Parse(File[k])]

Hour(t) == t - (t % HourLen)

(* sortSearchByTime: the first position not before the target, by halving. *)
SortSearch(s, target) ==
    LET from[w \in (0..Len(s)) \X (0..Len(s))] ==
            LET lo == w[1]
                hi == w[2]
                mid == lo + (hi - lo) \div 2
            IN  IF lo >= hi THEN lo
                ELSE IF s[mid + 1].at < target THEN from[<<mid + 1, hi>>]
                ELSE from[<<lo, mid>>]
    IN  from[<<0, Len(s)>>]

(* Mutant: the sample of the hour itself is passed over.                   *)
PickBefore(s, i, hour) == IF i > 0 THEN s[i] ELSE s[1]

(* The sample of the hour, else the one before it, else the first.         *)
PickSample(s, i, hour) ==
    IF i < Len(s) /\ s[i + 1].at = hour THEN s[i + 1]
    ELSE IF i > 0 THEN s[i] ELSE s[1]

(* lookupWattnetCI *)
Lookup(k, t) ==
    IF k \notin DOMAIN wattnetSeries THEN NoCI
    ELSE LET s == wattnetSeries[k]
         IN  PickSample(s, SortSearch(s, Hour(t)), Hour(t)).ci

-----------------------------------------------------------------------------
(* What a lookup is for: the latest sample that is not after the hour, the *)
(* first one if there is none, and no answer without samples.              *)
SampleOf(k, t) ==
    LET good == {File[k][i] : i \in {j \in DOMAIN File[k] : File[k][j].ok}}
        past == {x \in good : x.at <= Hour(t)}
        at == IF past = {} THEN Min({x.at : x \in good}) ELSE Max({x.at : x \in past})
    IN  IF k \notin DOMAIN File \/ good = {} THEN NoCI
        ELSE (CHOOSE x \in good : x.at = at).ci
=============================================================================
