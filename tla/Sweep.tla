------------------------------- MODULE Sweep -------------------------------
(***************************************************************************)
(* The sweep of cmd/run_sim.go: the cross product of job counts, arrival   *)
(* rates, carbon weights and batch sizes; under each combination every     *)
(* repetition runs every policy on its own copy of the same template       *)
(* workload and writes one per-job file and one summary row.               *)
(*                                                                         *)
(* Fractions are integers in thousandths. Sprintf("%.2f") is Hundredths;   *)
(* slugifyFloat only rewrites its digits and is one-to-one on them. A      *)
(* random source is a function of its seed, chosen when the seed is first  *)
(* used; 1e-4 minutes, the least interval, is one tick. The simulation     *)
(* itself is BaseSim.                                                      *)
(***************************************************************************)
EXTENDS Filter, SequencesExt

CONSTANTS
    Bad,             \* a flag token the parsers reject
    JobCountFlag, RateFlag, CIWeightFlag, BatchFlag, ModeFlag, WeightFlag,
    Overrides,       \* -durations
    Template,        \* loaded jobs: [submit, dur, prefers]
    NoSite,          \* no preferred_site label
    DrawKinds,       \* draws [gap, burst]; gap in ticks at rate one
    BurstMult,       \* -arrival-burst-multiplier; 1 models poisson mode
    StaleFiles,      \* paths left by an earlier sweep in the same outdir
    Repetitions

ASSUME TemplateAssumption ==
    Template \in Seq([submit : Int, dur : Nat,
                      prefers : {Template[i].prefers : i \in DOMAIN Template}])

ASSUME FlagAssumption == WeightFlag \in Seq({WeightFlag[i] : i \in DOMAIN WeightFlag})

VARIABLES
    template,  \* templateWl, its label maps included
    rng,       \* seed -> the draws it gives
    at,        \* loop counters: [combo, rep, spec]
    stage,     \* "begin" | "arrive" | "finish" | "over"
    work,      \* the jobs of the current run
    sites,     \* what its nodes' sites are: "real" | "neutral"
    files,     \* per-job files: path -> the index of the row it belongs to
    rows       \* allSummaries, with the jobs each row is about

vars == <<template, rng, at, stage, work, sites, files, rows>>

(* parseFloatSlice and parseIntSlice: tokens that do not parse are skipped. *)
Parsed(flag) == AtPositions(flag, {i \in DOMAIN flag : flag[i] # Bad})

OrElse(s, default) == IF s = <<>> THEN default ELSE s

(* A job count that is zero, negative or too large means all jobs.         *)
Clamped(c) == IF c \in 1..Len(Template) THEN c ELSE Len(Template)

(* The four nested loops of main, flattened: the last turns fastest.       *)
Combos ==
    LET counts == OrElse(Parsed(JobCountFlag), <<Len(Template)>>)
        rates  == OrElse(Parsed(RateFlag), <<1000>>)
        cis    == Parsed(CIWeightFlag)
        sizes  == Parsed(BatchFlag)
        Turn(i, period, s) == s[1 + ((i \div period) % Len(s))]
        Inner == Len(cis) * Len(sizes)
    IN  [k \in 1 .. Len(counts) * Len(rates) * Inner |->
            [jobs |-> Clamped(Turn(k - 1, Len(rates) * Inner, counts)),
             rate |-> Turn(k - 1, Inner, rates),
             ci   |-> Turn(k - 1, Len(sizes), cis),
             bs   |-> Turn(k - 1, 1, sizes)]]

Hundredths(x) == (x + 5) \div 10

(* parseEcoModes: unknown modes are skipped, the first known one is kept.  *)
EcoMode == OrElse(Parsed(ModeFlag), <<"weighted-sum">>)[1]

(* parseEcoWeightSets: sets of a positive sum, scaled to a sum of one.     *)
EcoWeightSets ==
    LET Total(w) == w.a + w.b + w.g
        Part(x, w) == (x * 1000) \div Total(w)
        sets == Parsed(WeightFlag)
        ok == AtPositions(sets, {i \in DOMAIN sets : Total(sets[i]) > 0})
    IN  [i \in DOMAIN ok |->
            <<Part(ok[i].a, ok[i]), Part(ok[i].b, ok[i]), Part(ok[i].g, ok[i])>>]

(* formatEcoKubeID with formatWeightLabel; "ecokube" when calibrated.      *)
EcoIDs ==
    IF EcoWeightSets = <<>> THEN << <<"ecokube">> >>
    ELSE [i \in DOMAIN EcoWeightSets |->
             <<"ecokube", EcoMode>> \o [k \in 1..3 |-> Hundredths(EcoWeightSets[i][k])]]

Baselines == << <<"k8s">>, <<"keids">>, <<"topsis">> >>
Specs == Baselines \o EcoIDs
IsBaseline(id) == id \in {Baselines[i] : i \in DOMAIN Baselines}

Combo  == Combos[at.combo]
Policy == Specs[at.spec]

(* The arrival seed, a constant summand, is left out.                      *)
SeedOfCI(c, rep) == c.jobs * 1000 + c.rate + c.ci + rep * 7919

(* scenarioSeed and repSeed: neither the carbon weight, the batch size nor *)
(* the policy is part of the seed.                                         *)
SeedOf(c, rep) == c.jobs * 1000 + c.rate + rep * 7919

Draws == [1..(Len(Template) - 1) -> DrawKinds]

RawInterval(d, rate) ==
    (d.gap * 1000) \div ((IF rate <= 0 THEN 1000 ELSE rate)
                         * (IF d.burst THEN BurstMult ELSE 1))

(* sampleArrivalInterval: at least one tick.                               *)
Interval(d, rate) == LET raw == RawInterval(d, rate) IN IF raw < 1 THEN 1 ELSE raw

(* The submit times of the waves, for at most n of them.                   *)
Starts(n, rate, draws) ==
    LET start[k \in 0..n] ==
            IF k = 0 THEN Template[1].submit
            ELSE start[k - 1] + Interval(draws[k], rate)
    IN  start

(* applyArrivalSchedule: waves of bs jobs share a submit time.             *)
Scheduled(jobs, c, draws) ==
    LET Wave(i) == (i - 1) \div (IF c.bs <= 0 THEN 1 ELSE c.bs)
    IN  [i \in DOMAIN jobs |->
            [jobs[i] EXCEPT !.submit = Starts(Len(jobs), c.rate, draws)[Wave(i)]]]

Scrubbed(jobs) == [i \in DOMAIN jobs |-> [jobs[i] EXCEPT !.prefers = NoSite]]

TemplateScrubbed(id) == IF IsBaseline(id) THEN Scrubbed(template) ELSE template

(* scrubPreferredSite copies the labels before it drops one, and           *)
(* applyArrivalSchedule writes to the copy of the run only.                *)
TemplateLeft(id) == template

PathWithoutRep(row) ==
    [dir  |-> <<row.jobs, Hundredths(row.rate), Hundredths(row.ci), row.bs>>,
     file |-> <<row.policy, Hundredths(row.ci), row.jobs, row.bs, Hundredths(row.rate)>>]

(* comboDir and the file name of writePerJobCSV.                           *)
PathOf(row) ==
    [dir  |-> <<row.jobs, Hundredths(row.rate), Hundredths(row.ci), row.bs>>,
     file |-> <<row.policy, Hundredths(row.ci), row.jobs, row.bs, Hundredths(row.rate), row.rep>>]

-----------------------------------------------------------------------------

(* cleanResults removes files of outDir itself only: those of an earlier   *)
(* sweep in the directory of a combination stay. Durations are overridden  *)
(* round robin.                                                            *)
Init ==
    /\ template = [i \in DOMAIN Template |->
                      IF Overrides = <<>> THEN Template[i]
                      ELSE [Template[i] EXCEPT !.dur = Overrides[1 + ((i - 1) % Len(Overrides))]]]
    /\ rng = <<>>
    /\ at = [combo |-> 1, rep |-> 0, spec |-> 1]
    /\ stage = IF 1 \in DOMAIN Combos THEN "begin" ELSE "over"
    /\ work = <<>>
    /\ sites = "real"
    /\ files = [p \in StaleFiles |-> 0]
    /\ rows = <<>>

(* A run copies the template and loads fresh nodes; a baseline runs        *)
(* without preferred sites and on one neutral site.                        *)
Begin ==
    /\ stage = "begin"
    /\ LET copy == SubSeq(template, 1, Combo.jobs)
       IN  work' = IF IsBaseline(Policy) THEN Scrubbed(copy) ELSE copy
    /\ sites' = IF IsBaseline(Policy) THEN "neutral" ELSE "real"
    /\ template' = TemplateLeft(Policy)
    /\ stage' = "arrive"
    /\ UNCHANGED <<rng, at, files, rows>>

Arrive ==
    /\ stage = "arrive"
    /\ LET seed == SeedOf(Combo, at.rep)
       IN  \E d \in IF seed \in DOMAIN rng THEN {rng[seed]} ELSE Draws :
              /\ rng' = [s \in DOMAIN rng \cup {seed} |-> IF s = seed THEN d ELSE rng[s]]
              /\ work' = Scheduled(work, Combo, d)
    /\ stage' = "finish"
    /\ UNCHANGED <<template, at, sites, files, rows>>

(* The counters after a run; the last one ends the sweep.                  *)
NextAt ==
    CASE at.spec < Len(Specs)     -> [at EXCEPT !.spec = @ + 1]
      [] at.spec = Len(Specs) /\ at.rep + 1 < Repetitions
                                  -> [combo |-> at.combo, rep |-> at.rep + 1, spec |-> 1]
      [] OTHER                    -> [combo |-> at.combo + 1, rep |-> 0, spec |-> 1]

(* The simulation has run: the per-job file, then the summary row.         *)
Finish ==
    /\ stage = "finish"
    /\ LET row == [policy |-> Policy, ci |-> Combo.ci, bs |-> Combo.bs, jobs |-> Combo.jobs,
                   rate |-> Combo.rate, rep |-> at.rep, ran |-> work]
       IN  /\ rows' = Append(rows, row)
           /\ files' = [p \in DOMAIN files \cup {PathOf(row)} |->
                           IF p = PathOf(row) THEN Len(rows') ELSE files[p]]
    /\ IF NextAt.combo \in DOMAIN Combos
         THEN stage' = "begin" /\ at' = NextAt
         ELSE stage' = "over" /\ UNCHANGED at
    /\ UNCHANGED <<template, rng, work, sites>>

Over == stage = "over" /\ UNCHANGED vars

Next == Begin \/ Arrive \/ Finish \/ Over

Spec == Init /\ [][Next]_vars

-----------------------------------------------------------------------------

(* The policies are compared on the same jobs: two runs of one job count,  *)
(* rate, batch size and repetition see the same submit times and           *)
(* durations, whatever their policy and carbon weight.                     *)
SameArrivals ==
    \A i, j \in DOMAIN rows :
        LET r == rows[i]
            s == rows[j]
        IN  <<r.jobs, r.rate, r.bs, r.rep>> = <<s.jobs, s.rate, s.bs, s.rep>>
            => \A k \in DOMAIN r.ran : /\ r.ran[k].submit = s.ran[k].submit
                                       /\ r.ran[k].dur = s.ran[k].dur

(* The blinding of the baselines does not leak: a run of ecokube, however  *)
(* many baselines ran before it on the shared label maps, sees the sites   *)
(* and preferences that were loaded, and a baseline sees neither.          *)
PreferencesKept ==
    stage \in {"arrive", "finish"} =>
        /\ sites = (IF IsBaseline(Policy) THEN "neutral" ELSE "real")
        /\ \A i \in DOMAIN work :
               work[i].prefers = IF IsBaseline(Policy) THEN NoSite ELSE Template[i].prefers

(* Combinations that write to directories of their own: no two have the    *)
(* same number of jobs and batch size and, in hundredths, the same rate    *)
(* and carbon weight. Policies with names of their own: no two weight sets *)
(* are the same in hundredths. The flags may say otherwise; the sweep does *)
(* not look.                                                               *)
DirOf(c) == <<c.jobs, Hundredths(c.rate), Hundredths(c.ci), c.bs>>
OwnDirectories == \A j, k \in DOMAIN Combos : DirOf(Combos[j]) = DirOf(Combos[k]) => j = k
OwnNames == \A j, k \in DOMAIN Specs : Specs[j] = Specs[k] => j = k

(* Every run of the sweep leaves its own per-job file: when the sweep is   *)
(* over, the file a row names holds the logs of that row's run. It takes   *)
(* flags with OwnDirectories and OwnNames.                                 *)
RowHasItsFile ==
    stage = "over" => \A i \in DOMAIN rows : files[PathOf(rows[i])] = i
=============================================================================
