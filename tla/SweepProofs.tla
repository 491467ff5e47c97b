----------------------------- MODULE SweepProofs -----------------------------
(***************************************************************************)
(* Theorems about the sweep, for every template, flags and number of       *)
(* repetitions.  The inductive invariant is SweepInv:                      *)
(*   LoadedInv   the template is as it was loaded                          *)
(*   WorkInv     the jobs of a run are made from it and its seed alone     *)
(*   RowsInv     and so are those of every row                             *)
(* and, for the files, FilesInv.                                           *)
(***************************************************************************)
EXTENDS Sweep, FiniteSetTheorems, SequenceTheorems, TLAPS

(* The template after the durations were overridden.                       *)
Loaded == [i \in DOMAIN Template |->
              IF Overrides = <<>> THEN Template[i]
              ELSE [Template[i] EXCEPT !.dur = Overrides[1 + ((i - 1) % Len(Overrides))]]]

(* The jobs that policy id gets to run: its copy of the first n.           *)
CopyFor(id, n) == IF IsBaseline(id) THEN Scrubbed(SubSeq(Loaded, 1, n)) ELSE SubSeq(Loaded, 1, n)

LoadedInv == template = Loaded

(* q has the parameters of a run: its jobs with the draws of its seed.     *)
Ran(q, w) ==
    /\ q.jobs \in 0..Len(Template)
    /\ SeedOf(q, q.rep) \in DOMAIN rng
    /\ w = Scheduled(CopyFor(q.policy, q.jobs), q, rng[SeedOf(q, q.rep)])

WorkInv ==
    /\ stage # "over" => at.combo \in DOMAIN Combos
    /\ stage \in {"arrive", "finish"} => sites = (IF IsBaseline(Policy) THEN "neutral" ELSE "real")
    /\ stage = "arrive" => work = CopyFor(Policy, Combo.jobs)
    /\ stage = "finish" =>
          /\ SeedOf(Combo, at.rep) \in DOMAIN rng
          /\ work = Scheduled(CopyFor(Policy, Combo.jobs), Combo, rng[SeedOf(Combo, at.rep)])

RowsInv == (\E R : rows \in Seq(R)) /\ \A i \in DOMAIN rows : Ran(rows[i], rows[i].ran)

SweepInv == LoadedInv /\ WorkInv /\ RowsInv

-----------------------------------------------------------------------------
(* The jobs of a run                                                       *)

(* Every combination is of as many jobs as there are, or fewer.            *)
LEMMA ComboJobs ==
    ASSUME NEW k \in DOMAIN Combos
    PROVE  Combos[k].jobs \in 0..Len(Template)
<1>1. Len(Template) \in Nat
  BY TemplateAssumption
<1>2. \A c : Clamped(c) \in 0..Len(Template)
  BY <1>1 DEF Clamped
<1>3. \E c : Combos[k].jobs = Clamped(c)
  BY DEF Combos
<1> QED
  BY <1>2, <1>3

LEMMA LoadedShape ==
    /\ Len(Template) \in Nat /\ DOMAIN Template = 1..Len(Template)
    /\ DOMAIN Loaded = 1..Len(Template)
    /\ \A i \in 1..Len(Template) :
          /\ DOMAIN Loaded[i] = {"submit", "dur", "prefers"}
          /\ Loaded[i].prefers = Template[i].prefers
<1>1. PICK R : /\ R = [submit : Int, dur : Nat, prefers : {Template[i].prefers : i \in DOMAIN Template}]
               /\ Template \in Seq(R)
  BY TemplateAssumption
<1>2. Len(Template) \in Nat /\ DOMAIN Template = 1..Len(Template)
  BY <1>1
<1>3. \A i \in 1..Len(Template) : Template[i] \in R
  <2>1. Template \in Seq(R)
    BY <1>1
  <2> QED
    BY <1>2, <2>1
<1>4. \A i \in 1..Len(Template) : DOMAIN Template[i] = {"submit", "dur", "prefers"}
  BY <1>1, <1>3
<1>5. \A i \in 1..Len(Template) :
         Loaded[i] = Template[i] \/ \E d : Loaded[i] = [Template[i] EXCEPT !.dur = d]
  BY <1>2 DEF Loaded
<1>6. DOMAIN Loaded = 1..Len(Template)
  BY <1>2 DEF Loaded
<1>7. \A i \in 1..Len(Template) :
         DOMAIN Loaded[i] = {"submit", "dur", "prefers"} /\ Loaded[i].prefers = Template[i].prefers
  BY <1>4, <1>5
<1> QED
  BY <1>2, <1>6, <1>7

(* What a policy gets: the first n jobs, a baseline without preferences.   *)
LEMMA CopyShape ==
    ASSUME NEW id, NEW n \in 0..Len(Template)
    PROVE  /\ DOMAIN CopyFor(id, n) = 1..n /\ Len(CopyFor(id, n)) = n
           /\ \A i \in 1..n :
                 /\ DOMAIN CopyFor(id, n)[i] = {"submit", "dur", "prefers"}
                 /\ CopyFor(id, n)[i].dur = Loaded[i].dur
                 /\ CopyFor(id, n)[i].prefers =
                       IF IsBaseline(id) THEN NoSite ELSE Template[i].prefers
<1>1. Len(Template) \in Nat /\ n \in Nat /\ n <= Len(Template)
  BY LoadedShape
<1>2. PICK first : first = SubSeq(Loaded, 1, n)
  OBVIOUS
<1>3. first = [i \in 1..n |-> Loaded[i]]
  BY <1>1, <1>2, LoadedShape
<1>4. \A i \in 1..n : i \in 1..Len(Template)
  BY <1>1
<1>5. CASE IsBaseline(id)
  <2>1. CopyFor(id, n) = [i \in 1..n |-> [Loaded[i] EXCEPT !.prefers = NoSite]]
    BY <1>2, <1>3, <1>5 DEF CopyFor, Scrubbed
  <2>2. Len(CopyFor(id, n)) = n
    BY <1>1, <2>1
  <2> QED
    BY <1>4, <1>5, <2>1, <2>2, LoadedShape
<1>6. CASE ~IsBaseline(id)
  <2>1. CopyFor(id, n) = [i \in 1..n |-> Loaded[i]]
    BY <1>2, <1>3, <1>6 DEF CopyFor
  <2>2. Len(CopyFor(id, n)) = n
    BY <1>1, <2>1
  <2> QED
    BY <1>4, <1>6, <2>1, <2>2, LoadedShape
<1> QED
  BY <1>5, <1>6

(* The schedule changes the submit times, to times that the number of      *)
(* jobs, rate, batch size and draws determine, and nothing else.           *)
Wave(q, i) == (i - 1) \div (IF q.bs <= 0 THEN 1 ELSE q.bs)

LEMMA ScheduleShape ==
    ASSUME NEW id, NEW q, NEW n \in 0..Len(Template), NEW d
    PROVE  /\ DOMAIN Scheduled(CopyFor(id, n), q, d) = 1..n
           /\ \A i \in 1..n :
                 LET job == Scheduled(CopyFor(id, n), q, d)[i]
                 IN  /\ job.submit = Starts(n, q.rate, d)[Wave(q, i)]
                     /\ job.dur = Loaded[i].dur
                     /\ job.prefers = IF IsBaseline(id) THEN NoSite ELSE Template[i].prefers
<1>1. PICK c : c = CopyFor(id, n)
  OBVIOUS
<1>2. /\ DOMAIN c = 1..n /\ Len(c) = n
      /\ \A i \in 1..n : /\ DOMAIN c[i] = {"submit", "dur", "prefers"}
                         /\ c[i].dur = Loaded[i].dur
                         /\ c[i].prefers = IF IsBaseline(id) THEN NoSite ELSE Template[i].prefers
  BY <1>1, CopyShape
<1>3. Scheduled(c, q, d) = [i \in 1..n |->
          [c[i] EXCEPT !.submit = Starts(n, q.rate, d)[Wave(q, i)]]]
  BY <1>2, Zenon DEF Scheduled, Wave
<1>4. \A i \in 1..n : \A t :
         LET job == [c[i] EXCEPT !.submit = t]
         IN  job.submit = t /\ job.dur = c[i].dur /\ job.prefers = c[i].prefers
  BY <1>2
<1> QED
  BY <1>1, <1>2, <1>3, <1>4

-----------------------------------------------------------------------------
(* The invariant                                                           *)

LEMMA SweepInit == Init => SweepInv
<1> SUFFICES ASSUME Init PROVE SweepInv
  OBVIOUS
<1>1. template = Loaded /\ rows = <<>> /\ stage \in {"begin", "over"}
      /\ (stage # "over" => at.combo \in DOMAIN Combos)
  BY DEF Init, Loaded
<1> QED
  BY <1>1 DEF SweepInv, LoadedInv, WorkInv, RowsInv

(* A run uses the draws of its seed if another run made them, and else     *)
(* makes them: those that were made stay.                                  *)
LEMMA DrawsStay ==
    ASSUME NEW seed, NEW d, seed \in DOMAIN rng => d = rng[seed],
           rng' = [s \in DOMAIN rng \cup {seed} |-> IF s = seed THEN d ELSE rng[s]]
    PROVE  /\ seed \in DOMAIN rng' /\ rng'[seed] = d
           /\ \A s \in DOMAIN rng : s \in DOMAIN rng' /\ rng'[s] = rng[s]
OBVIOUS

LEMMA RowsStay ==
    ASSUME RowsInv, UNCHANGED rows,
           \A s \in DOMAIN rng : s \in DOMAIN rng' /\ rng'[s] = rng[s]
    PROVE  RowsInv'
BY DEF RowsInv, Ran

LEMMA SweepStep == SweepInv /\ [Next]_vars => SweepInv'
<1> SUFFICES ASSUME SweepInv, [Next]_vars PROVE SweepInv'
  OBVIOUS
<1>1. ASSUME Begin PROVE SweepInv'
  <2>1. /\ stage = "begin" /\ stage' = "arrive" /\ UNCHANGED <<template, rng, at, rows>>
        /\ sites' = (IF IsBaseline(Policy) THEN "neutral" ELSE "real")
        /\ work' = IF IsBaseline(Policy) THEN Scrubbed(SubSeq(template, 1, Combo.jobs))
                   ELSE SubSeq(template, 1, Combo.jobs)
    BY <1>1 DEF Begin, TemplateLeft
  <2>2. Policy' = Policy /\ Combo' = Combo
    BY <2>1 DEF Policy, Combo
  <2>3. work' = CopyFor(Policy, Combo.jobs)
    BY <2>1 DEF CopyFor, SweepInv, LoadedInv
  <2>4. WorkInv'
    BY <2>1, <2>2, <2>3 DEF SweepInv, WorkInv
  <2> QED
    BY <2>1, <2>4, RowsStay DEF SweepInv, LoadedInv
<1>2. ASSUME Arrive PROVE SweepInv'
  <2>1. PICK d : /\ SeedOf(Combo, at.rep) \in DOMAIN rng => d = rng[SeedOf(Combo, at.rep)]
                 /\ rng' = [s \in DOMAIN rng \cup {SeedOf(Combo, at.rep)} |->
                                IF s = SeedOf(Combo, at.rep) THEN d ELSE rng[s]]
                 /\ work' = Scheduled(work, Combo, d)
    BY <1>2 DEF Arrive
  <2>2. /\ stage = "arrive" /\ stage' = "finish" /\ UNCHANGED <<template, at, sites, rows>>
    BY <1>2 DEF Arrive
  <2>3. Policy' = Policy /\ Combo' = Combo
    BY <2>2 DEF Policy, Combo
  <2>4. /\ SeedOf(Combo, at.rep) \in DOMAIN rng' /\ rng'[SeedOf(Combo, at.rep)] = d
        /\ \A s \in DOMAIN rng : s \in DOMAIN rng' /\ rng'[s] = rng[s]
    BY <2>1, DrawsStay
  <2>5. work' = Scheduled(CopyFor(Policy, Combo.jobs), Combo, d)
    BY <2>1, <2>2 DEF SweepInv, WorkInv
  <2>6. WorkInv'
    <3>1. SeedOf(Combo, at.rep)' = SeedOf(Combo, at.rep)
      BY <2>2, <2>3 DEF SeedOf
    <3> QED
      BY <2>2, <2>3, <2>4, <2>5, <3>1 DEF SweepInv, WorkInv
  <2> QED
    BY <2>2, <2>4, <2>6, RowsStay DEF SweepInv, LoadedInv
<1>3. ASSUME Finish PROVE SweepInv'
  <2>1. /\ stage = "finish" /\ UNCHANGED <<template, rng>>
        /\ (stage' = "begin" /\ at'.combo \in DOMAIN Combos) \/ stage' = "over"
    BY <1>3 DEF Finish
  <2>2. PICK q : /\ q = [policy |-> Policy, ci |-> Combo.ci, bs |-> Combo.bs, jobs |-> Combo.jobs,
                         rate |-> Combo.rate, rep |-> at.rep, ran |-> work]
                 /\ rows' = Append(rows, q)
    BY <1>3 DEF Finish
  <2>3. Combo.jobs \in 0..Len(Template)
    BY <2>1, ComboJobs DEF SweepInv, WorkInv, Combo
  <2>4. SeedOf(q, q.rep) = SeedOf(Combo, at.rep)
    BY <2>2 DEF SeedOf
  <2>5. \A w, d : Scheduled(w, q, d) = Scheduled(w, Combo, d)
    BY <2>2, Zenon DEF Scheduled
  <2>6. Ran(q, q.ran)
    BY <2>1, <2>2, <2>3, <2>4, <2>5 DEF SweepInv, WorkInv, Ran
  <2>7. RowsInv'
    <3>0. PICK Q : rows \in Seq(Q)
      BY DEF SweepInv, RowsInv
    <3>1. PICK R : R = Q \cup {q}
      OBVIOUS
    <3>2. rows \in Seq(R) /\ q \in R
      BY <3>0, <3>1
    <3>3. /\ DOMAIN rows' = DOMAIN rows \cup {Len(rows) + 1}
          /\ \A i \in DOMAIN rows : rows'[i] = rows[i]
          /\ rows'[Len(rows) + 1] = q /\ rows' \in Seq(R)
      BY <2>2, <3>2
    <3> QED
      BY <2>1, <2>6, <3>3 DEF SweepInv, RowsInv, Ran
  <2> QED
    BY <2>1, <2>7 DEF SweepInv, LoadedInv, WorkInv
<1>4. ASSUME Over \/ UNCHANGED vars PROVE SweepInv'
  <2>1. UNCHANGED <<template, rng, at, stage, work, sites, rows>>
    BY <1>4 DEF Over, vars
  <2> QED
    BY <2>1, RowsStay DEF SweepInv, LoadedInv, WorkInv, Policy, Combo
<1> QED
  BY <1>1, <1>2, <1>3, <1>4 DEF Next

LEMMA SweepInvariant == Spec => []SweepInv
BY SweepInit, SweepStep, PTL DEF Spec

-----------------------------------------------------------------------------
(* The properties                                                          *)

(* PreferencesKept: blinding the baselines never reaches the template, so  *)
(* a run of ecokube sees what was loaded and a baseline nothing of it.     *)
THEOREM BlindingDoesNotLeak == Spec => []PreferencesKept
<1>1. SweepInv => PreferencesKept
  <2> SUFFICES ASSUME SweepInv, stage \in {"arrive", "finish"}
               PROVE  /\ sites = (IF IsBaseline(Policy) THEN "neutral" ELSE "real")
                      /\ \A i \in DOMAIN work :
                            work[i].prefers = IF IsBaseline(Policy) THEN NoSite
                                              ELSE Template[i].prefers
    BY DEF PreferencesKept
  <2>1. Combo.jobs \in 0..Len(Template)
    BY ComboJobs DEF SweepInv, WorkInv, Combo
  <2>2. CASE stage = "arrive"
    <3>1. work = CopyFor(Policy, Combo.jobs)
      BY <2>2 DEF SweepInv, WorkInv
    <3> QED
      BY <2>1, <3>1, CopyShape DEF SweepInv, WorkInv
  <2>3. CASE stage = "finish"
    <3>1. PICK d : work = Scheduled(CopyFor(Policy, Combo.jobs), Combo, d)
      BY <2>3 DEF SweepInv, WorkInv
    <3> QED
      BY <2>1, <3>1, ScheduleShape DEF SweepInv, WorkInv
  <2> QED
    BY <2>2, <2>3
<1> QED
  BY SweepInvariant, <1>1, PTL

(* SameArrivals: runs of one job count, rate, batch size and repetition    *)
(* get the same submit times and durations, because these come from the    *)
(* template and from a seed that only these parameters make.               *)
THEOREM ComparedOnTheSameJobs == Spec => []SameArrivals
<1>1. SweepInv => SameArrivals
  <2> SUFFICES ASSUME SweepInv, NEW i \in DOMAIN rows, NEW j \in DOMAIN rows,
                      <<rows[i].jobs, rows[i].rate, rows[i].bs, rows[i].rep>>
                          = <<rows[j].jobs, rows[j].rate, rows[j].bs, rows[j].rep>>,
                      NEW k \in DOMAIN rows[i].ran
               PROVE  /\ rows[i].ran[k].submit = rows[j].ran[k].submit
                      /\ rows[i].ran[k].dur = rows[j].ran[k].dur
    BY DEF SameArrivals
  <2>1. PICK q, r : q = rows[i] /\ r = rows[j]
    OBVIOUS
  <2>2. q.jobs = r.jobs /\ q.rate = r.rate /\ q.bs = r.bs /\ q.rep = r.rep
    BY <2>1
  <2>3. Ran(q, q.ran) /\ Ran(r, r.ran)
    BY <2>1 DEF SweepInv, RowsInv
  <2>4. SeedOf(q, q.rep) = SeedOf(r, r.rep)
    BY <2>2 DEF SeedOf
  <2>5. PICK d : d = rng[SeedOf(q, q.rep)]
    OBVIOUS
  <2>6. /\ q.jobs \in 0..Len(Template)
        /\ q.ran = Scheduled(CopyFor(q.policy, q.jobs), q, d)
        /\ r.ran = Scheduled(CopyFor(r.policy, q.jobs), r, d)
    BY <2>2, <2>3, <2>4, <2>5 DEF Ran
  <2>7. Wave(q, k) = Wave(r, k)
    BY <2>2 DEF Wave
  <2>8. k \in 1..q.jobs
    BY <2>1, <2>6, ScheduleShape
  <2>9. /\ q.ran[k].submit = Starts(q.jobs, q.rate, d)[Wave(q, k)]
        /\ r.ran[k].submit = Starts(q.jobs, r.rate, d)[Wave(r, k)]
        /\ q.ran[k].dur = Loaded[k].dur /\ r.ran[k].dur = Loaded[k].dur
    BY <2>6, <2>8, ScheduleShape
  <2> QED
    BY <2>1, <2>2, <2>7, <2>9
<1> QED
  BY SweepInvariant, <1>1, PTL

-----------------------------------------------------------------------------
(* The files                                                               *)

(* The runs the loops come to, and their order.                            *)
Position == [combo : Int \cap DOMAIN Combos, rep : Int, spec : DOMAIN Specs]

Before(a, b) ==
    \/ a.combo < b.combo
    \/ /\ a.combo = b.combo
       /\ a.rep < b.rep \/ (a.rep = b.rep /\ a.spec < b.spec)

RowAt(a) == [policy |-> Specs[a.spec], ci |-> Combos[a.combo].ci, bs |-> Combos[a.combo].bs,
             jobs |-> Combos[a.combo].jobs, rate |-> Combos[a.combo].rate, rep |-> a.rep]

(* Every row has its file, and no run still to come writes to it.          *)
FilesInv ==
    /\ at \in [combo : Int, rep : Int, spec : DOMAIN Specs]
    /\ stage # "over" => at.combo \in DOMAIN Combos
    /\ \E R : rows \in Seq(R)
    /\ \A i \in DOMAIN rows : PathOf(rows[i]) \in DOMAIN files /\ files[PathOf(rows[i])] = i
    /\ stage # "over" =>
          \A i \in DOMAIN rows, a \in Position :
             ~Before(a, at) => PathOf(rows[i]) # PathOf(RowAt(a))

LEMMA SpecsShape == Len(Specs) \in Nat /\ DOMAIN Specs = 1..Len(Specs) /\ 1 \in DOMAIN Specs
<1>2. ASSUME NEW s, NEW S, Cardinality(S) \in Nat
      PROVE  DOMAIN AtPositions(s, S) = 1..Cardinality(S)
  BY DEF AtPositions
<1>3. ASSUME NEW n \in Nat, NEW s, DOMAIN s = 1..n, NEW S \in SUBSET (1..n)
      PROVE  Cardinality(S) \in Nat
  <2>1. IsFiniteSet(1..n)
    BY FS_Interval
  <2>2. IsFiniteSet(S)
    BY <2>1, FS_Subset
  <2> QED
    BY <2>2, FS_CardinalityType
<1>4. \E n \in Nat : DOMAIN Parsed(WeightFlag) = 1..n
  <2>1. PICK n \in Nat : DOMAIN WeightFlag = 1..n
    BY FlagAssumption
  <2> QED
    BY <1>2, <1>3, <2>1 DEF Parsed
<1>5. \E n \in Nat : DOMAIN EcoWeightSets = 1..n
  <2>1. PICK n \in Nat : DOMAIN Parsed(WeightFlag) = 1..n
    BY <1>4
  <2>2. PICK sets : sets = Parsed(WeightFlag)
    OBVIOUS
  <2>3. PICK S : S = {i \in DOMAIN sets : sets[i].a + sets[i].b + sets[i].g > 0}
    OBVIOUS
  <2>4. DOMAIN EcoWeightSets = DOMAIN AtPositions(sets, S)
    BY <2>2, <2>3, Zenon DEF EcoWeightSets
  <2>5. S \in SUBSET (1..n)
    BY <2>1, <2>2, <2>3
  <2> QED
    BY <1>2, <1>3, <2>1, <2>2, <2>4, <2>5
<1>6. PICK n \in Nat : DOMAIN EcoIDs = 1..n /\ EcoIDs = [i \in 1..n |-> EcoIDs[i]]
  <2>1. CASE EcoWeightSets = <<>>
    <3>1. EcoIDs = << <<"ecokube">> >>
      BY <2>1 DEF EcoIDs
    <3>2. 1 \in Nat /\ DOMAIN EcoIDs = 1..1 /\ EcoIDs = [i \in 1..1 |-> EcoIDs[i]]
      BY <3>1
    <3> QED
      BY <3>2
  <2>2. CASE EcoWeightSets # <<>>
    <3>1. PICK m \in Nat : DOMAIN EcoWeightSets = 1..m
      BY <1>5
    <3>2. PICK E : EcoIDs = [i \in 1..m |-> E[i]]
      <4>1. PICK E : E = [i \in DOMAIN EcoWeightSets |->
                <<"ecokube", EcoMode>> \o [k \in 1..3 |-> Hundredths(EcoWeightSets[i][k])]]
        OBVIOUS
      <4>2. EcoIDs = E
        BY <2>2, <4>1, Zenon DEF EcoIDs
      <4>3. E = [i \in 1..m |-> E[i]]
        BY <3>1, <4>1
      <4> QED
        BY <4>2, <4>3
    <3>3. DOMAIN EcoIDs = 1..m /\ EcoIDs = [i \in 1..m |-> EcoIDs[i]]
      BY <3>2
    <3> QED
      BY <3>3
  <2> QED
    BY <2>1, <2>2
<1>7. EcoIDs \in Seq({EcoIDs[i] : i \in 1..n})
  BY <1>6
<1>8. PICK T : EcoIDs \in Seq(T) /\ Baselines \in Seq(T) /\ Len(Baselines) = 3
  <2>1. PICK T : T = {EcoIDs[i] : i \in 1..n} \cup { <<"k8s">>, <<"keids">>, <<"topsis">> }
    OBVIOUS
  <2>2. EcoIDs \in Seq(T)
    BY <1>6, <2>1
  <2>3. Baselines \in Seq(T) /\ Len(Baselines) = 3
    BY <2>1 DEF Baselines
  <2> QED
    BY <2>2, <2>3
<1>9. PICK e : e = EcoIDs
  OBVIOUS
<1>10. PICK b : b = Baselines
  OBVIOUS
<1>11. b \o e \in Seq(T) /\ Len(b \o e) = 3 + Len(e) /\ Len(e) \in Nat
  <2>1. b \in Seq(T) /\ e \in Seq(T) /\ Len(b) = 3
    BY <1>8, <1>9, <1>10
  <2>2. Len(e) \in Nat
    BY <2>1
  <2>3. b \o e \in Seq(T) /\ Len(b \o e) = Len(b) + Len(e)
    BY <2>1, ConcatProperties
  <2>4. Len(b \o e) = 3 + Len(e)
    BY <2>1, <2>3
  <2> QED
    BY <2>2, <2>3, <2>4
<1>12. Specs = b \o e
  BY <1>9, <1>10 DEF Specs
<1>13. Specs \in Seq(T) /\ Len(Specs) \in Nat /\ Len(Specs) >= 1
  BY <1>11, <1>12
<1>14. DOMAIN Specs = 1..Len(Specs)
  BY <1>13
<1> QED
  BY <1>13, <1>14

LEMMA FilesInit == Init => FilesInv
<1> SUFFICES ASSUME Init PROVE FilesInv
  OBVIOUS
<1>1. /\ at = [combo |-> 1, rep |-> 0, spec |-> 1] /\ rows = <<>>
      /\ stage # "over" => 1 \in DOMAIN Combos
  BY DEF Init
<1> QED
  BY <1>1, SpecsShape DEF FilesInv

(* The path is one of the parameters of a run.                             *)
LEMMA PathIsOwn ==
    ASSUME OwnDirectories, OwnNames, NEW a \in Position, NEW b \in Position,
           PathOf(RowAt(a)) = PathOf(RowAt(b))
    PROVE  a = b
<1>1. PathOf(RowAt(a)).dir = PathOf(RowAt(b)).dir /\ PathOf(RowAt(a)).file = PathOf(RowAt(b)).file
  OBVIOUS
<1>2. \A c \in Position : /\ PathOf(RowAt(c)).dir = DirOf(Combos[c.combo])
                          /\ PathOf(RowAt(c)).file[1] = Specs[c.spec]
                          /\ PathOf(RowAt(c)).file[6] = c.rep
  BY DEF PathOf, RowAt, DirOf
<1>3. a.combo = b.combo
  BY <1>1, <1>2 DEF OwnDirectories, Position
<1>4. a.spec = b.spec
  BY <1>1, <1>2 DEF OwnNames, Position
<1>5. a.rep = b.rep
  BY <1>1, <1>2
<1> QED
  BY <1>3, <1>4, <1>5 DEF Position

(* The loops only go forward.                                              *)
LEMMA NextIsLater ==
    ASSUME at \in [combo : Int, rep : Int, spec : DOMAIN Specs]
    PROVE  /\ NextAt \in [combo : Int, rep : Int, spec : DOMAIN Specs]
           /\ \A a \in Position : ~Before(a, NextAt) => ~Before(a, at) /\ a # at
<1>1. DOMAIN Specs = 1..Len(Specs) /\ Len(Specs) \in Nat /\ 1 \in DOMAIN Specs
  BY SpecsShape
<1>2. /\ at.combo \in Int /\ at.rep \in Int /\ at.spec \in 1..Len(Specs)
      /\ at = [combo |-> at.combo, rep |-> at.rep, spec |-> at.spec]
  BY <1>1
<1>3. \/ NextAt = [combo |-> at.combo, rep |-> at.rep, spec |-> at.spec + 1] /\ at.spec < Len(Specs)
      \/ NextAt = [combo |-> at.combo, rep |-> at.rep + 1, spec |-> 1]
      \/ NextAt = [combo |-> at.combo + 1, rep |-> 0, spec |-> 1]
  <2>1. [at EXCEPT !.spec = @ + 1] = [combo |-> at.combo, rep |-> at.rep, spec |-> at.spec + 1]
    BY <1>2
  <2>2. CASE at.spec < Len(Specs)
    BY <1>1, <1>2, <2>1, <2>2 DEF NextAt
  <2>3. CASE at.spec = Len(Specs) /\ at.rep + 1 < Repetitions
    BY <1>1, <1>2, <2>1, <2>3 DEF NextAt
  <2>4. CASE ~(at.spec < Len(Specs)) /\ ~(at.spec = Len(Specs) /\ at.rep + 1 < Repetitions)
    BY <2>4 DEF NextAt
  <2> QED
    BY <2>2, <2>3, <2>4
<1>4. NextAt \in [combo : Int, rep : Int, spec : DOMAIN Specs]
  BY <1>1, <1>2, <1>3
<1>5. ASSUME NEW a \in Position, Before(a, at) \/ a = at
      PROVE  Before(a, NextAt)
  <2>1. a.combo \in Int /\ a.rep \in Int /\ a.spec \in Int
    BY <1>1 DEF Position
  <2>2. \/ a.combo < at.combo
        \/ a.combo = at.combo /\ a.rep < at.rep
        \/ a.combo = at.combo /\ a.rep = at.rep /\ a.spec <= at.spec
    BY <1>2, <1>5, <2>1 DEF Before
  <2>3. CASE NextAt = [combo |-> at.combo, rep |-> at.rep, spec |-> at.spec + 1]
    BY <1>2, <2>1, <2>2, <2>3 DEF Before
  <2>4. CASE NextAt = [combo |-> at.combo, rep |-> at.rep + 1, spec |-> 1]
    BY <1>2, <2>1, <2>2, <2>4 DEF Before
  <2>5. CASE NextAt = [combo |-> at.combo + 1, rep |-> 0, spec |-> 1]
    BY <1>2, <2>1, <2>2, <2>5 DEF Before
  <2> QED
    BY <1>3, <2>3, <2>4, <2>5
<1> QED
  BY <1>4, <1>5

LEMMA FilesStep ==
    ASSUME OwnDirectories, OwnNames
    PROVE  FilesInv /\ [Next]_vars => FilesInv'
<1> SUFFICES ASSUME FilesInv, [Next]_vars PROVE FilesInv'
  OBVIOUS
<1>1. ASSUME Finish PROVE FilesInv'
  <2>1. PICK q : /\ q = [policy |-> Policy, ci |-> Combo.ci, bs |-> Combo.bs, jobs |-> Combo.jobs,
                         rate |-> Combo.rate, rep |-> at.rep, ran |-> work]
                 /\ rows' = Append(rows, q)
                 /\ files' = [p \in DOMAIN files \cup {PathOf(q)} |->
                                 IF p = PathOf(q) THEN Len(rows') ELSE files[p]]
    BY <1>1 DEF Finish
  <2>2. PICK R : rows \in Seq(R) /\ q \in R
    <3>1. PICK Q : rows \in Seq(Q)
      BY DEF FilesInv
    <3>2. PICK R : R = Q \cup {q}
      OBVIOUS
    <3> QED
      BY <3>1, <3>2
  <2>3. PICK m : m = Len(rows) + 1
    OBVIOUS
  <2>4. /\ DOMAIN rows' = DOMAIN rows \cup {m} /\ Len(rows') = m /\ rows' \in Seq(R)
        /\ \A i \in DOMAIN rows : rows'[i] = rows[i] /\ i # m
        /\ rows'[m] = q
    BY <2>1, <2>2, <2>3
  <2>5. stage = "finish" /\ at \in Position
    BY <1>1 DEF Finish, FilesInv, Position
  <2>6. PathOf(q) = PathOf(RowAt(at))
    BY <2>1 DEF PathOf, RowAt, Policy, Combo
  <2>7. at \in [combo : Int, rep : Int, spec : DOMAIN Specs] /\ ~Before(at, at)
    BY SpecsShape DEF FilesInv, Before
  <2>8. \A i \in DOMAIN rows : PathOf(rows[i]) # PathOf(q)
    BY <2>5, <2>6, <2>7 DEF FilesInv
  <2>9. \A i \in DOMAIN rows' : PathOf(rows'[i]) \in DOMAIN files' /\ files'[PathOf(rows'[i])] = i
    BY <2>1, <2>4, <2>8 DEF FilesInv
  <2>10. CASE stage' = "over" /\ UNCHANGED at
    BY <2>4, <2>7, <2>9, <2>10 DEF FilesInv
  <2>11. CASE stage' = "begin" /\ at' = NextAt /\ NextAt.combo \in DOMAIN Combos
    <3>1. \A a \in Position : ~Before(a, at') => ~Before(a, at) /\ a # at
      BY <2>7, <2>11, NextIsLater
    <3>2. ASSUME NEW i \in DOMAIN rows', NEW a \in Position, ~Before(a, at')
          PROVE  PathOf(rows'[i]) # PathOf(RowAt(a))
      <4>1. ~Before(a, at) /\ a # at
        BY <3>1, <3>2
      <4>2. CASE i \in DOMAIN rows
        BY <2>4, <2>5, <4>1, <4>2 DEF FilesInv
      <4>3. CASE i = m
        BY <2>4, <2>5, <2>6, <4>1, <4>3, PathIsOwn
      <4> QED
        BY <2>4, <4>2, <4>3
    <3>3. at' \in [combo : Int, rep : Int, spec : DOMAIN Specs]
      BY <2>7, <2>11, NextIsLater
    <3> QED
      BY <2>4, <2>9, <2>11, <3>2, <3>3 DEF FilesInv
  <2> QED
    BY <1>1, <2>10, <2>11 DEF Finish
<1>2. ASSUME Begin \/ Arrive \/ Over \/ UNCHANGED vars PROVE FilesInv'
  <2>1. UNCHANGED <<at, files, rows>> /\ (stage' # "over" => stage # "over")
    BY <1>2 DEF Begin, Arrive, Over, vars
  <2> QED
    BY <2>1 DEF FilesInv
<1> QED
  BY <1>1, <1>2 DEF Next

(* RowHasItsFile: where no two combinations share a directory and no two   *)
(* policies a name, no run writes over the file of another.                *)
THEOREM NoFileIsOverwritten ==
    ASSUME OwnDirectories, OwnNames
    PROVE  Spec => []RowHasItsFile
<1>1. FilesInv => RowHasItsFile
  BY DEF FilesInv, RowHasItsFile
<1>2. FilesInv /\ [Next]_vars => FilesInv'
  BY FilesStep
<1> QED
  BY FilesInit, <1>1, <1>2, PTL DEF Spec
=============================================================================
