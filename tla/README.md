# EcoKube: a verification project

EcoKube schedules jobs on heterogeneous nodes with the carbon intensity of their sites in mind. Two
programs of it decide placements: a discrete-event simulator (`hetsched/pkg/core`, driven by
`hetsched/cmd/run_sim.go`) and a controller for Kubernetes (`hetsched/controller`). Both call the same
policies (`policies/`). This directory holds TLA+ models of them and of the parts around them, TLC runs that
check the models on small instances, and TLAPS proofs for every instance. All paths are under `src/`.

## The system

| component | state it keeps | operations | correct when |
| --- | --- | --- | --- |
| simulator event loop (`hetsched/pkg/core/basesim.go`, `SimulatedNode.go`) | clock, pending list, queue, nodes with free amounts and reservations, logs | Init, AddWorkload, SetScheduleBatchSize, Run (selectNode, CanAccept, Reserve, Release, NextReleaseAfter) | every workload runs once, no node is over its total, no workload waits that could have run, Run returns |
| node selection (`hetsched/pkg/core/scheduler.go`) | none | SelectSiteAndNode, ArgMin | the choice does not depend on the order of a Go map |
| policies (`policies/`) | weights | Score of seven policies | no node beats the chosen one in everything, infeasible nodes and the order of the list do not matter, bounds are kept |
| metrics (`hetsched/pkg/metrics`) | carbon-intensity traces, loaded once | ComputeCICost, EstimateCarbonIntensity, lookupWattnetCI | the sample of the hour is found, the future is not seen, no run is free of carbon |
| controller (`hetsched/controller/main.go`, `scheduler.go`) | informer cache, work queue, `states` map, two workers, a JSONL file of decision lines | event handlers, processNextItem, schedulePod (snapshot, Schedule, bindPod, annotatePod, recordState), observePod, dropState | no pod is lost, decision lines are true, overcommitment is bounded, the end of every run is written, and with its decision while the process lives |
| work queue (client-go) | keys to do, keys being done, keys put aside | Add, Get, Done, AddAfter, AddRateLimited | no key is done by two workers at once, none is forgotten |
| engine (`hetsched/pkg/engine`) | none | ScoreNodes, Schedule | candidates are nodes on which the job fits |
| testbed dispatcher (`CentralUnit.go`, `SchedulingStrategy.go`, clusters) | round-robin counter, decision log | Dispatch, DispatchAll, SelectCluster, SubmitJob | what a cluster took was decided, and once |
| sweep driver (`hetsched/cmd/run_sim.go`) | template workload, random sources, files, summaries | the nested sweep, applyArrivalSchedule, scrubPreferredSite, summariseRun | policies are compared on the same arrivals and durations, each row has its file and is that of its log |
| generator and loader (`hetsched/cmd/gen_data.go`, `pkg/generator`, `pkg/loader`) | none that lasts | GenerateNodes, GenerateWorkloads, Load... | what is written is read back, and every job can run |
| archived policies, forecast clients, replayer, deployment, analysis | none that lasts | score, call, submit, plot | not modelled, see below |

The simulator is sequential. What makes it hard is the event loop: time jumps, reservations that end at the
very moment something starts, a queue filtered in place while it is ranged over, a policy that is not trusted
to answer a feasible node, and signals read at a time that is not the clock's.

The controller is concurrent: one goroutine delivers informer events, two workers take keys, and other
processes change pods and nodes behind its back. Workers and handlers meet in the queue (locked), in the
`states` map (locked, but observePod writes its line after the unlock) and in the API server (no lock: a
snapshot is old when the binding is made, and is itself made of two lists of different ages). Nothing is
persisted but the pods themselves and the lines.

The dispatcher is one goroutine that asks clusters over HTTP, so that answers differ from question to
question and submissions get lost. The sweep runs simulations one after the other on copies of one template
that share their label maps.

## Modules

| module | role |
| --- | --- |
| `JobSchedule` | abstract specification of the simulator: jobs start once, on a node with room, not before they are submitted |
| `BaseSim` | the event loop and the nodes, statement by statement where statements can go wrong |
| `Filter` | what a loop leaves that appends the elements passing a test to a fresh slice |
| `TraceLookup` | parsing and searching a carbon trace, and what a lookup is for |
| `CarbonModel` | carbon intensity, power, energy and carbon of a workload on a node |
| `Candidates` | the signals policies measure on each node at the step that places a workload; extends BaseSim and CarbonModel |
| `Policies` | the scores of the seven policies from these signals |
| `PoliciesProofs` | lemmas about scores, least entries, filtered lists and sums over finite sets |
| `NodeSelect` | ArgMin over a map in any order |
| `PolicyChoice`, `PolicyChoiceProofs` | one call of SelectSiteAndNode: composes Policies and NodeSelect; proofs about the choice |
| `Summary` | the row of summary.csv from a log |
| `PolicyRun` | one whole simulation: composes BaseSim, Candidates, Policies and Summary |
| `SimulationProofs` | proofs about the simulator: the loop and its refinement, then carbon, signals, placements and rows of whole simulations |
| `PlacementService` | abstract specification of the controller: a pod gets a node once, one with room but for a few pods, and this is told once |
| `WorkQueue` | the client-go queue as the controller uses it (external code) |
| `Controller`, `ControllerProofs` | the controller with the API server, informer and kubelets around it; extends WorkQueue; proofs of all its invariants |
| `Placement`, `PlacementProofs` | the controller's decision on one pod while nodes and other pods come and go, and its proofs |
| `Dispatcher`, `DispatcherProofs` | the testbed dispatcher and its clusters, and its proofs |
| `Sweep`, `SweepProofs` | the nested sweep, and its proofs |
| `Inputs`, `InputsProofs` | generator, file and loader, and its proofs |
| `MC...` | the instances for TLC |

**BaseSim.** Its variables are the fields of BaseSim and the locals of Run (`queue`, `next`, `i`,
`scheduled`). Init, AddWorkload and SetScheduleBatchSize happen before Run; the iterations of the loop
follow as StartRun, AdvanceIfIdle, ReleaseNodes, EnqueueArrivals, one step of the scan for every queued
workload (PlaceByPolicy, PlaceByFallback or Keep), EndScan and AdvanceClock. The policy may answer any
name, also one that is no node or cannot take the workload; the fallback picks the least used node by exact
fractions. The Select override, which nothing sets, is left out. Property `ImplementsSchedule` is the
refinement to `JobSchedule`.

**TraceLookup, CarbonModel, Candidates, Policies.** Operators with no state of their own: a trace is a sequence
of rows that parse or not, a profile is a kind and arguments that parse or not. Floating-point formulas are
scaled integers with the same guards, clamps, fall-backs and comparisons; powers and roots are tables. `Filter`
is how rows that parse and feasible nodes are collected. TOPSIS compares cross-multiplied squares of distances
instead of quotients of roots. "Now" is a parameter, because the simulator passes the submit time
(basesim.go:163).

**PolicyChoice, PolicyRun.** PolicyChoice starts with any list of nodes and any signals: Score is the
policy, Visit one iteration of ArgMin. In PolicyRun the step of BaseSim that places a workload must be the
placement that one of the policies selects from the signals of that moment; Summarise makes the row once
Run has returned.

**Controller.** Each access to something another goroutine or process can change is an action: LookUp (the
lister), Choose, Defer or GiveUp (the pod list and the policy's answer on it), Bind, BindAnswerLost,
BindFails, Annotate, Record; HandleSeen and WriteObserved are observePod before and after its Unlock. What
the unlocked read sees while recordState replaces the trace is any mixture of old and new fields. The API
server, the informer and kubelets (Create, KubeletStart, KubeletEnd, Delete, Remove, Deliver) are external
and as liberal as the code must cope with: news can be late or merged, names can be used again. A call
either took effect by the time its context ended or never does. The policy may choose any node on which the
pod fits in the snapshot, which covers all three schedulers. Property `ImplementsService` is the refinement to
`PlacementService`; `DecisionIsBinding`, the part of it about decision lines, is also proved by itself.

**Placement.** What Controller leaves open: ListPods and ListNodes are the two lists of a snapshot, Choose
one of the three schedulers with its deferral, GiveUp the three rejections. Nodes join and leave, other pods
are bound, start and end at any step, and new ones like those that ended come for ever. Time is relative: Tick
adds a second to the ages of pods up to their lengths, and takes one from a deferral, so that it never ends and
states stay few. There is no queue and one worker; the races of workers are Controller's.

**Dispatcher.** A run is a sequence of strategies and of workloads. Ask and AskUtilisation are one HTTP
question each, with any answer or none; Submit may lose the submission or only its answer.

**Sweep.** Begin, Arrive and Finish are the three parts of a run: the copy of the template (blinded for the
baselines), the arrival schedule drawn from a source that is a function of its seed, the file and the row.
What a simulation does with its jobs is BaseSim's.

**Inputs.** WriteJob is a row of workloads.csv with any draws, NextWave an interval, Load the loader.

## What the runs show

| run | question | result | distinct states |
| --- | --- | --- | --- |
| sim | all invariants of the loop, the refinement to JobSchedule, and does Run return? | holds | 585,000 |
| sim_idle | "advance time to next submit if idle" (basesim.go:60) | violated: the clock jumps past it | |
| policy_run | do signals, placements and rows of whole simulations mean what they say? | yes | 145,000 |
| choice | are the choices of all policies undominated and independent of orders? | yes | 726,000 |
| ctrl_race | by how much can workers that race overcommit a node? | by one pod per other worker | 1,298,000 |
| ctrl_names | pods of one name, a deferral, a failed call, a restart: the placement service, no lost pod | holds | 680,000 |
| ctrl_live | are waiting pods bound and the ends of their runs written, despite a failed call and a restart? | yes, under fairness | 339,000 |
| placement | does the choice fit, is a pod rejected only when full, is one that keeps room bound? | yes, the last but for carbonscaler and reservations that keep coming | 704,000 |
| placement_shift | "CarbonScaler honours temporal shifting" (README.md:184) | violated: never, at the default threshold | |
| dispatch | is what arrives decided once, does round robin pass nobody over, does it end? | yes | 58,000 |
| sweep | do policies see the same arrivals and does each row have its file? | yes | 23,000 |
| inputs | can every generated job run, and do the GPU hints agree? | yes | 161,000 |

Properties, by what they guard against:

- Loop: `ExactlyOnce` (the in-place filter loses or doubles no workload), `Conservation` (free amounts are
  totals less reservations, so the cap in Release hides nothing), `LogFeasible` (over the log alone, at every
  start each node is within its total), `LedgerMatchesLog` (reservations are the log's runs not released),
  `GreedyRound` (what a scan leaves behind does not fit or the batch was full), `TracesMatchLog`,
  `RunReturns`.
- Signals: `WaitOrderIsCurrent` (waits from the submit time order nodes as waits from the clock do),
  `QueueSignalIsLoad`, `LookupIsExpected` (halving against its definition), `CarbonIsCounted`. The first two
  leave out nodes that got a workload of no length at this instant (`Instant`): the loader accepts a duration
  of 0, and such a reservation is over as soon as it is made but is held until the clock next moves.
  `PolicyPlacesAll`: what a policy calls feasible is what the loop accepts.
- Choice: `SelectionIsLeast`, `Undominated` (in every signal that the kind of policy weighs: for the weighted
  sums also energy, transfer and fit), `InfeasibleIrrelevant`, `OrderIrrelevant`, `EpsilonKept`.
- Row: `CfpBetweenJobs` (carbon and CPU time of the same jobs, whatever the warm-up leaves out).
- Controller: `NoLostPod` (a pod that waits is in the queue, with a worker, or news of it is on the way),
  `ImplementsService` (the refinement: a pod is bound once, and its one decision line names the node it is
  bound to, despite stale caches, lost answers and restarts), `OvercommitBounded` (leaving out, for each
  resource, at most one pod per other worker, a node is within its allocatable), `MarkedIsBound` (with an
  exception: annotatePod patches by name and may mark a new pod for an old one), `EventuallyBound`,
  `EndsObserved` (some line has the end, and one of them the decision, unless its trace was lost). A reader of lines joins them by id. The decision and the end with it are under
  `ciw/workload_id` (main.go:826). An end whose trace was lost, by a restart or with the answer to the binding,
  is under the pod's UID (main.go:611), as is what observePod writes after it dropped a trace.
  analysis/scripts/aggregate_k8s.py leaves these lines out (150): it then has the decision alone and reckons
  the end from the duration, or, when the answer was lost, nothing.
- Decision: `ChoiceFitsKnown`, `RejectedOnlyIfFull`, `BoundIfRoom` (not while carbonscaler finds new
  reservations for ever: without this exception TLC shows a pod that is put off again by every new pod).
- Dispatcher: `ReceivedIsDecided`, `ChoiceIsBest`, `RoundRobinServesAll`, `DispatchEnds`.
- Sweep: `SameArrivals` (arrivals and durations only: the baselines also run on neutralised sites), `PreferencesKept`, `RowHasItsFile`. Inputs: `SomeNodeFits`, `GpuHintsAgree`.

Each property of a passing run has a mutant, an operator with a plausible bug in the place of a definition,
under which TLC finds it violated.

### Bounds, and why they are enough

- sim: two nodes, so that there is a choice and a fallback; three workloads with durations from zero, so that
  a reservation can end before, at and after an arrival; batch sizes that do and do not cut a round. One
  workload runs, one is placed and one is passed over: that reaches every branch of the scan. MaxClock is
  beyond every end that the durations allow.
- policy_run: durations of 0, 1 and 4, so that a run ends at once, within its hour or hours later; a third
  node too small for most, whose profile does not parse; hours of two units, so that
  traces change while a workload waits, with a missing hour, a row that does not parse and an empty series.
  Warm-up windows leave out no, some or all jobs. All workloads may be placed by different kinds of policy,
  which covers the runs of each. TOPSIS is left to choice (its squares leave TLC's integers).
- choice: up to three nodes, the fewest with which a best, a worst and a third in between exist; signals of
  two or three values whose ranges divide Scale, so that normalised signals are exact; in the epsilon case
  carbon and energy on both sides of the 15 percent guard. The weighted sums come with weights for fit, and
  with weights for energy and transfer. The greedy mode is in policy_run.
- ctrl_race: three pods no two of which fit the node, one of them without a demand for memory, and two
  workers (as in main.go:224): the node must be fillable by others while one worker holds a snapshot. The
  third pod shows that the bound 1 is not exceeded later, and that it holds for each resource alone.
- ctrl_names: two pods of one name, one deferral, one failed call, one restart. A third pod of the name only
  repeats the step from the first to the second. MaxNotes bounds undelivered notifications; Deliver waits
  when it is reached and catches up with the newest object after it, which the informer also does.
- ctrl_live: two pods that exclude each other, so that one has to wait for the end of the other, one failed
  call or lost answer and one restart; no deferral, because liveness graphs are large.
- placement: two nodes of known sites and one without in between, a cap of one node or none, one other pod
  at a time, that fills the first node and leaves room on the last. Reservations last two seconds and a
  deferral at most one: some are too far ahead, near or over.
- dispatch: two simulated clusters, one too small for one workload, and a remote one that answers an idle,
  a busy or an overloaded usage or nothing; a workload that fits no simulated cluster.
- sweep: two job counts, carbon weights, batch sizes and repetitions, tokens that do not parse, a file of an
  earlier sweep. inputs: three jobs in waves of two, shares below and above 0.75, draws at both ends of
  each range.

The controller runs do not check deadlock: with finitely many pods the system comes to rest.

### Fairness

BaseSim is a loop of one goroutine: weak fairness of its next step, nothing else. In the controller the
handler, each worker, the informer's stream, the timers of the queue and the kubelets are fair (weakly: Go
schedules every goroutine that can run, and client-go re-lists after a broken watch). Nothing is assumed
of Create, Delete, failures and Restart; the last two are bounded, since no pod is bound when every call
fails for ever. Choices inside a worker's step are not fair: a deferral is excluded from ctrl_live, where
nothing says that reservations end, and is in placement, where they do.
In Placement time passes and the worker goes on (weakly fair Tick and Worker); nodes and other pods need
not. The dispatcher is one goroutine; its HTTP calls have no timeout (RemoteCluster.go), so that they
return is an assumption about the clusters and not something the code sees to.

## What is proved

Every safety invariant, action property and refinement that a passing run checks is the statement of a theorem
here; the runs show them on their instances, and liveness besides.

| theorem | states |
| --- | --- |
| SimulationProofs `TypeCorrect` | TypeOK |
| SimulationProofs `WorkloadsExactlyOnce` | ExactlyOnce |
| SimulationProofs `ResourcesConserved` | Conservation |
| SimulationProofs `LogIsFeasible` | LogFeasible |
| SimulationProofs `LedgerIsTheLog` | LedgerMatchesLog |
| SimulationProofs `RoundsMissNothing` | GreedyRound |
| SimulationProofs `TracesAreOfTheLog` | TracesMatchLog |
| SimulationProofs `LoopImplementsSchedule` | Spec => JobSchedule's Spec |
| SimulationProofs `SimulationsAreSchedules` | ExactlyOnce and LogFeasible of PolicyRun's RunSpec |
| SimulationProofs `WaitsSortNodes` | WaitOrderIsCurrent |
| SimulationProofs `SignalsShowLoad` | QueueSignalIsLoad |
| SimulationProofs `LookupsAreExpected` | LookupIsExpected |
| SimulationProofs `EveryPlacementEmits` | CarbonIsCounted, if every node draws power, also when idle (NodesDrawPower) |
| SimulationProofs `PoliciesPlaceAll` | PolicyPlacesAll |
| SimulationProofs `FootprintIsBetweenJobs` | CfpBetweenJobs |
| PolicyChoiceProofs `SelectsLeast` | SelectionIsLeast |
| PolicyChoiceProofs `ChoiceIsUndominated` | Undominated, if scaling tells values apart (ScaleIsFine) |
| PolicyChoiceProofs `InfeasibleNodesChangeNothing` | InfeasibleIrrelevant |
| PolicyChoiceProofs `OrderChangesNothing` | OrderIrrelevant |
| PolicyChoiceProofs `EpsilonKeepsBounds` | EpsilonKept |
| ControllerProofs `ControllerTypes` | TypeOK |
| ControllerProofs `DecisionLinesAreTrue` | DecisionIsBinding |
| ControllerProofs `MarksFollowBindings` | MarkedIsBound |
| ControllerProofs `NoPodIsLost` | NoLostPod |
| ControllerProofs `RacesOvercommitByFew` | OvercommitBounded |
| ControllerProofs `ControllerImplementsService` | ImplementsService: Spec => PlacementService's Spec |
| PlacementProofs `ChoicesFit` | ChoiceFitsKnown |
| PlacementProofs `RejectionsAreDue` | RejectedOnlyIfFull |
| DispatcherProofs `SubmitsToTheBest` | ChoiceIsBest |
| DispatcherProofs `SubmissionsAreDecided` | ReceivedIsDecided |
| DispatcherProofs `RoundRobinIsFair` | RoundRobinServesAll |
| SweepProofs `BlindingDoesNotLeak` | PreferencesKept |
| SweepProofs `ComparedOnTheSameJobs` | SameArrivals |
| SweepProofs `NoFileIsOverwritten` | RowHasItsFile, for flags whose directories and names differ (OwnDirectories, OwnNames) |
| InputsProofs `EveryJobFits` | SomeNodeFits |
| InputsProofs `HintsAgree` | GpuHintsAgree |

### From which assumptions

Each theorem holds for every value of the constants that meets the ASSUMEs of its module, which TLC evaluates
on every run. They say that there are finitely many pods, jobs, nodes and workers; that demands, amounts,
durations, slacks and bounds are natural numbers (durations may be 0) and totals of BaseSim positive; that
names are told apart, and from the value that stands for none; that what is a sequence in the code is one here
(Template, Clusters, a run's workloads, without duplicates where names are keys); and that `Load` is the sum of
demands, by its value on single pods and its additivity. `Load` is a constant because a recursive sum would put
the modules out of the prover's reach; the MC modules define it as the sum, and TLC checks the assumption.
For the policies they say in addition that a trace file is sorted, as those in carbon_intensity_traces_wattnet
are; that the power curve is increasing; that a node's index is its position in the slice of nodes; that weights
are nonnegative (as the defaults and calibrateEcoWeights make them; -ecokube-weights takes negative ones too, for
which a better signal raises a score and nothing is claimed); and that for keids a workload has one runtime on all
nodes (candidate.go:104).

Three theorems are false without a further hypothesis, which they name. TLC evaluates it as an ASSUME of the
MC module, so the instances show that it can be met.

- `OwnDirectories` and `OwnNames` (NoFileIsOverwritten): no two combinations of flags have the same directory,
  no two policies the same name. The sweep does not look; see the disagreements.
- `ScaleIsFine` (ChoiceIsUndominated): signals are in 0..Scale, so that a normalised signal, rounded down, tells
  apart the values that the code's floating-point division tells apart. This is about the model's arithmetic.
- `NodesDrawPower` (EveryPlacementEmits): peak power and idle fraction, after the fall-backs of cicost.go, are
  positive. Metadata with an idle fraction of 0 make a node on which a small job costs nothing.

### Along which argument

**BaseSim.** The invariants are proved in layers, each one inductive given those before it. TypeCorrect comes
first, because all arithmetic needs it. ExactlyOnce is inductive once the position of the scan is related to
the queue it filters (OnceInv). Conservation needs that what a node holds is a set of reservations of different
workloads, so that releasing one adds back what was taken (LedgerInv); it makes free amounts nonnegative, from
which a start that passes CanAccept keeps the log feasible (LogInv). LedgerMatchesLog is inductive with both
directions apart (MatchInv): every reservation is of a log entry, and every entry not over is reserved. For
GreedyRound the invariant follows the scan: while the round is short of its batch, no node can take what the
scan kept so far, since placements only shrink nodes. The refinement maps each placement to JobSchedule's start
and every other step to a stutter, and uses these invariants for its guard.

**PolicyRun.** Every step is a step of the loop or leaves its variables alone (LoopStep), whatever the policies
answer, so that the loop's invariants hold in it. From MatchInv a node's reservations while a policy is asked
are the runs that end after the clock, but for workloads of no length placed at this instant: waits from the
submit time are then waits from the clock plus one amount, which keeps the order.

**Signals and rows.** The search halves an interval whose left end is always before the time looked for and
whose right end is not; as the rows that parse are sorted, that determines its result. Averages of positive
intensities are positive, and where they are not, the fall-back is, so that a placement's energy is multiplied
by something positive. PolicyPlacesAll goes from the signals to the loop: Candidates calls a node feasible if
and only if CanAccept does, the items are a list of the kind the policies expect, and a policy that is given a
feasible node selects one (lemma PolicyAnswers); so the fallback is reached only when no node accepts, which
keeps the workload. RowInv says that a row is made of the log and stays so; CfpBetweenJobs is then that a
quotient of two sums lies between the least and the greatest of the quotients, by induction on the set of jobs.

**PolicyChoice.** The answer of each policy is the least, by cost and name, of the feasible nodes. From there
Undominated is monotonicity: a normalised signal grows with the signal, strictly if Scale is fine, each score
grows with each normalised signal that has a weight, and for topsis the distance to the best point grows and
that to the worst shrinks, which carries over to the cross-multiplied squares. InfeasibleIrrelevant and
OrderIrrelevant need that everything a score depends on (ranges, bounds, ideal points, the candidates of the
epsilon policy) is a function of the set of feasible items: filtering or reordering the list renames positions
and leaves that set alone. For names that are told apart, the least entry is then the same one; the epsilon
policy breaks ties by position and fixes only the signals. EpsilonKept reads off which candidates survive its
two cuts.

**NodeSelect.** The best so far comes first, by cost and name, of the keys ranged over and is the empty name
before the first: with that, ties cannot depend on the order.

**Controller.** Six invariants in order. TypeInv has what the handler and each worker hold at each point.
PodsInv is the life of a pod: its name has one live pod, copies are no newer than the pod, a pod that is gone
does not come back. BindingInv says what a worker past its binding may rely on: the pod is bound to the node it
chose or is not, once and for all, so a line that is still to be written and one that was cannot both name the
pod. QueueInv is the work queue's own invariant: a key in work is with one worker, and a key that became
dirty meanwhile is put back. AttendedInv makes NoLostPod inductive by naming, for each waiting pod, who
attends to it: the queue, a worker that has not given up, the handler, or a notification. RoomInv is the
argument for OvercommitBounded, said of the occupants of a node together with the pods that workers are about
to bind to it, because those hold room on an old list: for each resource these fit, but for one pod per other
worker. When a worker chooses a node, its pod fits with what it listed there, or asks nothing of what is
exceeded; any pod of the node it did not list was bound since by one of the other workers or is still to be
bound by one, each of which lists anew before its next choice.

The refinement to PlacementService maps a pod's stage and node in the API server and its decision lines. Bind
and BindAnswerLost are Place, for which the API server has the pod unbound and RoomInv the room; Record is Tell,
for which BindingInv has the line true and the first one; creation, kubelets and deletion are the life of the
pod. All else - queue, caches, annotations, traces, failed calls, the restart - changes none of the three
variables, which is what the refinement is there to show.

**Placement.** DecisionInv relates the list of pods to the pods (what was not bound since is on the list where
it is), the chosen node to the list, and a rejection to the views. The views are in any order, cut by name when
the cap applies, and the proof of RejectedOnlyIfFull does not use which.

**Dispatcher.** OfferInv: the best so far is the best of the offers of the clusters asked so far, by the first
minimum in the order of the list. SentInv: everything received or decided lies behind the loops over strategies
and workloads, so nothing is submitted again. TurnInv has the counter as the number of round-robin selections so
far, and says which index each of them started from. N in a row start from N different indices, so each cluster
that accepts is at the front of one, where the first that accepts is taken.

**Sweep.** LoadedInv is the heart: the template is what was loaded, so that every run copies the same jobs.
WorkInv and RowsInv carry to the rows that jobs are made from it and from the draws of a seed that only job
count, rate and repetition make. FilesInv places each row at the combination and policy that the nested loops
were at when it was made: the path of a row gives these back if names differ, so that what is still to be
written has another path than what was.

**Inputs.** Rows of the file are of one of three kinds with bounded demands (FileInv), and each kind has a node
that takes its upper bounds.

### What the proof attempts changed

- OvercommitBounded was stated with one set of pods left out for both resources. That is false, which no run
  had shown: a node over its memory reports none free, not less than none (main.go:469), so a pod that asks for
  no memory still fits it and one race can exceed the processor and another the memory, with two pods to leave
  out. The property is now per resource and ctrl_race has such a pod.
- WaitOrderIsCurrent and QueueSignalIsLoad were false for workloads of duration 0, which loader.go parses and
  nothing refuses. policy_run had left them out; it has them now, and both properties name the exception.
- Undominated, CarbonIsCounted and RowHasItsFile needed the hypotheses above, which the instances had met
  without saying so.
- Some operators have a form chosen for the prover, with the same meaning: filtered lists are `AtPositions`
  instead of SelectSeq, the search is a recursive function on pairs of positions, sums are MapThenSumSet.

The library's induction theorems take an operator as a parameter and cannot be instantiated. Where an
induction on numbers or on finite sets is needed (sums, counting, least elements), PoliciesProofs states it for
sets of numbers (NatInduct) and the proofs take the set of numbers for which the claim holds.

### Only model-checked

Liveness: RunReturns, EventuallyBound, EndsObserved, BoundIfRoom and DispatchEnds. Fairness
and ENABLED are beyond the proof system used.

## Disagreements met while modelling

Two are shown by runs: sim_idle and placement_shift. The others are read off the definitions, which follow
the code:

- Two workers choose from snapshots taken before either binds: "the feasible node" of
  controller/scheduler.go:234 may be full by then. OvercommitBounded is what remains true.
- types.go:17 says of a job's slack "how long the job can be deferred"; each deferral is compared with the
  whole slack (scheduler.go:179-189) and nothing adds up the earlier ones. BoundIfRoom has it as its exception.
- core/scheduler.go:48 promises ErrNoFeasible; policies answer `{"": +Inf}`, which is selected as the empty
  name without error. Its callers cope with that.
- ecokube.go:46 says a nil Now means time.Now; Score takes the job's submit time (86-88), so a workload that
  waited is scored for the past. WaitOrderIsCurrent shows that waits survive this; intensities do not.
- cicost.go:320 says the estimate matches the model of the cost; it lacks the fall-backs of the cost (48-56).
- CIaware answers "No cluster can accept job" (SchedulingStrategy.go:156) also when every cluster that
  accepted is simulated, or when the second metric read fails.
- README.md:161 labels pods with requires_gpu; jobToCore (scheduler.go:70) hands no labels to the policy.
- run_sim.go:731 and 212-215 round weights and rates into names: 0.351 and 0.352 share a file, the later
  run truncates it. NoFileIsOverwritten needs flags that differ in the digits that are kept.
- run_sim.go:109 excludes the warm-up window; when it leaves nothing, everything is counted (902).
- avg_ci_per_job_g and avg_wait_s hold medians (run_sim.go:955), README.md:65 reads them as means.
- gen_data.go:51: above 0.75 the class shares no longer add up and half of the jobs require GPUs
  (generator.go:210).
- README.md:91 promises a device_class hint on nodes; GenerateNodes writes none (generator.go:75).
- gen_data.go:50: waves drawn less than a second apart get one submit time in the file (generator.go:173).
- config/nodes.csv names sites A, B and C, config/sites.csv site-a, site-b and site-c: attached by exact
  match (sites.go:46), these nodes have no site. The names in generated files match.

## What is not modelled

- Controller: the schedulerName filter (every pod is for it), containers that restart (the replayer's pods
  do not), tombstones of deletes, shutdown other than as a restart, the lines written for a rejection, parsing
  of quantities and environment variables.
- Engine: the scores of ScoreNodes, which only reach decision lines, and Schedule, which only the archived
  policy calls.
- Metrics: concurrent first lookups (sync.Once makes the second wait), lookups of the zero time, export.go
  and what metrics.go has besides its number parser, which these programs do not call. A sine profile with a
  period below a second divides by zero in the code; CarbonModel is given longer ones.
- Sweep: params.json, trace files, columns of summary.csv that copy flags, demo_core.go. cleanResults leaves
  files of earlier sweeps in subdirectories; Sweep starts with one.
- Generator and loader: distributions (a draw is any value of its range), Theta files, sites.json,
  malformed CSV files.
- Data types: the trace writer (one file behind one mutex) and energy.go, which nothing calls.
- Archived policies, forecast clients, replayer, manifests, scripts and analysis: not called by these
  programs, or one HTTP call and its I/O.

## Order of the work, and what is open

BaseSim came first, with its abstract schedule, then the controller with its queue, its environment and the
abstract placement service; then ArgMin, metrics, policies and whole simulations with their rows; the
controller's decision, the dispatcher, the sweep, and generator and loader. Proofs followed in the same order,
the policies last.

Open are proofs of liveness, the parts listed above as not modelled, and three hazards that no property covers
and PROJECT.json lists with their reasons.
